--------------------------- MODULE ToolCalls_proofs ---------------------------
(***************************************************************************)
(* Proofs about ToolCalls: that what runs is what was shown, that a        *)
(* proposal left alone ends as proposed, and that a closed review stays.   *)
(* First the records and the plans; then what is known of each call and of *)
(* each confirmation (ToolInv), one action after the other; then the       *)
(* theorems.                                                               *)
(***************************************************************************)
EXTENDS ToolCalls, SequenceTheorems, TLAPS

-----------------------------------------------------------------------------
(* Commands and plans. *)

\* What a command of each tool carries.
LEMMA CommandFields ==
  ASSUME NEW cmd \in Commands
  PROVE  /\ cmd.tool = "set_status" => cmd.on \in Initiatives /\ cmd.to \in Statuses
         /\ cmd.tool = "propose_now_set" => cmd.on \in SUBSET Initiatives
         /\ cmd.tool = "record_review_decision" =>
               cmd.on \in Reviews /\ cmd.decision \in Decisions \cup {Absent}
         /\ cmd.tool = "promote_takeaway" => cmd.on \in Takeaways
BY DEF Commands, SetStatus, ProposeNowSet, StartReview, RecordDecision, Promote

\* The plan of set_status is one move, or none.
LEMMA PlanOfStatus ==
  ASSUME NEW cmd, cmd.tool = "set_status"
  PROVE  PlanOf(cmd) = IF status[cmd.on] = cmd.to THEN {}
                       ELSE {Change(cmd.on, status[cmd.on], cmd.to)}
BY DEF PlanOf

\* The plan of propose_now_set is its moves.
LEMMA PlanOfProposal ==
  ASSUME NEW cmd, cmd.tool = "propose_now_set"
  PROVE  PlanOf(cmd) = NowSetMoves(cmd.on)
BY DEF PlanOf

\* A plan of these tools moves initiatives to statuses.
Moving == {"set_status", "propose_now_set"}

Moves(plan) == \A m \in plan : m.on \in Initiatives /\ m.after \in Statuses

\* Both are moves of initiatives between statuses.
LEMMA PlansMove ==
  ASSUME NEW cmd \in Commands, cmd.tool \in Moving, ranked \subseteq Initiatives
  PROVE  Moves(PlanOf(cmd))
<1>1. CASE cmd.tool = "set_status"
  <2>1. cmd.on \in Initiatives /\ cmd.to \in Statuses
    BY <1>1, CommandFields
  <2> QED BY <1>1, <2>1, PlanOfStatus DEF Moves, Change
<1>2. CASE cmd.tool = "propose_now_set"
  <2>1. cmd.on \in SUBSET Initiatives
    BY <1>2, CommandFields
  <2>2. PlanOf(cmd) = NowSetMoves(cmd.on)
    BY <1>2, PlanOfProposal
  <2> QED BY <2>1, <2>2, StatusAssumption DEF NowSetMoves, Moves, Change
<1> QED BY <1>1, <1>2 DEF Moving

\* The moves left lead to what is proposed, and among what the plan could see
\* nothing else is missing.
Leads(plan, desired, seen) ==
    /\ \A m \in plan : m.after = IF m.on \in desired THEN "now" ELSE "next"
    /\ \A i \in seen \cup desired :
          (\A m \in plan : m.on # i) => (status[i] = "now" <=> i \in desired)

\* A proposal's moves, carried out, leave of the ranked and the desired just the
\* desired at now.
LEMMA ProposalLeads ==
  ASSUME NEW desired \in SUBSET Initiatives
  PROVE  Leads(NowSetMoves(desired), desired, ranked)
<1> DEFINE up == {j \in desired : status[j] # "now"}
           down == {j \in ranked \ desired : status[j] = "now"}
<1>1. ASSUME NEW m \in NowSetMoves(desired)
      PROVE  m.after = IF m.on \in desired THEN "now" ELSE "next"
  BY DEF NowSetMoves, Change
<1>2. ASSUME NEW i \in ranked \cup desired, \A m \in NowSetMoves(desired) : m.on # i
      PROVE  status[i] = "now" <=> i \in desired
  <2>1. CASE i \in up
    <3>1. Change(i, status[i], "now") \in NowSetMoves(desired)
      BY <2>1 DEF NowSetMoves
    <3> QED BY <1>2, <3>1 DEF Change
  <2>2. CASE i \in down
    <3>1. Change(i, "now", "next") \in NowSetMoves(desired)
      BY <2>2 DEF NowSetMoves
    <3> QED BY <1>2, <3>1 DEF Change
  <2> QED BY <1>2, <2>1, <2>2
<1> QED BY <1>1, <1>2 DEF Leads

-----------------------------------------------------------------------------
(* What is known of the calls and of the confirmations: the inductive        *)
(* invariant.                                                                *)

\* The fields of a call, whatever they hold.
Shaped(x) ==
    \E S : x \in [phase : Phases, cmd : S, caller : S, key : S, plan : S, seen : S,
                  closing : BOOLEAN, alone : BOOLEAN]

Asked(x) ==
    /\ x.phase # "idle" => x.cmd \in Commands
    /\ x.phase = "planned" => x.key \in Keys

Planned(x) ==
    x.phase \in {"planned", "executing"} /\ x.cmd.tool \in Moving => Moves(x.plan)

\* What a proposal nobody disturbed has left to do is what it still lacks.
Proposing(x) ==
    /\ x.phase \in {"planned", "executing"}
    /\ x.cmd.tool = "propose_now_set"
    /\ x.alone
    => x.seen \subseteq Initiatives /\ Leads(x.plan, x.cmd.on, x.seen)

Reviewing(x) ==
    x.phase \in {"reviewing", "writing"} =>
       x.cmd.tool = "record_review_decision" /\ x.seen \in Seq(Decisions)

Promoting(x) ==
    /\ x.phase \in {"promoting", "made"} => x.cmd.tool = "promote_takeaway"
    /\ x.phase = "made" => x.seen \in Nat /\ x.seen <= promoted[x.cmd.on].made

AboutCall(x) ==
    Shaped(x) /\ Asked(x) /\ Planned(x) /\ Proposing(x) /\ Reviewing(x) /\ Promoting(x)

CallsAreKnown == \A c \in Calls : AboutCall(call[c])

\* A confirmation is for what was shown, and one not spent ran nothing.
Issued(f) ==
    /\ \E S : f \in [digest : S, caller : S, expires : Nat, consumed : BOOLEAN, cmd : S,
                     shown : S, runs : Nat]
    /\ f.digest = Digest(f.cmd, f.shown)
    /\ ~f.consumed => f.runs = 0

ConfirmationsAreKnown == \A k \in Keys : confirmation[k] # Absent => Issued(confirmation[k])

ToolInv == TypeOK /\ CallsAreKnown /\ ConfirmationsAreKnown

-----------------------------------------------------------------------------
(* Changes of one call's record. *)

\* A call that is over is as the invariant has it.
LEMMA IdleIsKnown ==
  AboutCall(Idle)
<1>1. Shaped(Idle)
  <2> DEFINE S == {Absent, {}}
  <2>1. /\ "idle" \in Phases /\ Absent \in S /\ {} \in S
    BY DEF Phases
  <2> HIDE DEF S
  <2>2. Idle \in [phase : Phases, cmd : S, caller : S, key : S, plan : S, seen : S,
                  closing : BOOLEAN, alone : BOOLEAN]
    BY <2>1 DEF Idle
  <2> QED BY <2>2 DEF Shaped
<1>2. Idle.phase = "idle"
  BY DEF Idle
<1> QED BY <1>1, <1>2 DEF AboutCall, Asked, Planned, Proposing, Reviewing, Promoting

\* Another phase, and something read or settled with it.
LEMMA PhaseShape ==
  ASSUME NEW x, Shaped(x), NEW phase \in Phases,
         NEW y, y = [x EXCEPT !.phase = phase]
  PROVE  /\ Shaped(y) /\ y.phase = phase /\ y.cmd = x.cmd /\ y.caller = x.caller
         /\ y.key = x.key /\ y.plan = x.plan /\ y.alone = x.alone /\ y.seen = x.seen
<1>1. PICK S : x \in [phase : Phases, cmd : S, caller : S, key : S, plan : S, seen : S,
                      closing : BOOLEAN, alone : BOOLEAN]
  BY DEF Shaped
<1>2. /\ y \in [phase : Phases, cmd : S, caller : S, key : S, plan : S, seen : S,
                closing : BOOLEAN, alone : BOOLEAN]
      /\ y.phase = phase /\ y.cmd = x.cmd /\ y.caller = x.caller
      /\ y.key = x.key /\ y.plan = x.plan /\ y.alone = x.alone /\ y.seen = x.seen
  BY <1>1
<1> QED BY <1>2 DEF Shaped

\* A plan put in a call changes nothing else of it.
LEMMA PlanShape ==
  ASSUME NEW x, Shaped(x), NEW plan, NEW y, y = [x EXCEPT !.plan = plan]
  PROVE  /\ Shaped(y) /\ y.phase = x.phase /\ y.cmd = x.cmd /\ y.key = x.key
         /\ y.plan = plan /\ y.alone = x.alone /\ y.seen = x.seen
<1>1. PICK T : x \in [phase : Phases, cmd : T, caller : T, key : T, plan : T, seen : T,
                      closing : BOOLEAN, alone : BOOLEAN]
  BY DEF Shaped
<1> DEFINE S == T \cup {plan}
<1>2. T \subseteq S /\ plan \in S
  OBVIOUS
<1> HIDE DEF S
<1>3. x \in [phase : Phases, cmd : S, caller : S, key : S, plan : S, seen : S,
             closing : BOOLEAN, alone : BOOLEAN]
  BY <1>1, <1>2
<1>4. /\ y \in [phase : Phases, cmd : S, caller : S, key : S, plan : S, seen : S,
                closing : BOOLEAN, alone : BOOLEAN]
      /\ y.phase = x.phase /\ y.cmd = x.cmd /\ y.key = x.key
      /\ y.plan = plan /\ y.alone = x.alone /\ y.seen = x.seen
  BY <1>2, <1>3
<1> QED BY <1>4 DEF Shaped

\* A call somebody else disturbs is known as before, but not to be alone.
LEMMA DisturbedShape ==
  ASSUME NEW x, Shaped(x), NEW y, y = [x EXCEPT !.alone = FALSE]
  PROVE  /\ Shaped(y) /\ y.phase = x.phase /\ y.cmd = x.cmd /\ y.key = x.key
         /\ y.plan = x.plan /\ ~y.alone /\ y.seen = x.seen
<1>1. PICK S : x \in [phase : Phases, cmd : S, caller : S, key : S, plan : S, seen : S,
                      closing : BOOLEAN, alone : BOOLEAN]
  BY DEF Shaped
<1>2. /\ y \in [phase : Phases, cmd : S, caller : S, key : S, plan : S, seen : S,
                closing : BOOLEAN, alone : BOOLEAN]
      /\ y.phase = x.phase /\ y.cmd = x.cmd /\ y.key = x.key
      /\ y.plan = x.plan /\ y.alone = FALSE /\ y.seen = x.seen
  BY <1>1
<1> QED BY <1>2 DEF Shaped

-----------------------------------------------------------------------------
(* The steps, one by one. *)

\* What was made for a takeaway stays made.
MadeStays == \A t \in Takeaways : promoted'[t].made >= promoted[t].made

\* Where no takeaway changes.
LEMMA TakeawaysStay ==
  ASSUME ToolInv, promoted' = promoted
  PROVE  /\ MadeStays /\ promoted' \in [Takeaways -> [to : Nat, made : Nat]]
         /\ \A t \in Takeaways : promoted'[t].to <= promoted'[t].made
<1>1. /\ promoted \in [Takeaways -> [to : Nat, made : Nat]]
      /\ \A t \in Takeaways : promoted[t].to <= promoted[t].made
  BY DEF ToolInv, TypeOK
<1> QED BY <1>1 DEF MadeStays

\* A call nobody touches is as well known, while no initiative moves.
LEMMA CallStays ==
  ASSUME ToolInv, NEW d \in Calls, call'[d] = call[d], status' = status, MadeStays,
         promoted' \in [Takeaways -> [to : Nat, made : Nat]]
  PROVE  AboutCall(call[d])'
<1> DEFINE x == call[d]
<1>1. AboutCall(x)
  BY DEF ToolInv, CallsAreKnown
<1>2. (Shaped(x) /\ Asked(x) /\ Planned(x) /\ Reviewing(x))'
  BY <1>1 DEF AboutCall, Shaped, Asked, Planned, Reviewing
<1>3. Proposing(x)'
  BY <1>1 DEF AboutCall, Proposing, Leads
<1>4. Promoting(x)'
  <2>1. CASE x.phase = "made"
    <3>1. /\ x.cmd.tool = "promote_takeaway" /\ x.cmd \in Commands
          /\ x.seen \in Nat /\ x.seen <= promoted[x.cmd.on].made
      BY <1>1, <2>1 DEF AboutCall, Asked, Promoting
    <3> DEFINE t == x.cmd.on
    <3>2. t \in Takeaways
      BY <3>1, CommandFields
    <3>3. /\ promoted[t].made \in Nat /\ promoted'[t].made \in Nat
          /\ promoted'[t].made >= promoted[t].made
      BY <3>2 DEF ToolInv, TypeOK, MadeStays
    <3>4. x.seen <= promoted'[t].made
      BY <3>1, <3>3
    <3> QED BY <2>1, <3>1, <3>4 DEF Promoting
  <2>2. CASE x.phase # "made"
    BY <1>1, <2>2 DEF AboutCall, Promoting
  <2> QED BY <2>1, <2>2
<1> QED BY <1>2, <1>3, <1>4 DEF AboutCall

\* A step of one call that moves no initiative and spends no confirmation.
LEMMA CallStep ==
  ASSUME ToolInv, NEW c \in Calls, NEW y, call' = [call EXCEPT ![c] = y],
         AboutCall(call[c])', UNCHANGED <<clock, status, ranked, confirmation>>,
         review' \in [Reviews -> Sessions \cup {Absent}],
         \A v \in Reviews : review'[v] # Absent =>
            (review'[v].snapshot = Absent <=> review'[v].closedAt = Absent),
         promoted' \in [Takeaways -> [to : Nat, made : Nat]], MadeStays,
         \A t \in Takeaways : promoted'[t].to <= promoted'[t].made
  PROVE  ToolInv'
<1>1. DOMAIN call' = Calls /\ \A d \in Calls \ {c} : call'[d] = call[d]
  BY DEF ToolInv, TypeOK
<1>2. CallsAreKnown'
  <2> SUFFICES ASSUME NEW d \in Calls PROVE AboutCall(call[d])'
    BY DEF CallsAreKnown
  <2>1. CASE d = c
    BY <2>1
  <2>2. CASE d # c
    BY <1>1, <2>2, CallStays
  <2> QED BY <2>1, <2>2
<1>3. \A d \in Calls : call'[d].phase \in Phases
  BY <1>2 DEF CallsAreKnown, AboutCall, Shaped
<1>4. TypeOK'
  BY <1>1, <1>3 DEF ToolInv, TypeOK
<1>5. ConfirmationsAreKnown'
  BY DEF ToolInv, ConfirmationsAreKnown, Issued
<1> QED BY <1>2, <1>4, <1>5 DEF ToolInv

\* The same where nothing but the call changes.
LEMMA QuietStep ==
  ASSUME ToolInv, NEW c \in Calls, NEW y, call' = [call EXCEPT ![c] = y],
         AboutCall(call[c])',
         UNCHANGED <<clock, status, ranked, review, promoted, confirmation>>
  PROVE  ToolInv'
<1>1. /\ review' \in [Reviews -> Sessions \cup {Absent}]
      /\ \A v \in Reviews : review'[v] # Absent =>
            (review'[v].snapshot = Absent <=> review'[v].closedAt = Absent)
  BY DEF ToolInv, TypeOK
<1> QED BY <1>1, TakeawaysStay, CallStep

\* Ending a call leaves nothing of it to know.
LEMMA EndIsKnown ==
  ASSUME ToolInv, NEW c \in Calls, End(c)
  PROVE  AboutCall(call[c])'
<1>1. call'[c] = Idle
  BY DEF End, ToolInv, TypeOK
<1>2. (Shaped(call[c]))' /\ call'[c].phase = "idle"
  BY <1>1, IdleIsKnown DEF AboutCall, Shaped, Idle
<1> QED BY <1>2 DEF AboutCall, Asked, Planned, Proposing, Reviewing, Promoting

\* A call that fails keeps the invariant.
LEMMA FailKeeps ==
  ASSUME ToolInv, NEW c \in Calls, End(c),
         UNCHANGED <<clock, status, ranked, review, promoted, confirmation>>
  PROVE  ToolInv'
BY EndIsKnown, QuietStep DEF End

\* Issuing a confirmation disturbs no call.
LEMMA ConfirmationStep ==
  ASSUME ToolInv, UNCHANGED <<clock, status, ranked, review, promoted>>,
         \A d \in Calls : AboutCall(call[d])', DOMAIN call' = Calls,
         DOMAIN confirmation' = Keys, ConfirmationsAreKnown'
  PROVE  ToolInv'
<1>1. CallsAreKnown'
  BY DEF CallsAreKnown
<1>2. \A d \in Calls : call'[d].phase \in Phases
  BY DEF AboutCall, Shaped
<1> QED BY <1>1, <1>2 DEF ToolInv, TypeOK

\* So does a dry run, whose confirmation names what it showed.
LEMMA DryRunKeeps ==
  ASSUME ToolInv, NEW c \in Calls, NEW caller \in Callers, NEW cmd \in Commands,
         DryRun(c, caller, cmd)
  PROVE  ToolInv'
<1>1. PICK k \in Keys : confirmation' = [confirmation EXCEPT ![k] =
                [digest |-> Digest(cmd, PlanOf(cmd)), caller |-> caller,
                 expires |-> clock + Ttl, consumed |-> FALSE,
                 cmd |-> cmd, shown |-> PlanOf(cmd), runs |-> 0]]
  BY DEF DryRun
<1> DEFINE plan == PlanOf(cmd)
<1> DEFINE f == [digest |-> Digest(cmd, plan), caller |-> caller,
                 expires |-> clock + Ttl, consumed |-> FALSE,
                 cmd |-> cmd, shown |-> plan, runs |-> 0]
<1>2. Issued(f)
  <2> HIDE DEF plan
  <2> DEFINE d == Digest(cmd, plan)
             S == {d, caller, cmd, plan}
  <2>1. d \in S /\ caller \in S /\ cmd \in S /\ plan \in S
    OBVIOUS
  <2>2. clock + Ttl \in Nat
    BY TimesAssumption DEF ToolInv, TypeOK
  <2> HIDE DEF S, d
  <2>3. [digest |-> d, caller |-> caller, expires |-> clock + Ttl, consumed |-> FALSE,
         cmd |-> cmd, shown |-> plan, runs |-> 0]
        \in [digest : S, caller : S, expires : Nat, consumed : BOOLEAN, cmd : S,
             shown : S, runs : Nat]
    BY <2>1, <2>2
  <2> QED BY <2>3 DEF Issued, d
<1>3. confirmation' = [confirmation EXCEPT ![k] = f]
  BY <1>1
<1> HIDE DEF f
<1>4. DOMAIN confirmation' = Keys
  BY <1>3 DEF ToolInv, TypeOK
<1>5. ConfirmationsAreKnown'
  <2> SUFFICES ASSUME NEW j \in Keys, confirmation'[j] # Absent
               PROVE  Issued(confirmation[j])'
    BY DEF ConfirmationsAreKnown
  <2>1. confirmation'[j] = IF j = k THEN f ELSE confirmation[j]
    BY <1>3 DEF ToolInv, TypeOK
  <2> QED BY <1>2, <2>1 DEF Issued, ToolInv, ConfirmationsAreKnown
<1>6. UNCHANGED <<clock, status, ranked, review, promoted, call>>
  BY DEF DryRun
<1>7. DOMAIN call' = Calls /\ \A d \in Calls : AboutCall(call[d])'
  BY <1>6, TakeawaysStay, CallStays DEF ToolInv, TypeOK
<1> QED BY <1>4, <1>5, <1>6, <1>7, ConfirmationStep

\* What a call is given as its plan, the state it is derived from unmoved.
LEMMA PlanIsKnown ==
  ASSUME NEW x, Shaped(x), x.cmd \in Commands, ranked \subseteq Initiatives,
         \/ /\ x.phase = "planned" /\ x.key \in Keys /\ x.plan = PlanOf(x.cmd)
            /\ x.cmd.tool = "propose_now_set" => x.seen = ranked
         \/ /\ x.phase = "executing" /\ x.cmd.tool # "propose_now_set"
            /\ x.plan = IF x.cmd.tool = "set_status" THEN PlanOf(x.cmd) ELSE {}
  PROVE  AboutCall(x)
<1>1. x.phase \in {"planned", "executing"}
  OBVIOUS
<1>2. Asked(x)
  BY DEF Asked
<1>3. Planned(x)
  <2> SUFFICES ASSUME x.cmd.tool \in Moving PROVE Moves(x.plan)
    BY DEF Planned
  <2>1. Moves(PlanOf(x.cmd))
    BY PlansMove
  <2>2. Moves({})
    BY DEF Moves
  <2> QED BY <2>1, <2>2
<1>4. Proposing(x)
  <2> SUFFICES ASSUME x.cmd.tool = "propose_now_set" PROVE x.seen \subseteq Initiatives /\ Leads(x.plan, x.cmd.on, x.seen)
    BY DEF Proposing
  <2>1. x.plan = NowSetMoves(x.cmd.on) /\ x.seen = ranked
    BY PlanOfProposal
  <2>2. x.cmd.on \in SUBSET Initiatives
    BY CommandFields
  <2> QED BY <2>1, <2>2, ProposalLeads
<1>5. Reviewing(x) /\ Promoting(x)
  BY <1>1 DEF Reviewing, Promoting
<1> QED BY <1>2, <1>3, <1>4, <1>5 DEF AboutCall

\* The same of the state after, where status is what it was.
LEMMA CallIsKnownAfter ==
  ASSUME NEW c \in Calls, NEW y, call'[c] = y, AboutCall(y), status' = status,
         promoted' = promoted
  PROVE  AboutCall(call[c])'
<1>1. (Shaped(call[c]) /\ Asked(call[c]) /\ Planned(call[c]) /\ Reviewing(call[c]))'
  BY DEF AboutCall, Shaped, Asked, Planned, Reviewing
<1>2. (Proposing(call[c]))'
  BY DEF AboutCall, Proposing, Leads
<1>3. Promoting(call[c])'
  BY DEF AboutCall, Promoting
<1> QED BY <1>1, <1>2, <1>3 DEF AboutCall

\* So does a confirmation, planned again on the rows as they are.
LEMMA ConfirmKeeps ==
  ASSUME ToolInv, NEW c \in Calls, NEW caller \in Callers, NEW cmd \in Commands,
         NEW k \in Keys, Confirm(c, caller, cmd, k)
  PROVE  ToolInv'
<1> DEFINE plan == PlanOf(cmd)
           seen == IF cmd.tool = "propose_now_set" THEN ranked ELSE Absent
           y == [Idle EXCEPT !.phase = "planned", !.cmd = cmd, !.caller = caller, !.key = k,
                             !.plan = plan, !.seen = seen]
<1>1. /\ call' = [call EXCEPT ![c] = y]
      /\ UNCHANGED <<clock, status, ranked, review, promoted, confirmation>>
  BY DEF Confirm
<1>2. call'[c] = y
  BY <1>1 DEF ToolInv, TypeOK
<1>3. "planned" \in Phases
  BY DEF Phases
<1>4. /\ Shaped(y) /\ y.phase = "planned" /\ y.cmd = cmd /\ y.key = k /\ y.plan = plan
      /\ y.seen = seen
  <2> HIDE DEF plan, seen
  <2>1. PICK T : Idle \in [phase : Phases, cmd : T, caller : T, key : T, plan : T, seen : T,
                           closing : BOOLEAN, alone : BOOLEAN]
    BY IdleIsKnown DEF AboutCall, Shaped
  <2> DEFINE S == T \cup {cmd, caller, k, plan, seen}
  <2>2. T \subseteq S /\ cmd \in S /\ caller \in S /\ k \in S /\ plan \in S /\ seen \in S
    OBVIOUS
  <2> HIDE DEF S
  <2>3. Idle \in [phase : Phases, cmd : S, caller : S, key : S, plan : S, seen : S,
                  closing : BOOLEAN, alone : BOOLEAN]
    BY <2>1, <2>2
  <2>4. /\ y \in [phase : Phases, cmd : S, caller : S, key : S, plan : S, seen : S,
                  closing : BOOLEAN, alone : BOOLEAN]
        /\ y.phase = "planned" /\ y.cmd = cmd /\ y.key = k /\ y.plan = plan /\ y.seen = seen
    BY <1>3, <2>2, <2>3
  <2> QED BY <2>4 DEF Shaped
<1> HIDE DEF y
<1>5. AboutCall(y)
  BY <1>4, PlanIsKnown DEF ToolInv, TypeOK
<1>6. AboutCall(call[c])'
  BY <1>1, <1>2, <1>5, CallIsKnownAfter
<1> QED BY <1>1, <1>6, QuietStep

\* So does a route, which plans nothing it has to show.
LEMMA RouteKeeps ==
  ASSUME ToolInv, NEW c \in Calls, NEW cmd \in Commands, cmd.tool # "propose_now_set",
         Route(c, cmd)
  PROVE  ToolInv'
<1> DEFINE plan == IF cmd.tool = "set_status" THEN PlanOf(cmd) ELSE {}
           y == [Idle EXCEPT !.phase = "executing", !.cmd = cmd, !.plan = plan]
<1>1. /\ call' = [call EXCEPT ![c] = y]
      /\ UNCHANGED <<clock, status, ranked, review, promoted, confirmation>>
  BY DEF Route
<1>2. call'[c] = y
  BY <1>1 DEF ToolInv, TypeOK
<1>3. Shaped(y) /\ y.phase = "executing" /\ y.cmd = cmd /\ y.plan = plan
  <2> HIDE DEF plan
  <2>1. PICK T : Idle \in [phase : Phases, cmd : T, caller : T, key : T, plan : T, seen : T,
                           closing : BOOLEAN, alone : BOOLEAN]
    BY IdleIsKnown DEF AboutCall, Shaped
  <2> DEFINE S == T \cup {cmd, plan}
  <2>2. T \subseteq S /\ cmd \in S /\ plan \in S /\ "executing" \in Phases
    BY DEF Phases
  <2> HIDE DEF S
  <2>3. Idle \in [phase : Phases, cmd : S, caller : S, key : S, plan : S, seen : S,
                  closing : BOOLEAN, alone : BOOLEAN]
    BY <2>1, <2>2
  <2>4. /\ y \in [phase : Phases, cmd : S, caller : S, key : S, plan : S, seen : S,
                  closing : BOOLEAN, alone : BOOLEAN]
        /\ y.phase = "executing" /\ y.cmd = cmd /\ y.plan = plan
    BY <2>2, <2>3
  <2> QED BY <2>4 DEF Shaped
<1> HIDE DEF y
<1>4. AboutCall(y)
  BY <1>3, PlanIsKnown DEF ToolInv, TypeOK
<1>5. AboutCall(call[c])'
  BY <1>1, <1>2, <1>4, CallIsKnownAfter
<1> QED BY <1>1, <1>5, QuietStep

\* Spending a confirmation, for a call that runs or for one that does not.
LEMMA SpentIsIssued ==
  ASSUME NEW f, Issued(f), NEW n \in Nat,
         NEW g, g = [f EXCEPT !.consumed = TRUE, !.runs = f.runs + n]
  PROVE  Issued(g) /\ g.runs = f.runs + n
<1>1. PICK S : f \in [digest : S, caller : S, expires : Nat, consumed : BOOLEAN, cmd : S,
                      shown : S, runs : Nat]
  BY DEF Issued
<1>2. /\ g \in [digest : S, caller : S, expires : Nat, consumed : BOOLEAN, cmd : S,
                shown : S, runs : Nat]
      /\ g.digest = f.digest /\ g.cmd = f.cmd /\ g.shown = f.shown /\ g.consumed
      /\ g.runs = f.runs + n
  <2> DEFINE total == f.runs + n
  <2>1. total \in Nat
    BY <1>1
  <2> HIDE DEF total
  <2>2. g = [f EXCEPT !.consumed = TRUE, !.runs = total]
    BY DEF total
  <2>3. /\ g \in [digest : S, caller : S, expires : Nat, consumed : BOOLEAN, cmd : S,
                  shown : S, runs : Nat]
        /\ g.digest = f.digest /\ g.cmd = f.cmd /\ g.shown = f.shown /\ g.consumed
        /\ g.runs = total
    BY <1>1, <2>1, <2>2
  <2> QED BY <2>3 DEF total
<1> QED BY <1>2 DEF Issued

\* So does the check of the confirmation, which uses it up.
LEMMA VerifyKeeps ==
  ASSUME ToolInv, NEW c \in Calls, Verify(c)
  PROVE  ToolInv'
<1> DEFINE n == IF Verified(c) THEN 1 ELSE 0
           x == call[c]
<1>1. /\ x.phase = "planned"
      /\ confirmation' = [k \in Keys |->
            IF k # x.key \/ confirmation[k] = Absent THEN confirmation[k]
            ELSE [confirmation[k] EXCEPT !.consumed = TRUE, !.runs = @ + n]]
      /\ UNCHANGED <<clock, status, ranked, review, promoted>>
  BY DEF Verify
<1>2. AboutCall(x) /\ DOMAIN call = Calls
  BY DEF ToolInv, CallsAreKnown, TypeOK
<1>3. ConfirmationsAreKnown'
  <2> SUFFICES ASSUME NEW k \in Keys, confirmation'[k] # Absent
               PROVE  Issued(confirmation[k])'
    BY DEF ConfirmationsAreKnown
  <2>1. CASE k # x.key \/ confirmation[k] = Absent
    <3>1. confirmation'[k] = confirmation[k]
      BY <1>1, <2>1
    <3> QED BY <3>1 DEF Issued, ToolInv, ConfirmationsAreKnown
  <2>2. CASE ~(k # x.key \/ confirmation[k] = Absent)
    <3> DEFINE f == confirmation[k]
               g == confirmation'[k]
    <3>1. g = [f EXCEPT !.consumed = TRUE, !.runs = f.runs + n]
      BY <1>1, <2>2
    <3>2. Issued(f) /\ n \in Nat
      BY <2>2 DEF ToolInv, ConfirmationsAreKnown
    <3> HIDE DEF n, f, g
    <3>3. Issued(g)
      BY <3>1, <3>2, SpentIsIssued
    <3> QED BY <3>3 DEF Issued, g
  <2> QED BY <2>1, <2>2
<1>4. DOMAIN confirmation' = Keys
  BY <1>1
<1>5. /\ AboutCall(call[c])' /\ DOMAIN call' = Calls
      /\ \A d \in Calls \ {c} : call'[d] = call[d]
  <2>1. CASE Verified(c)
    <3> DEFINE y == [x EXCEPT !.phase = "executing"]
    <3>1. call' = [call EXCEPT ![c] = y]
      BY <2>1 DEF Verify
    <3>2. /\ Shaped(y) /\ y.phase = "executing" /\ y.cmd = x.cmd /\ y.plan = x.plan
          /\ y.alone = x.alone /\ y.seen = x.seen
      <4>1. "executing" \in Phases /\ Shaped(x)
        BY <1>2 DEF Phases, AboutCall
      <4>2. y = [x EXCEPT !.phase = "executing"]
        OBVIOUS
      <4> HIDE DEF x, y
      <4> QED BY <4>1, <4>2, PhaseShape
    <3> HIDE DEF y
    <3>3. AboutCall(y)
      BY <1>1, <1>2, <3>2 DEF AboutCall, Asked, Planned, Proposing, Reviewing, Promoting
    <3>4. call'[c] = y
      BY <1>2, <3>1
    <3>5. AboutCall(call[c])'
      BY <1>1, <3>3, <3>4, CallIsKnownAfter
    <3> QED BY <1>2, <3>1, <3>5
  <2>2. CASE ~Verified(c)
    <3>1. End(c)
      BY <2>2 DEF Verify
    <3> QED BY <1>2, <3>1, EndIsKnown DEF End
  <2> QED BY <2>1, <2>2
<1>7. \A d \in Calls : AboutCall(call[d])'
  <2>1. MadeStays /\ promoted' \in [Takeaways -> [to : Nat, made : Nat]] /\ status' = status
    BY <1>1, TakeawaysStay
  <2> QED BY <1>5, <2>1, CallStays
<1> QED BY <1>1, <1>3, <1>4, <1>5, <1>7, ConfirmationStep

\* One transition of a plan: the initiative is where the plan wants it, and the
\* rest of the plan is as good; every other call under way is disturbed.
LEMMA MoveKeeps ==
  ASSUME ToolInv, NEW c \in Calls, Move(c)
  PROVE  ToolInv'
<1> DEFINE x == call[c]
<1>0. AboutCall(x) /\ DOMAIN call = Calls
  BY DEF ToolInv, CallsAreKnown, TypeOK
<1>1. /\ x.phase = "executing" /\ x.cmd.tool \in Moving /\ x.cmd \in Commands
      /\ UNCHANGED <<clock, ranked, review, promoted, confirmation>>
  BY <1>0 DEF Move, Moving, AboutCall, Asked
<1>2. CASE x.plan = {}
  BY <1>1, <1>2, FailKeeps DEF Move
<1>3. CASE x.plan # {}
  <2>1. PICK m \in x.plan : /\ status' = [status EXCEPT ![m.on] = m.after]
                            /\ call' = [Disturbed(c) EXCEPT ![c].plan = @ \ {m}]
    BY <1>3 DEF Move
  <2> DEFINE rest == x.plan \ {m}
  <2>2. m.on \in Initiatives /\ m.after \in Statuses /\ Moves(rest)
    BY <1>0, <1>1 DEF AboutCall, Planned, Moves
  <2>3. status' \in [Initiatives -> Statuses]
    BY <2>2, <2>1 DEF ToolInv, TypeOK
  <2>4. \A i \in Initiatives : status'[i] = IF i = m.on THEN m.after ELSE status[i]
    BY <2>1, <2>2 DEF ToolInv, TypeOK
  <2>5. DOMAIN call' = Calls
    BY <2>1 DEF Disturbed
  <2>6. call'[c] = [x EXCEPT !.plan = rest]
    BY <2>1 DEF Disturbed
  <2>7. ASSUME NEW d \in Calls, d # c
        PROVE  call'[d] = IF call[d].phase = "idle" THEN call[d]
                          ELSE [call[d] EXCEPT !.alone = FALSE]
    BY <2>1, <2>7 DEF Disturbed
  <2>8. AboutCall(call[c])'
    <3> DEFINE y == call'[c]
    <3>1. /\ Shaped(y) /\ y.phase = x.phase /\ y.cmd = x.cmd /\ y.key = x.key
          /\ y.plan = rest /\ y.alone = x.alone /\ y.seen = x.seen
      <4>1. Shaped(x) /\ y = [x EXCEPT !.plan = rest]
        BY <1>0, <2>6 DEF AboutCall
      <4> HIDE DEF x, y, rest
      <4> QED BY <4>1, PlanShape
    <3>2. (Shaped(call[c]) /\ Asked(call[c]))'
      BY <1>0, <3>1 DEF AboutCall, Shaped, Asked
    <3>3. Planned(call[c])'
      BY <1>0, <2>2, <3>1 DEF AboutCall, Planned, Moves
    <3>4. Proposing(call[c])'
      <4> SUFFICES ASSUME x.cmd.tool = "propose_now_set", x.alone
                   PROVE  /\ x.seen \subseteq Initiatives
                          /\ Leads(call[c].plan, call[c].cmd.on, call[c].seen)'
        BY <3>1 DEF Proposing
      <4> DEFINE desired == x.cmd.on
                 seen == x.seen
      <4>0. seen \cup desired \subseteq Initiatives
        BY <1>0, <1>1, CommandFields DEF AboutCall, Proposing
      <4>1. Leads(x.plan, desired, seen)
        BY <1>0, <1>1 DEF AboutCall, Proposing
      <4>2. ASSUME NEW i \in seen \cup desired, \A n \in rest : n.on # i
            PROVE  status'[i] = "now" <=> i \in desired
        <5>1. CASE i = m.on
          <6>1. status'[i] = IF i \in desired THEN "now" ELSE "next"
            BY <2>4, <4>0, <4>1, <5>1 DEF Leads
          <6> QED BY <6>1
        <5>2. CASE i # m.on
          <6>1. \A n \in x.plan : n.on # i
            BY <4>2, <5>2
          <6> QED BY <2>4, <4>0, <4>1, <5>2, <6>1 DEF Leads
        <5> QED BY <5>1, <5>2
      <4>3. \A n \in rest : n.after = IF n.on \in desired THEN "now" ELSE "next"
        BY <4>1 DEF Leads
      <4>4. y.plan = rest /\ y.cmd.on = desired /\ y.seen = seen
        BY <3>1
      <4>5. x.seen \subseteq Initiatives
        BY <4>0
      <4> HIDE DEF rest, desired, seen
      <4> QED BY <4>2, <4>3, <4>4, <4>5 DEF Leads
    <3>5. (Reviewing(call[c]) /\ Promoting(call[c]))'
      BY <1>1, <3>1 DEF Reviewing, Promoting
    <3> QED BY <3>2, <3>3, <3>4, <3>5 DEF AboutCall
  <2>9. ASSUME NEW d \in Calls, d # c PROVE AboutCall(call[d])'
    <3> DEFINE w == call[d]
               y == call'[d]
    <3>0. AboutCall(w)
      BY DEF ToolInv, CallsAreKnown
    <3>1. CASE w.phase = "idle"
      <4>1. call'[d] = w
        BY <2>7, <2>9, <3>1
      <4> QED BY <3>0, <3>1, <4>1
            DEF AboutCall, Shaped, Asked, Planned, Proposing, Reviewing, Promoting
    <3>2. CASE w.phase # "idle"
      <4>1. /\ Shaped(y) /\ y.phase = w.phase /\ y.cmd = w.cmd /\ y.key = w.key
            /\ y.plan = w.plan /\ ~y.alone /\ y.seen = w.seen
        <5>1. Shaped(w) /\ y = [w EXCEPT !.alone = FALSE]
          BY <2>7, <2>9, <3>0, <3>2 DEF AboutCall
        <5> HIDE DEF w, y
        <5> QED BY <5>1, DisturbedShape
      <4>2. (Shaped(call[d]) /\ Asked(call[d]) /\ Planned(call[d]) /\ Reviewing(call[d]))'
        BY <3>0, <4>1 DEF AboutCall, Shaped, Asked, Planned, Reviewing
      <4>3. (Proposing(call[d]))'
        BY <4>1 DEF Proposing
      <4>4. Promoting(call[d])'
        BY <1>1, <3>0, <4>1 DEF AboutCall, Promoting
      <4> QED BY <4>2, <4>3, <4>4 DEF AboutCall
    <3> QED BY <3>1, <3>2
  <2>10. CallsAreKnown'
    BY <2>8, <2>9 DEF CallsAreKnown
  <2>11. \A d \in Calls : call'[d].phase \in Phases
    BY <2>10 DEF CallsAreKnown, AboutCall, Shaped
  <2>12. TypeOK'
    BY <1>1, <2>3, <2>5, <2>11 DEF ToolInv, TypeOK
  <2>13. ConfirmationsAreKnown'
    BY <1>1 DEF ToolInv, ConfirmationsAreKnown, Issued
  <2> QED BY <2>10, <2>12, <2>13 DEF ToolInv
<1> QED BY <1>2, <1>3

\* What opening, writing and discarding a session leave of the sessions.
Sessioned ==
    /\ review' \in [Reviews -> Sessions \cup {Absent}]
    /\ \A v \in Reviews : review'[v] # Absent =>
          (review'[v].snapshot = Absent <=> review'[v].closedAt = Absent)

\* A review that is opened is open.
LEMMA OpenedIsSessioned ==
  ASSUME ToolInv, NEW v \in Reviews, OpenReview(v)
  PROVE  Sessioned
<1>1. Opened \in Sessions /\ Opened.snapshot = Absent /\ Opened.closedAt = Absent
  BY EmptySeq DEF Opened, Sessions
<1>2. review' = [review EXCEPT ![v] = Opened]
  BY DEF OpenReview
<1> HIDE DEF Opened
<1> QED BY <1>1, <1>2 DEF Sessioned, ToolInv, TypeOK

\* A call that ends, having changed the sessions.
LEMMA EndingStep ==
  ASSUME ToolInv, NEW c \in Calls, End(c), Sessioned,
         UNCHANGED <<clock, status, ranked, promoted, confirmation>>
  PROVE  ToolInv'
BY EndIsKnown, TakeawaysStay, CallStep DEF Sessioned, End

\* So does the start of a review.
LEMMA StartsReviewKeeps ==
  ASSUME ToolInv, NEW c \in Calls, StartsReview(c)
  PROVE  ToolInv'
BY OpenedIsSessioned, EndingStep DEF StartsReview

\* So does the read of the review to decide in.
LEMMA ReadsReviewKeeps ==
  ASSUME ToolInv, NEW c \in Calls, ReadsReview(c)
  PROVE  ToolInv'
<1> DEFINE x == call[c]
           v == x.cmd.on
<1>0. AboutCall(x) /\ DOMAIN call = Calls
  BY DEF ToolInv, CallsAreKnown, TypeOK
<1>1. /\ x.phase = "executing" /\ x.cmd.tool = "record_review_decision" /\ x.cmd \in Commands
      /\ UNCHANGED <<clock, status, ranked, review, promoted, confirmation>>
  BY <1>0 DEF ReadsReview, AboutCall, Asked
<1>2. v \in Reviews
  BY <1>1, CommandFields
<1>3. CASE review[v] = Absent
  BY <1>1, <1>3, FailKeeps DEF ReadsReview
<1>4. CASE review[v] # Absent
  <2> DEFINE seen == review[v].decisions
             y == [x EXCEPT !.phase = "reviewing", !.seen = seen]
  <2>1. call' = [call EXCEPT ![c] = y]
    BY <1>4 DEF ReadsReview
  <2>2. seen \in Seq(Decisions)
    BY <1>2, <1>4 DEF ToolInv, TypeOK, Sessions
  <2>3. /\ Shaped(y) /\ y.phase = "reviewing" /\ y.cmd = x.cmd /\ y.caller = x.caller
        /\ y.key = x.key /\ y.plan = x.plan /\ y.alone = x.alone /\ y.seen = seen
    <3>1. Shaped(x) /\ "reviewing" \in Phases
      BY <1>0 DEF AboutCall, Phases
    <3>2. PICK T : x \in [phase : Phases, cmd : T, caller : T, key : T, plan : T, seen : T,
                           closing : BOOLEAN, alone : BOOLEAN]
      BY <3>1 DEF Shaped
    <3> DEFINE S == T \cup {seen}
    <3>3. T \subseteq S /\ seen \in S
      OBVIOUS
    <3> HIDE DEF S, x, seen
    <3>4. x \in [phase : Phases, cmd : S, caller : S, key : S, plan : S, seen : S,
                 closing : BOOLEAN, alone : BOOLEAN]
      BY <3>2, <3>3
    <3>5. /\ y \in [phase : Phases, cmd : S, caller : S, key : S, plan : S, seen : S,
                    closing : BOOLEAN, alone : BOOLEAN]
          /\ y.phase = "reviewing" /\ y.cmd = x.cmd /\ y.caller = x.caller
          /\ y.key = x.key /\ y.plan = x.plan /\ y.alone = x.alone /\ y.seen = seen
      BY <3>1, <3>3, <3>4
    <3> QED BY <3>5 DEF Shaped
  <2> HIDE DEF y
  <2>4. AboutCall(y)
    BY <1>1, <2>2, <2>3 DEF AboutCall, Asked, Planned, Proposing, Reviewing, Promoting
  <2>5. call'[c] = y
    BY <1>0, <2>1
  <2>6. AboutCall(call[c])'
    BY <1>1, <2>4, <2>5, CallIsKnownAfter
  <2> QED BY <1>1, <2>1, <2>6, QuietStep
<1> QED BY <1>3, <1>4

\* So does the read of whether it is open still.
LEMMA ReadsOpennessKeeps ==
  ASSUME ToolInv, NEW c \in Calls, ReadsOpenness(c)
  PROVE  ToolInv'
<1> DEFINE x == call[c]
           v == x.cmd.on
           closing == x.cmd.complete /\ IsOpen(v)
<1>0. AboutCall(x) /\ DOMAIN call = Calls
  BY DEF ToolInv, CallsAreKnown, TypeOK
<1>1. /\ x.phase = "reviewing" /\ x.cmd.tool = "record_review_decision" /\ x.cmd \in Commands
      /\ x.seen \in Seq(Decisions)
      /\ UNCHANGED <<clock, status, ranked, review, promoted, confirmation>>
  BY <1>0 DEF ReadsOpenness, AboutCall, Asked, Reviewing
<1>2. closing \in BOOLEAN
  OBVIOUS
<1>3. CASE review[v] = Absent
  BY <1>1, <1>3, FailKeeps DEF ReadsOpenness
<1>4. CASE review[v] # Absent
  <2> DEFINE y == [x EXCEPT !.phase = "writing", !.closing = closing]
  <2>1. call' = [call EXCEPT ![c] = y]
    BY <1>4 DEF ReadsOpenness
  <2>2. /\ Shaped(y) /\ y.phase = "writing" /\ y.cmd = x.cmd /\ y.caller = x.caller
        /\ y.key = x.key /\ y.plan = x.plan /\ y.alone = x.alone /\ y.seen = x.seen
    <3>1. Shaped(x) /\ "writing" \in Phases
      BY <1>0 DEF AboutCall, Phases
    <3>2. PICK T : x \in [phase : Phases, cmd : T, caller : T, key : T, plan : T, seen : T,
                           closing : BOOLEAN, alone : BOOLEAN]
      BY <3>1 DEF Shaped
    <3> DEFINE S == T
    <3>3. T \subseteq S
      OBVIOUS
    <3> HIDE DEF S, x, closing
    <3>4. x \in [phase : Phases, cmd : S, caller : S, key : S, plan : S, seen : S,
                 closing : BOOLEAN, alone : BOOLEAN]
      BY <3>2, <3>3
    <3>5. /\ y \in [phase : Phases, cmd : S, caller : S, key : S, plan : S, seen : S,
                    closing : BOOLEAN, alone : BOOLEAN]
          /\ y.phase = "writing" /\ y.cmd = x.cmd /\ y.caller = x.caller
          /\ y.key = x.key /\ y.plan = x.plan /\ y.alone = x.alone /\ y.seen = x.seen
      BY <1>2, <3>1, <3>3, <3>4
    <3> QED BY <3>5 DEF Shaped
  <2> HIDE DEF y
  <2>3. AboutCall(y)
    BY <1>1, <2>2 DEF AboutCall, Asked, Planned, Proposing, Reviewing, Promoting
  <2>4. call'[c] = y
    BY <1>0, <2>1
  <2>5. AboutCall(call[c])'
    BY <1>1, <2>3, <2>4, CallIsKnownAfter
  <2> QED BY <1>1, <2>1, <2>5, QuietStep
<1> QED BY <1>3, <1>4

\* A row written is a session, closed only if it was or the call closes it.
LEMMA WrittenIsSession ==
  ASSUME NEW row \in Sessions, row.snapshot = Absent <=> row.closedAt = Absent,
         NEW new \in Seq(Decisions), NEW closing \in BOOLEAN, clock \in Nat
  PROVE  /\ Written(row, new, closing) \in Sessions
         /\ Written(row, new, closing).closedAt = IF closing THEN clock ELSE row.closedAt
         /\ Written(row, new, closing).snapshot = IF closing THEN clock ELSE row.snapshot
<1> DEFINE at == IF closing THEN clock ELSE row.closedAt
           measured == IF closing THEN clock ELSE row.snapshot
<1>1. at \in Nat \cup {Absent} /\ measured \in Nat \cup {Absent}
  BY DEF Sessions
<1>2. Written(row, new, closing)
      = [row EXCEPT !.decisions = new, !.closedAt = at, !.snapshot = measured]
  BY DEF Written, Sessions
<1> HIDE DEF at, measured
<1>3. /\ Written(row, new, closing) \in Sessions
      /\ Written(row, new, closing).closedAt = at
      /\ Written(row, new, closing).snapshot = measured
  BY <1>1, <1>2 DEF Sessions
<1> QED BY <1>3 DEF at, measured

\* What the update of a session writes, for the invariant and for the theorem.
LEMMA WritesReviewLeaves ==
  ASSUME ToolInv, NEW c \in Calls, WritesReview(c)
  PROVE  /\ Sessioned
         /\ \A v \in Reviews : review[v] # Absent =>
               /\ review'[v] # Absent
               /\ review[v].closedAt # Absent => review'[v].closedAt # Absent
               /\ review'[v].snapshot # review[v].snapshot => call[c].closing
<1> DEFINE x == call[c]
           v == x.cmd.on
           given == x.cmd.decision # Absent
           new == IF given THEN Appended(x.seen, x.cmd.decision) ELSE review[v].decisions
           row == Written(review[v], new, x.closing)
<1>0. AboutCall(x) /\ TypeOK /\ review \in [Reviews -> Sessions \cup {Absent}] /\ clock \in Nat
  BY TimesAssumption DEF ToolInv, CallsAreKnown, TypeOK
<1>1. /\ x.phase = "writing" /\ x.cmd.tool = "record_review_decision" /\ x.cmd \in Commands
      /\ x.seen \in Seq(Decisions) /\ x.closing \in BOOLEAN
  BY <1>0 DEF WritesReview, AboutCall, Asked, Reviewing, Shaped
<1>2. v \in Reviews /\ x.cmd.decision \in Decisions \cup {Absent}
  BY <1>1, CommandFields
<1>3. CASE review[v] = Absent
  <2>1. review' = review
    BY <1>3 DEF WritesReview
  <2> QED BY <1>0, <2>1 DEF Sessioned, TypeOK
<1>4. CASE review[v] # Absent
  <2>1. review' = [review EXCEPT ![v] = row]
    BY <1>4 DEF WritesReview
  <2>2. new \in Seq(Decisions)
    <3>1. CASE given
      BY <1>1, <1>2, <3>1, AppendProperties DEF Appended
    <3>2. CASE ~given
      BY <1>0, <1>2, <1>4, <3>2 DEF Sessions
    <3> QED BY <3>1, <3>2
  <2>3. review[v] \in Sessions /\ (review[v].snapshot = Absent <=> review[v].closedAt = Absent)
    BY <1>0, <1>2, <1>4 DEF TypeOK
  <2> HIDE DEF new
  <2>4. /\ row \in Sessions
        /\ row.closedAt = IF x.closing THEN clock ELSE review[v].closedAt
        /\ row.snapshot = IF x.closing THEN clock ELSE review[v].snapshot
    BY <1>0, <1>1, <2>2, <2>3, WrittenIsSession
  <2>5. row # Absent /\ clock # Absent
    BY <1>0, <2>4, TimesAssumption
  <2> HIDE DEF row
  <2>6. \A w \in Reviews : review'[w] = IF w = v THEN row ELSE review[w]
    BY <1>0, <2>1
  <2>7. review' \in [Reviews -> Sessions \cup {Absent}]
    BY <1>0, <2>1, <2>4
  <2>8. ASSUME NEW w \in Reviews, review'[w] # Absent
        PROVE  review'[w].snapshot = Absent <=> review'[w].closedAt = Absent
    <3>1. CASE w = v
      BY <1>1, <2>3, <2>4, <2>5, <2>6, <3>1
    <3>2. CASE w # v
      BY <1>0, <2>6, <2>8, <3>2 DEF TypeOK
    <3> QED BY <3>1, <3>2
  <2>9. ASSUME NEW w \in Reviews, review[w] # Absent
        PROVE  /\ review'[w] # Absent
               /\ review[w].closedAt # Absent => review'[w].closedAt # Absent
               /\ review'[w].snapshot # review[w].snapshot => x.closing
    BY <1>1, <2>4, <2>5, <2>6, <2>9
  <2> QED BY <2>7, <2>8, <2>9 DEF Sessioned
<1> QED BY <1>3, <1>4

\* So does the write of the decision.
LEMMA WritesReviewKeeps ==
  ASSUME ToolInv, NEW c \in Calls, WritesReview(c)
  PROVE  ToolInv'
BY WritesReviewLeaves, EndingStep DEF WritesReview

\* So does the read of the takeaway.
LEMMA ReadsTakeawayKeeps ==
  ASSUME ToolInv, NEW c \in Calls, ReadsTakeaway(c)
  PROVE  ToolInv'
<1> DEFINE x == call[c]
           y == [x EXCEPT !.phase = "promoting"]
<1>0. AboutCall(x) /\ DOMAIN call = Calls
  BY DEF ToolInv, CallsAreKnown, TypeOK
<1>1. /\ x.phase = "executing" /\ x.cmd.tool = "promote_takeaway" /\ x.cmd \in Commands
      /\ UNCHANGED <<clock, status, ranked, review, promoted, confirmation>>
  BY <1>0 DEF ReadsTakeaway, AboutCall, Asked
<1>2. CASE promoted[x.cmd.on].to # 0
  BY <1>1, <1>2, FailKeeps DEF ReadsTakeaway
<1>3. CASE promoted[x.cmd.on].to = 0
  <2>1. call' = [call EXCEPT ![c] = y]
    BY <1>3 DEF ReadsTakeaway
  <2>2. /\ Shaped(y) /\ y.phase = "promoting" /\ y.cmd = x.cmd /\ y.caller = x.caller
        /\ y.key = x.key /\ y.plan = x.plan /\ y.alone = x.alone /\ y.seen = x.seen
    <3>1. Shaped(x) /\ "promoting" \in Phases
      BY <1>0 DEF AboutCall, Phases
    <3>2. y = [x EXCEPT !.phase = "promoting"]
      OBVIOUS
    <3> HIDE DEF x, y
    <3> QED BY <3>1, <3>2, PhaseShape
  <2> HIDE DEF y
  <2>3. AboutCall(y)
    BY <1>1, <2>2 DEF AboutCall, Asked, Planned, Proposing, Reviewing, Promoting
  <2>4. call'[c] = y
    BY <1>0, <2>1
  <2>5. AboutCall(call[c])'
    BY <1>1, <2>3, <2>4, CallIsKnownAfter
  <2> QED BY <1>1, <2>1, <2>5, QuietStep
<1> QED BY <1>2, <1>3

\* The takeaway that is promoted, and its row.
LEMMA PromotedRow ==
  ASSUME ToolInv, NEW c \in Calls, call[c].phase \in {"promoting", "made"}
  PROVE  /\ call[c].cmd.on \in Takeaways
         /\ promoted[call[c].cmd.on] \in [to : Nat, made : Nat]
         /\ promoted[call[c].cmd.on].to <= promoted[call[c].cmd.on].made
<1>1. call[c].cmd \in Commands /\ call[c].cmd.tool = "promote_takeaway"
  BY DEF ToolInv, CallsAreKnown, AboutCall, Asked, Promoting
<1>2. call[c].cmd.on \in Takeaways
  BY <1>1, CommandFields
<1> QED BY <1>2 DEF ToolInv, TypeOK

\* So does the initiative made of it.
LEMMA MakesInitiativeKeeps ==
  ASSUME ToolInv, NEW c \in Calls, MakesInitiative(c)
  PROVE  ToolInv'
<1> DEFINE x == call[c]
           t == x.cmd.on
           made == promoted[t].made + 1
           y == [x EXCEPT !.phase = "made", !.seen = made]
<1>0. AboutCall(x) /\ DOMAIN call = Calls
  BY DEF ToolInv, CallsAreKnown, TypeOK
<1>1. /\ x.phase = "promoting" /\ x.cmd.tool = "promote_takeaway" /\ x.cmd \in Commands
      /\ call' = [call EXCEPT ![c] = y]
      /\ promoted' = [promoted EXCEPT ![t] = [promoted[t] EXCEPT !.made = made]]
      /\ UNCHANGED <<clock, status, ranked, review, confirmation>>
  BY <1>0 DEF MakesInitiative, AboutCall, Asked, Promoting
<1>2. /\ t \in Takeaways /\ promoted[t] \in [to : Nat, made : Nat]
      /\ promoted[t].to <= promoted[t].made
  BY <1>1, PromotedRow
<1>3. made \in Nat /\ made >= promoted[t].made /\ promoted[t].to <= made
  BY <1>2
<1>4. /\ Shaped(y) /\ y.phase = "made" /\ y.cmd = x.cmd /\ y.caller = x.caller
      /\ y.key = x.key /\ y.plan = x.plan /\ y.alone = x.alone /\ y.seen = made
  <2>1. Shaped(x) /\ "made" \in Phases
    BY <1>0 DEF AboutCall, Phases
  <2>2. PICK T : x \in [phase : Phases, cmd : T, caller : T, key : T, plan : T, seen : T,
                         closing : BOOLEAN, alone : BOOLEAN]
    BY <2>1 DEF Shaped
  <2> DEFINE S == T \cup {made}
  <2>3. T \subseteq S /\ made \in S
    OBVIOUS
  <2> HIDE DEF S, x, made
  <2>4. x \in [phase : Phases, cmd : S, caller : S, key : S, plan : S, seen : S,
               closing : BOOLEAN, alone : BOOLEAN]
    BY <2>2, <2>3
  <2>5. /\ y \in [phase : Phases, cmd : S, caller : S, key : S, plan : S, seen : S,
                  closing : BOOLEAN, alone : BOOLEAN]
        /\ y.phase = "made" /\ y.cmd = x.cmd /\ y.caller = x.caller
        /\ y.key = x.key /\ y.plan = x.plan /\ y.alone = x.alone /\ y.seen = made
    BY <2>1, <2>3, <2>4
  <2> QED BY <2>5 DEF Shaped
<1> HIDE DEF made
<1> DEFINE row == [promoted[t] EXCEPT !.made = made]
<1>5. row \in [to : Nat, made : Nat] /\ row.made = made /\ row.to = promoted[t].to
  BY <1>2, <1>3
<1>6. promoted' = [promoted EXCEPT ![t] = row]
  BY <1>1
<1> HIDE DEF row, y
<1>7. /\ promoted \in [Takeaways -> [to : Nat, made : Nat]]
      /\ \A u \in Takeaways : promoted[u].to <= promoted[u].made
      /\ \A u \in Takeaways : promoted[u].made >= promoted[u].made
  BY DEF ToolInv, TypeOK
<1>8. \A u \in Takeaways : promoted'[u] = IF u = t THEN row ELSE promoted[u]
  BY <1>2, <1>6, <1>7
<1>9. /\ promoted' \in [Takeaways -> [to : Nat, made : Nat]] /\ MadeStays
      /\ \A u \in Takeaways : promoted'[u].to <= promoted'[u].made
  BY <1>2, <1>3, <1>5, <1>6, <1>7, <1>8 DEF MadeStays
<1>10. call'[c] = y
  BY <1>0, <1>1
<1>11. AboutCall(call[c])'
  <2>1. (Shaped(call[c]) /\ Asked(call[c]) /\ Planned(call[c]) /\ Proposing(call[c])
         /\ Reviewing(call[c]))'
    BY <1>1, <1>4, <1>10 DEF Shaped, Asked, Planned, Proposing, Reviewing
  <2>2. Promoting(call[c])'
    <3>1. promoted'[t].made = made
      BY <1>2, <1>5, <1>8
    <3> QED BY <1>1, <1>3, <1>4, <1>10, <3>1 DEF Promoting
  <2> QED BY <2>1, <2>2 DEF AboutCall
<1>12. Sessioned
  BY <1>1 DEF Sessioned, ToolInv, TypeOK
<1> QED BY <1>1, <1>9, <1>11, <1>12, CallStep DEF Sessioned

\* So does the link back to it.
LEMMA LinksTakeawayKeeps ==
  ASSUME ToolInv, NEW c \in Calls, LinksTakeaway(c)
  PROVE  ToolInv'
<1> DEFINE x == call[c]
           t == x.cmd.on
           row == [promoted[t] EXCEPT !.to = x.seen]
<1>1. /\ x.phase = "made" /\ End(c) /\ promoted' = [promoted EXCEPT ![t] = row]
      /\ UNCHANGED <<clock, status, ranked, review, confirmation>>
  BY DEF LinksTakeaway
<1>2. /\ t \in Takeaways /\ promoted[t] \in [to : Nat, made : Nat]
  BY <1>1, PromotedRow
<1>3. x.seen \in Nat /\ x.seen <= promoted[t].made
  BY <1>1 DEF ToolInv, CallsAreKnown, AboutCall, Promoting
<1>4. row \in [to : Nat, made : Nat] /\ row.made = promoted[t].made /\ row.to = x.seen
  BY <1>2, <1>3
<1> HIDE DEF row
<1>5. /\ promoted \in [Takeaways -> [to : Nat, made : Nat]]
      /\ \A u \in Takeaways : promoted[u].to <= promoted[u].made
      /\ \A u \in Takeaways : promoted[u].made >= promoted[u].made
  BY DEF ToolInv, TypeOK
<1>6. \A u \in Takeaways : promoted'[u] = IF u = t THEN row ELSE promoted[u]
  BY <1>1, <1>2, <1>5
<1>7. /\ promoted' \in [Takeaways -> [to : Nat, made : Nat]] /\ MadeStays
      /\ \A u \in Takeaways : promoted'[u].to <= promoted'[u].made
  BY <1>1, <1>2, <1>3, <1>4, <1>5, <1>6 DEF MadeStays
<1>8. AboutCall(call[c])'
  BY <1>1, EndIsKnown
<1>9. Sessioned
  BY <1>1 DEF Sessioned, ToolInv, TypeOK
<1> QED BY <1>1, <1>7, <1>8, <1>9, CallStep DEF Sessioned, End

\* A step of the routes or the clock, no call moving.
LEMMA BackgroundStep ==
  ASSUME ToolInv, UNCHANGED <<status, promoted, confirmation, call>>, Sessioned,
         clock' \in 0 .. LastTick, ranked' \subseteq Initiatives
  PROVE  ToolInv'
<1>1. CallsAreKnown'
  BY TakeawaysStay, CallStays DEF CallsAreKnown
<1>2. TypeOK'
  BY DEF ToolInv, TypeOK, Sessioned
<1>3. ConfirmationsAreKnown'
  BY DEF ToolInv, ConfirmationsAreKnown, Issued
<1> QED BY <1>1, <1>2, <1>3 DEF ToolInv

\* So does a review discarded.
LEMMA DiscardKeeps ==
  ASSUME ToolInv, NEW v \in Reviews, Discard(v)
  PROVE  ToolInv'
<1>1. /\ review' = [review EXCEPT ![v] = Absent]
      /\ UNCHANGED <<clock, status, ranked, promoted, confirmation, call>>
  BY DEF Discard
<1>2. Sessioned
  BY <1>1 DEF Sessioned, ToolInv, TypeOK
<1>3. clock' \in 0 .. LastTick /\ ranked' \subseteq Initiatives
  BY <1>1 DEF ToolInv, TypeOK
<1> QED BY <1>1, <1>2, <1>3, BackgroundStep

\* So does time.
LEMMA TickKeeps ==
  ASSUME ToolInv, Tick
  PROVE  ToolInv'
<1>1. clock' \in 0 .. LastTick /\ UNCHANGED <<status, ranked, review, promoted, confirmation, call>>
  BY TimesAssumption DEF Tick, ToolInv, TypeOK
<1>2. Sessioned /\ ranked' \subseteq Initiatives
  BY <1>1 DEF Sessioned, ToolInv, TypeOK
<1> QED BY <1>1, <1>2, BackgroundStep

\* So does whatever is filed under another area.
LEMMA ReclassifyKeeps ==
  ASSUME ToolInv, NEW scored \in SUBSET Initiatives, Reclassify(scored)
  PROVE  ToolInv'
<1>1. /\ ranked' = scored
      /\ UNCHANGED <<clock, status, review, promoted, confirmation, call>>
  BY DEF Reclassify
<1>2. Sessioned /\ clock' \in 0 .. LastTick
  BY <1>1 DEF Sessioned, ToolInv, TypeOK
<1> QED BY <1>1, <1>2, BackgroundStep

\* So does each way of submitting a command.
LEMMA SubmitKeeps ==
  ASSUME ToolInv, NEW c \in Calls, NEW cmd \in Commands, Submit(c, cmd)
  PROVE  ToolInv'
<1>1. ASSUME NEW a \in Callers, DryRun(c, a, cmd) PROVE ToolInv'
  BY <1>1, DryRunKeeps
<1>2. ASSUME NEW a \in Callers, NEW k \in Keys, Confirm(c, a, cmd, k) PROVE ToolInv'
  BY <1>2, ConfirmKeeps
<1>3. CASE cmd.tool # "propose_now_set" /\ Route(c, cmd)
  BY <1>3, RouteKeeps
<1> QED BY <1>1, <1>2, <1>3 DEF Submit

\* So does each step of a call.
LEMMA StepKeeps ==
  ASSUME ToolInv, NEW c \in Calls, Step(c)
  PROVE  ToolInv'
BY VerifyKeeps, MoveKeeps, StartsReviewKeeps, ReadsReviewKeeps, ReadsOpennessKeeps,
   WritesReviewKeeps, ReadsTakeawayKeeps, MakesInitiativeKeeps, LinksTakeawayKeeps DEF Step

-----------------------------------------------------------------------------
(* The invariant. *)

\* The invariant holds at the start.
LEMMA InitIsTool ==
  Init => ToolInv
<1> SUFFICES ASSUME Init PROVE ToolInv
  OBVIOUS
<1>1. Opened \in Sessions /\ (Opened.snapshot = Absent <=> Opened.closedAt = Absent)
  BY EmptySeq DEF Opened, Sessions
<1>2. "idle" \in Phases /\ Idle.phase = "idle"
  BY DEF Phases, Idle
<1>3. TypeOK
  <2> HIDE DEF Opened, Idle
  <2>1. review \in [Reviews -> {Absent, Opened}]
    BY DEF Init
  <2>2. /\ review \in [Reviews -> Sessions \cup {Absent}]
        /\ \A v \in Reviews : review[v] # Absent =>
              (review[v].snapshot = Absent <=> review[v].closedAt = Absent)
    BY <1>1, <2>1
  <2>3. clock \in 0 .. LastTick
    BY TimesAssumption DEF Init
  <2>4. /\ promoted \in [Takeaways -> [to : Nat, made : Nat]]
        /\ \A t \in Takeaways : promoted[t].to <= promoted[t].made
    BY DEF Init
  <2> QED BY <1>2, <2>2, <2>3, <2>4 DEF Init, TypeOK
<1>4. CallsAreKnown
  BY IdleIsKnown DEF CallsAreKnown, Init
<1>5. ConfirmationsAreKnown
  BY DEF ConfirmationsAreKnown, Init
<1> QED BY <1>3, <1>4, <1>5 DEF ToolInv

\* Every step keeps it.
LEMMA NextKeepsTool ==
  ToolInv /\ [Next]_vars => ToolInv'
<1> SUFFICES ASSUME ToolInv, [Next]_vars PROVE ToolInv'
  OBVIOUS
<1>1. ASSUME NEW c \in Calls, NEW i \in Initiatives, NEW to \in Statuses,
             Submit(c, SetStatus(i, to))
      PROVE  ToolInv'
  <2>1. SetStatus(i, to) \in Commands
    BY DEF Commands
  <2> QED BY <1>1, <2>1, SubmitKeeps
<1>2. ASSUME NEW c \in Calls, NEW desired \in SUBSET Initiatives,
             Submit(c, ProposeNowSet(desired))
      PROVE  ToolInv'
  <2>1. ProposeNowSet(desired) \in Commands
    BY DEF Commands
  <2> QED BY <1>2, <2>1, SubmitKeeps
<1>3. ASSUME NEW c \in Calls, Submit(c, StartReview) PROVE ToolInv'
  <2>1. StartReview \in Commands
    BY DEF Commands
  <2> QED BY <1>3, <2>1, SubmitKeeps
<1>4. ASSUME NEW c \in Calls, NEW v \in Reviews, NEW d \in Decisions \cup {Absent},
             NEW complete \in BOOLEAN, Submit(c, RecordDecision(v, d, complete))
      PROVE  ToolInv'
  <2>1. RecordDecision(v, d, complete) \in Commands
    BY DEF Commands
  <2> QED BY <1>4, <2>1, SubmitKeeps
<1>5. ASSUME NEW c \in Calls, NEW t \in Takeaways, Submit(c, Promote(t)) PROVE ToolInv'
  <2>1. Promote(t) \in Commands
    BY DEF Commands
  <2> QED BY <1>5, <2>1, SubmitKeeps
<1>6. ASSUME NEW c \in Calls, Step(c) PROVE ToolInv'
  BY <1>6, StepKeeps
<1>7. ASSUME NEW c \in Calls, Fail(c) PROVE ToolInv'
  BY <1>7, FailKeeps DEF Fail
<1>8. ASSUME NEW v \in Reviews, Discard(v) PROVE ToolInv'
  BY <1>8, DiscardKeeps
<1>9. CASE Tick
  BY <1>9, TickKeeps
<1>10. CASE UNCHANGED vars
  <2>1. Sessioned /\ clock' \in 0 .. LastTick /\ ranked' \subseteq Initiatives
    BY <1>10 DEF vars, Sessioned, ToolInv, TypeOK
  <2> QED BY <1>10, <2>1, BackgroundStep DEF vars
<1>11. ASSUME NEW scored \in SUBSET Initiatives, Reclassify(scored) PROVE ToolInv'
  BY <1>11, ReclassifyKeeps
<1> QED BY <1>1, <1>2, <1>3, <1>4, <1>5, <1>6, <1>7, <1>8, <1>9, <1>10, <1>11 DEF Next

\* What is known of the calls and the confirmations holds in every state.
THEOREM CallsAreInvariant ==
  Spec => []ToolInv
BY InitIsTool, NextKeepsTool, PTL DEF Spec

\* A review session is measured exactly when it is closed, and no takeaway is
\* linked to more than was made for it, under every interleaving of the calls.
THEOREM TypeCorrect ==
  Spec => []TypeOK
<1>1. ToolInv => TypeOK
  BY DEF ToolInv
<1> QED BY <1>1, CallsAreInvariant, PTL

-----------------------------------------------------------------------------
(* What runs is what was shown. *)

\* The other steps leave a planned call planned, or end it.
LEMMA OnlyVerifyExecutes ==
  ASSUME ToolInv, [Next]_vars, NEW c \in Calls, call[c].phase = "planned",
         call'[c].phase = "executing"
  PROVE  Verify(c)
<1>0. DOMAIN call = Calls /\ AboutCall(call[c])
  BY DEF ToolInv, TypeOK, CallsAreKnown
<1>1. ASSUME NEW d \in Calls, NEW cmd, Submit(d, cmd) PROVE FALSE
  <2>1. call'[c] = call[c]
    BY <1>0, <1>1 DEF Submit, DryRun, Confirm, Route
  <2> QED BY <2>1
<1>2. ASSUME NEW d \in Calls, End(d) PROVE FALSE
  <2>1. call'[c] = IF d = c THEN Idle ELSE call[c]
    BY <1>0, <1>2 DEF End
  <2> QED BY <2>1 DEF Idle
<1>3. ASSUME NEW d \in Calls, Move(d) PROVE FALSE
  <2>1. d # c
    BY <1>3 DEF Move
  <2>2. CASE call[d].plan = {}
    BY <1>2, <1>3, <2>2 DEF Move
  <2>3. CASE call[d].plan # {}
    <3>1. call'[c] = [call[c] EXCEPT !.alone = FALSE]
      BY <1>3, <2>1, <2>3 DEF Move, Disturbed
    <3>2. Shaped(call[c])
      BY <1>0 DEF AboutCall
    <3>3. call'[c].phase = call[c].phase
      BY <3>1, <3>2 DEF Shaped
    <3> QED BY <3>3
  <2> QED BY <2>2, <2>3
<1>4. ASSUME NEW d \in Calls, Verify(d), d # c PROVE FALSE
  <2>1. call'[c] = call[c] \/ End(d)
    BY <1>0, <1>4 DEF Verify
  <2> QED BY <1>2, <2>1
<1>5. ASSUME NEW d \in Calls,
             ReadsReview(d) \/ ReadsOpenness(d) \/ ReadsTakeaway(d) \/ MakesInitiative(d)
      PROVE  FALSE
  <2>1. d # c
    BY <1>5 DEF ReadsReview, ReadsOpenness, ReadsTakeaway, MakesInitiative
  <2>2. call'[c] = call[c] \/ End(d)
    BY <1>0, <1>5, <2>1 DEF ReadsReview, ReadsOpenness, ReadsTakeaway, MakesInitiative
  <2> QED BY <1>2, <2>2
<1>6. ASSUME NEW d \in Calls,
             StartsReview(d) \/ WritesReview(d) \/ LinksTakeaway(d) \/ Fail(d)
      PROVE  FALSE
  BY <1>2, <1>6 DEF StartsReview, WritesReview, LinksTakeaway, Fail
<1>7. call' # call
  OBVIOUS
<1>8. ASSUME NEW v \in Reviews, Discard(v) PROVE FALSE
  BY <1>7, <1>8 DEF Discard
<1>9. ~Tick /\ ~UNCHANGED vars /\ \A scored : ~Reclassify(scored)
  BY <1>7 DEF Tick, Reclassify, vars
<1>10. ASSUME NEW d \in Calls, Step(d) PROVE d = c /\ Verify(c)
  BY <1>3, <1>4, <1>5, <1>6, <1>10 DEF Step
<1> QED BY <1>1, <1>6, <1>8, <1>9, <1>10 DEF Next

\* A tool runs only on an unspent, unexpired confirmation that its own caller
\* was given for the same command and the same plan, and on no confirmation
\* twice: two calls presenting one confirmation at once, a plan that moved
\* between the showing and the spending, or a late answer never run
\* (mcp/confirmations.ts).
THEOREM ShownIsExecuted ==
  Spec => ExecutesWhatWasShown
<1> DEFINE P == \A c \in Calls :
         call[c].phase = "planned" /\ call'[c].phase = "executing" =>
            LET k == call[c].key
            IN /\ confirmation[k].cmd = call[c].cmd
               /\ confirmation[k].shown = call[c].plan
               /\ confirmation[k].caller = call[c].caller
               /\ clock < confirmation[k].expires
               /\ confirmation'[k].runs = 1
<1>1. ToolInv /\ [Next]_vars => [P]_vars
  <2> SUFFICES ASSUME ToolInv, [Next]_vars, NEW c \in Calls,
                      call[c].phase = "planned", call'[c].phase = "executing",
                      NEW k, k = call[c].key
               PROVE  /\ confirmation[k].cmd = call[c].cmd
                      /\ confirmation[k].shown = call[c].plan
                      /\ confirmation[k].caller = call[c].caller
                      /\ clock < confirmation[k].expires
                      /\ confirmation'[k].runs = 1
    OBVIOUS
  <2>1. Verify(c)
    BY OnlyVerifyExecutes
  <2>2. DOMAIN call = Calls /\ k \in Keys /\ clock \in Nat
    BY TimesAssumption DEF ToolInv, TypeOK, CallsAreKnown, AboutCall, Asked
  <2>3. Verified(c)
    <3>1. SUFFICES ASSUME End(c) PROVE FALSE
      BY <2>1 DEF Verify
    <3>2. call'[c] = Idle
      BY <2>2, <3>1 DEF End
    <3> QED BY <3>2 DEF Idle
  <2> DEFINE f == confirmation[k]
  <2>4. /\ f # Absent /\ ~f.consumed /\ f.expires > clock /\ f.caller = call[c].caller
        /\ f.digest = Digest(call[c].cmd, call[c].plan)
    BY <2>3 DEF Verified
  <2>5. Issued(f)
    BY <2>2, <2>4 DEF ToolInv, ConfirmationsAreKnown
  <2>6. f.cmd = call[c].cmd /\ f.shown = call[c].plan
    <3>1. Digest(f.cmd, f.shown) = Digest(call[c].cmd, call[c].plan)
      BY <2>4, <2>5 DEF Issued
    <3> QED BY <3>1 DEF Digest
  <2>7. confirmation'[k].runs = 1
    <3>1. confirmation'[k] = [f EXCEPT !.consumed = TRUE, !.runs = f.runs + 1]
      BY <2>1, <2>2, <2>3, <2>4 DEF Verify
    <3>2. f.runs = 0
      BY <2>4, <2>5 DEF Issued
    <3> DEFINE g == confirmation'[k]
    <3>3. g = [f EXCEPT !.consumed = TRUE, !.runs = f.runs + 1]
      BY <3>1
    <3> HIDE DEF f, g
    <3>4. g.runs = f.runs + 1
      BY <2>5, <3>3, SpentIsIssued
    <3> QED BY <3>2, <3>4 DEF g
  <2>8. clock < f.expires
    BY <2>2, <2>4, <2>5 DEF Issued
  <2> QED BY <2>4, <2>6, <2>7, <2>8
<1> QED BY <1>1, CallsAreInvariant, PTL DEF Spec, ExecutesWhatWasShown

\* Only a move changes where an initiative is.
LEMMA OnlyMovesMove ==
  ASSUME [Next]_vars, status' # status
  PROVE  \E d \in Calls : Move(d)
<1>1. ASSUME NEW c, NEW cmd, Submit(c, cmd) PROVE status' = status
  BY <1>1 DEF Submit, DryRun, Confirm, Route
<1>2. ASSUME NEW c \in Calls, Step(c) PROVE status' = status \/ Move(c)
  BY <1>2 DEF Step, Verify, StartsReview, ReadsReview, ReadsOpenness, WritesReview,
              ReadsTakeaway, MakesInitiative, LinksTakeaway
<1>3. ASSUME NEW c, Fail(c) PROVE status' = status
  BY <1>3 DEF Fail
<1>4. ASSUME NEW v, Discard(v) PROVE status' = status
  BY <1>4 DEF Discard
<1>5. Tick \/ (\E scored : Reclassify(scored)) \/ UNCHANGED vars => status' = status
  BY DEF Tick, Reclassify, vars
<1> QED BY <1>1, <1>2, <1>3, <1>4, <1>5 DEF Next

\* A proposal left alone ends as proposed, of the initiatives its plan could see:
\* the plan lacks nothing of them while nobody else moves an initiative, so that
\* its last move leaves of the scored and the named just the named at `now`, and
\* no filing of initiatives elsewhere in between changes it (propose_now_set).
THEOREM ProposalHolds ==
  Spec => ProposalIsExact
<1> DEFINE P == \A c \in Calls :
         /\ call[c].phase = "executing" /\ call[c].cmd.tool = "propose_now_set"
         /\ call[c].alone /\ call[c].plan # {} /\ call'[c].plan = {}
         /\ status' # status
         => {i \in call[c].seen \cup call[c].cmd.on : status'[i] = "now"} = call[c].cmd.on
<1>1. ToolInv /\ [Next]_vars => [P]_vars
  <2> SUFFICES ASSUME ToolInv, [Next]_vars, NEW c \in Calls,
                      call[c].phase = "executing", call[c].cmd.tool = "propose_now_set",
                      call[c].alone, call[c].plan # {}, call'[c].plan = {},
                      status' # status
               PROVE  {i \in call[c].seen \cup call[c].cmd.on : status'[i] = "now"}
                      = call[c].cmd.on
    OBVIOUS
  <2> DEFINE plan == call[c].plan
             desired == call[c].cmd.on
             seen == call[c].seen
  <2>0. DOMAIN call = Calls /\ AboutCall(call[c])
    BY DEF ToolInv, TypeOK, CallsAreKnown
  <2>1. PICK d \in Calls : Move(d)
    BY OnlyMovesMove
  <2>2. /\ Leads(plan, desired, seen) /\ Moves(plan)
        /\ desired \in SUBSET Initiatives /\ seen \subseteq Initiatives
    <3>1. call[c].cmd \in Commands
      BY <2>0 DEF AboutCall, Asked
    <3>2. desired \in SUBSET Initiatives
      BY <3>1, CommandFields
    <3> QED BY <2>0, <3>2 DEF AboutCall, Planned, Proposing, Moving
  <2>3. CASE d # c
    <3>1. PICK m \in call[d].plan : call' = [Disturbed(d) EXCEPT ![d].plan = @ \ {m}]
      BY <2>1 DEF Move, End
    <3>2. call'[c] = [call[c] EXCEPT !.alone = FALSE]
      BY <2>0, <2>3, <3>1 DEF Disturbed
    <3>3. call'[c].plan = plan
      <4>1. Shaped(call[c])
        BY <2>0 DEF AboutCall
      <4> QED BY <3>2, <4>1 DEF Shaped
    <3> QED BY <3>3
  <2>4. CASE d = c
    <3>1. PICK m \in plan : /\ status' = [status EXCEPT ![m.on] = m.after]
                            /\ call' = [Disturbed(c) EXCEPT ![c].plan = @ \ {m}]
      BY <2>1, <2>4 DEF Move, End
    <3>2. plan \ {m} = {}
      <4>1. call'[c] = [call[c] EXCEPT !.plan = plan \ {m}]
        BY <2>0, <3>1 DEF Disturbed
      <4>2. Shaped(call[c])
        BY <2>0 DEF AboutCall
      <4> DEFINE rest == plan \ {m}
      <4>3. call'[c] = [call[c] EXCEPT !.plan = rest]
        BY <4>1
      <4> HIDE DEF rest
      <4>4. call'[c].plan = rest
        BY <4>2, <4>3 DEF Shaped
      <4> QED BY <4>4 DEF rest
    <3>3. m.on \in Initiatives /\ m.after \in Statuses
      BY <2>2 DEF Moves
    <3>4. \A i \in Initiatives : status'[i] = IF i = m.on THEN m.after ELSE status[i]
      BY <3>1, <3>3 DEF ToolInv, TypeOK
    <3> HIDE DEF plan, desired, seen
    <3>5. ASSUME NEW i \in seen \cup desired PROVE status'[i] = "now" <=> i \in desired
      <4>1. CASE i = m.on
        <5>1. status'[i] = IF i \in desired THEN "now" ELSE "next"
          BY <2>2, <3>4, <4>1 DEF Leads
        <5> QED BY <5>1
      <4>2. CASE i # m.on
        <5>1. \A n \in plan : n.on # i
          BY <3>2, <4>2
        <5> QED BY <2>2, <3>4, <4>2, <5>1 DEF Leads
      <4> QED BY <4>1, <4>2
    <3>6. {i \in seen \cup desired : status'[i] = "now"} = desired
      BY <2>2, <3>5
    <3> QED BY <3>6 DEF desired, seen
  <2> QED BY <2>3, <2>4
<1> QED BY <1>1, CallsAreInvariant, PTL DEF Spec, ProposalIsExact

-----------------------------------------------------------------------------

\* What one step does to a closed session.
StaysClosed(v) ==
    /\ review'[v] # Absent
    /\ review'[v].closedAt # Absent
    /\ review'[v].snapshot # review[v].snapshot =>
          \E c \in Calls : call[c].phase = "writing" /\ call[c].closing

\* No step removes or reopens a closed review, and only a call that had found
\* it open changes its snapshot.
LEMMA ClosedStaysClosed ==
  ASSUME ToolInv, [Next]_vars, NEW v \in Reviews, review[v] # Absent, ~IsOpen(v)
  PROVE  StaysClosed(v)
<1>0. review[v].closedAt # Absent /\ review \in [Reviews -> Sessions \cup {Absent}]
  BY DEF IsOpen, ToolInv, TypeOK
<1>1. CASE review'[v] = review[v]
  BY <1>0, <1>1 DEF StaysClosed
<1>2. ASSUME NEW c, NEW cmd, Submit(c, cmd) PROVE review' = review
  BY <1>2 DEF Submit, DryRun, Confirm, Route
<1>3. ASSUME NEW c \in Calls, WritesReview(c) PROVE StaysClosed(v)
  <2>1. /\ review'[v] # Absent /\ review'[v].closedAt # Absent
        /\ review'[v].snapshot # review[v].snapshot => call[c].closing
    BY <1>0, <1>3, WritesReviewLeaves
  <2>2. call[c].phase = "writing"
    BY <1>3 DEF WritesReview
  <2> QED BY <2>1, <2>2 DEF StaysClosed
<1>4. ASSUME NEW c \in Calls, StartsReview(c) PROVE review'[v] = review[v]
  BY <1>0, <1>4 DEF StartsReview, OpenReview
<1>5. ASSUME NEW c \in Calls, Step(c) PROVE review'[v] = review[v] \/ StaysClosed(v)
  BY <1>3, <1>4, <1>5 DEF Step, Verify, Move, ReadsReview, ReadsOpenness, ReadsTakeaway,
                          MakesInitiative, LinksTakeaway
<1>6. ASSUME NEW w \in Reviews, Discard(w) PROVE review'[v] = review[v]
  BY <1>0, <1>6 DEF Discard, IsOpen
<1>7. ASSUME NEW c, Fail(c) PROVE review' = review
  BY <1>7 DEF Fail
<1>8. Tick \/ (\E scored : Reclassify(scored)) \/ UNCHANGED vars => review' = review
  BY DEF Tick, Reclassify, vars
<1> QED BY <1>1, <1>2, <1>5, <1>6, <1>7, <1>8 DEF Next

\* A closed review session is history: no decision recorded late, no discard
\* racing a close and no retry deletes or reopens it, and only a call that had
\* found it open measures it again (services/ops.ts updateReview,
\* discardReview).
THEOREM ClosedHolds ==
  Spec => ClosedIsHistory
<1>1. ToolInv /\ [Next]_vars =>
        [\A v \in Reviews : review[v] # Absent /\ ~IsOpen(v) =>
            /\ review'[v] # Absent
            /\ review'[v].closedAt # Absent
            /\ review'[v].snapshot # review[v].snapshot =>
                  \E c \in Calls : call[c].phase = "writing" /\ call[c].closing]_vars
  BY ClosedStaysClosed DEF StaysClosed
<1> QED BY <1>1, CallsAreInvariant, PTL DEF Spec, ClosedIsHistory
=============================================================================
