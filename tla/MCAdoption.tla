------------------------------ MODULE MCAdoption -------------------------------
(* Adoption with three snapshots of the tools. The first holds a parent task   *)
(* in a mapped area, a task labelled as a ritual, an objectives page and an    *)
(* action takeaway; in the second titles, dates and labels have moved and the  *)
(* takeaway is a principle that names an entity; the third has projects and no *)
(* pages.                                                                      *)
EXTENDS TakeawaysLacked, TLC

CONSTANTS MaxScans, MaxAnswers, MaxEdits   \* bounds

VARIABLE spent      \* how many scans, answers and edits there were

MCAreaAt == [at \in {"p", "q"} \X {Absent, "s", "u"} |->
    CASE at[1] = "p" /\ at[2] = "s" -> "garden"
      [] at[1] = "p" -> "home"
      [] OTHER -> Absent]
MCLaneOf == ("home" :> "area") @@ ("garden" :> "area") @@ ("noise" :> "signals")
MCAreaPage == ("home" :> "homePage") @@ ("garden" :> Absent) @@ ("noise" :> Absent)
MCSignalsLabel == [label |-> "alert", area |-> "noise"]

MCLikeness == [pair \in {"shed", "sheds", "walk"} \X {"shed", "sheds", "walk"} |->
    IF pair[1] = pair[2] THEN 3 ELSE IF "walk" \in {pair[1], pair[2]} THEN 0 ELSE 2]

Shed == [exact |-> "Shed", normal |-> "shed"]
SmallShed == [exact |-> "shed", normal |-> "shed"]
Sheds == [exact |-> "Sheds", normal |-> "sheds"]
Walk == [exact |-> "Walk", normal |-> "walk"]

Task(id, title, labels) ==
    [id |-> id, title |-> title, project |-> "p", section |-> Absent, parent |-> Absent,
     closed |-> FALSE, recurring |-> FALSE, labels |-> labels]

Page(id, title, role, start, end) ==
    [id |-> id, title |-> title, role |-> role, archived |-> FALSE, related |-> {"homePage"},
     type |-> Absent, mapped |-> Absent, start |-> start, end |-> end]

First == [tasks |-> {Task("t", Shed, {}), Task("h", Walk, {"ritual"}),
                     [Task("c", Walk, {"anchor"}) EXCEPT !.parent = "t"]},
          projects |-> {}, sections |-> {},
          pages |-> {Page("o", Sheds, "objectives_db", 0, 0),
                     [Page("a", Walk, "takeaways_db", 0, Absent) EXCEPT !.type = "action"]}]

Second == [tasks |-> {Task("t", Sheds, {}), Task("h", Walk, {"ritual", "alert"}),
                      [Task("c", Walk, {}) EXCEPT !.recurring = TRUE]},
           projects |-> {}, sections |-> {},
           pages |-> {Page("o", Sheds, "objectives_db", 1, 0),
                      [Page("a", Walk, "takeaways_db", Absent, Absent) EXCEPT !.type = "principle",
                                                                              !.mapped = 1]}]

Third == [tasks |-> {Task("t", Shed, {}), Task("h", SmallShed, {"ritual"})},
          projects |-> {[id |-> "p", title |-> Shed, archived |-> FALSE],
                        [id |-> "q", title |-> Walk, archived |-> FALSE]},
          sections |-> {[id |-> "s", project |-> "p", archived |-> FALSE],
                        [id |-> "u", project |-> "p", archived |-> TRUE]},
          pages |-> {}]

Entity(kind, title) ==
    [kind |-> kind, title |-> title, area |-> "home", closed |-> FALSE, page |-> Absent,
     byReview |-> FALSE]

MCKnown == <<Entity("initiative", Sheds), Entity("ritual", Walk), Entity("key_result", SmallShed),
             Entity("initiative", Sheds)>>
MCRitualTasks == {{}, {Absent}, {<<"task", "t">>}}
MCPeriods == {<<0, 0>>}
MCSnapshot == ("first" :> First) @@ ("second" :> Second) @@ ("third" :> Third)

\* Where one scan that nothing disturbed has left a workspace.
MCInit ==
    /\ tools = "first" /\ today = 1
    /\ entity = Known
    /\ ref = {} /\ link = {} /\ ignored = {}
    /\ candidate = Scanned(Objects(tools, tools, Roles), Targets, Objectives, {})
    /\ takeaway = {[id |-> t.id, type |-> t.type, promoted |-> FALSE] : t \in Typed(ReadPages(tools, Roles))}
    /\ scan = Resting /\ asked = {}
    /\ lacked = {} /\ spent = [scans |-> 0, answers |-> 0, edits |-> 0]

Spend(what, most) == spent[what] < most /\ spent' = [spent EXCEPT ![what] = @ + 1]

MCNext ==
    /\ \/ BeginScan /\ Spend("scans", MaxScans)
       \/ ContinueScan /\ UNCHANGED spent
       \/ (Adopt \/ Merge \/ Ignore \/ Tend) /\ Spend("answers", MaxAnswers)
       \/ Answer /\ UNCHANGED spent
       \/ (EditTools \/ NextDay) /\ Spend("edits", MaxEdits)
       \/ Reconcile /\ UNCHANGED spent
    /\ NotesLacked

MCSpec == MCInit /\ [][MCNext]_<<lackedVars, spent>>
=============================================================================
