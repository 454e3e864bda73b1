------------------------------- MODULE Matching --------------------------------
(***************************************************************************)
(* What the adoption scan makes of one snapshot of the two tools            *)
(* (apps/sync/src/adoption: adapt.ts, classify.ts, resolve.ts, queue.ts):   *)
(* every task, project and page becomes an object, every object gets a      *)
(* kind, and an object of an adoptable kind may be proposed as one of the   *)
(* entities prisme has and no external object is bound to.                  *)
(*                                                                         *)
(* A title is a record of its two forms: `exact`, and `normal` with case,   *)
(* accents, punctuation and numbering folded away. How alike two normal     *)
(* forms are is a constant: 0 is below the threshold or refused by the      *)
(* word-level test, Same is one form twice, unless nothing is left of it.   *)
(***************************************************************************)
EXTENDS Integers, Sequences, FiniteSetsExt

CONSTANTS
    Absent,
    AreaAt,             \* area_mapping: <<project, section or Absent>> -> area or Absent
    LaneOf,             \* area.kind
    AreaPage,           \* area.external_page_id
    SignalsLabel,       \* [label, area], or Absent
    MinimumSubtasks, MinimumSections,
    Likeness,           \* [<<normal form, normal form>> -> Nat]
    Same

ASSUME LikenessAssumption ==
    /\ Same \in Nat \ {0}
    /\ \A pair \in DOMAIN Likeness :
          /\ Likeness[pair] \in 0 .. Same
          /\ pair[1] = pair[2] =>
                \/ Likeness[pair] = Same
                \/ \A other \in DOMAIN Likeness : other[1] = pair[1] => Likeness[other] = 0

Adoptable == {"initiative", "project", "objective", "key_result", "ritual"}

Key(o) == <<o.kind, o.id>>

-----------------------------------------------------------------------------
(* adapt.ts: the objects of a snapshot.                                     *)

Plain == [kind |-> Absent, id |-> Absent, title |-> Absent, area |-> Absent, closed |-> FALSE,
          children |-> 0, parent |-> Absent, recurring |-> FALSE, labels |-> {},
          sections |-> 0, spread |-> 0, role |-> Absent, type |-> Absent, mapped |-> Absent,
          starts |-> Absent, ends |-> Absent]

Lane(area) == IF area = Absent THEN Absent ELSE LaneOf[area]

\* A section's own mapping comes before its project's.
AreaOfLocation(project, section) ==
    IF section # Absent /\ AreaAt[<<project, section>>] # Absent
    THEN AreaAt[<<project, section>>]
    ELSE AreaAt[<<project, Absent>>]

LabelPlaces(labels) ==
    /\ SignalsLabel # Absent
    /\ SignalsLabel.label \in labels
    /\ LaneOf[SignalsLabel.area] = "signals"

AdaptTasks(tasks) ==
    {[Plain EXCEPT !.kind = "task", !.id = t.id, !.title = t.title, !.closed = t.closed,
                   !.parent = t.parent, !.recurring = t.recurring, !.labels = t.labels,
                   !.area = IF LabelPlaces(t.labels) THEN SignalsLabel.area
                            ELSE AreaOfLocation(t.project, t.section),
                   !.children = Cardinality({u \in tasks : u.parent = t.id})] : t \in tasks}

AdaptProjects(projects, sections) ==
    LET Live(p) == {s \in sections : s.project = p.id /\ ~s.archived}
        Areas(p) == {AreaOfLocation(p.id, s.id) : s \in Live(p)} \ {Absent}
    IN {[Plain EXCEPT !.kind = "project", !.id = p.id, !.title = p.title, !.closed = p.archived,
                      !.area = AreaOfLocation(p.id, Absent),
                      !.sections = Cardinality(Live(p)),
                      !.spread = Cardinality(Areas(p))] : p \in projects}

\* One related page that is exactly one area's page, or no area.
AreaOfRelation(related) ==
    LET areas == {a \in DOMAIN AreaPage : AreaPage[a] \in related}
    IN IF Cardinality(related) = 1 /\ Cardinality(areas) = 1
       THEN CHOOSE a \in areas : TRUE
       ELSE Absent

\* A period written back to front is read in order.
AdaptDocRecords(pages) ==
    LET End(p) == IF p.end = Absent THEN p.start ELSE p.end
        Backwards(p) == p.start # Absent /\ End(p) < p.start
    IN {[Plain EXCEPT !.kind = "page", !.id = p.id, !.title = p.title, !.closed = p.archived,
                      !.role = p.role, !.type = p.type, !.mapped = p.mapped,
                      !.area = AreaOfRelation(p.related),
                      !.starts = IF Backwards(p) THEN End(p) ELSE p.start,
                      !.ends = IF p.start = Absent THEN Absent
                               ELSE IF Backwards(p) THEN p.start ELSE End(p)] : p \in pages}

-----------------------------------------------------------------------------
(* classify.ts: the first rule that applies decides.                        *)

Rules(o) ==
    << <<o.parent # Absent, "task">>,
       <<o.role = "takeaways_db" /\ o.type = "action", "initiative">>,
       <<o.role = "takeaways_db", "takeaway">>,
       <<o.role = "objectives_db", "objective">>,
       <<o.role = "processes_db", "ritual">>,
       <<"key_result" \in o.labels, "key_result">>,
       <<"ritual" \in o.labels, "ritual">>,
       <<"anchor" \in o.labels, "initiative">>,
       <<Lane(o.area) = "signals", "signal">>,
       <<o.recurring \/ Lane(o.area) = "run", "run">>,
       <<o.kind = "project" /\ o.spread < 2 /\ o.sections >= MinimumSections, "project">>,
       <<o.kind = "project", "task">>,
       <<o.children >= MinimumSubtasks /\ o.area # Absent, "initiative">>,
       <<TRUE, "task">> >>

Classify(o) == SelectSeq(Rules(o), LAMBDA rule : rule[1])[1][2]

-----------------------------------------------------------------------------
(* resolve.ts: the entity an object may already be. A target is             *)
(* [id, kind, title, area, closed].                                         *)

Comparable(o, t) == o.area = t.area /\ o.closed = t.closed

TheOnlyOne(targets) == IF Cardinality(targets) = 1 THEN targets ELSE {}

Titled(o, kind, targets, form) ==
    TheOnlyOne({t \in targets : t.kind = kind /\ Comparable(o, t) /\ t.title[form] = o.title[form]})

Like(o, t) == Likeness[<<o.title.normal, t.title.normal>>]

Viable(o, kind, targets) == {t \in targets : t.kind = kind /\ Comparable(o, t) /\ Like(o, t) > 0}

\* Mutation of BestFuzzy: of two equal scores the first is kept.
BestFuzzyFirst(o, kind, targets) ==
    LET viable == Viable(o, kind, targets)
        best == {t \in viable : \A u \in viable : Like(o, u) <= Like(o, t)}
    IN IF best = {} THEN {} ELSE {CHOOSE t \in best : TRUE}

\* The best score found so far, and whether a later target equalled it.
Meets(o, kind, t, acc) ==
    LET score == Like(o, t)
    IN IF t.kind # kind \/ ~Comparable(o, t) \/ score = 0 THEN acc
       ELSE IF acc.best = {} \/ score > acc.score
       THEN [best |-> {t}, score |-> score, tied |-> FALSE]
       ELSE [acc EXCEPT !.tied = @ \/ score = acc.score]

BestFuzzy(o, kind, targets) ==
    LET last == FoldSet(LAMBDA t, acc : Meets(o, kind, t, acc),
                        [best |-> {}, score |-> 0, tied |-> FALSE], targets)
    IN IF last.tied THEN {} ELSE last.best

\* A proposal is <<rule, target's id>>. The first rule that finds one wins.
Proposals(rule, found) == {<<rule, t.id>> : t \in found}

OrElse(found, weaker) == IF found # {} THEN found ELSE weaker

ByTitle(o, kind, targets) ==
    OrElse(Proposals("exact_title", Titled(o, kind, targets, "exact")),
           Proposals("normalised_title", Titled(o, kind, targets, "normal")))

Resolve(o, kind, targets) ==
    OrElse(Proposals("existing_mapping", {t \in targets : t.id = o.mapped}),
           OrElse(ByTitle(o, kind, targets),
                  Proposals("fuzzy_title", BestFuzzy(o, kind, targets))))

ResolveAcrossKinds(o, targets) == ByTitle(o, "key_result", targets)

NamesAnObjective(o, objectives) ==
    \E form \in {"exact", "normal"} : Titled(o, "objective", objectives, form) # {}

MayCrossKinds(o) ==
    /\ o.kind = "task" /\ o.parent = Absent
    /\ Classify(o) \in {"task", "initiative"}
    /\ o.labels \cap {"anchor", "key_result", "ritual"} = {}

\* queue.ts: the kind an object is queued as, and the proposals beside it.
Reading(o, targets, objectives) ==
    LET kind == Classify(o)
        own == IF kind \in Adoptable THEN Resolve(o, kind, targets) ELSE {}
        crossed == ResolveAcrossKinds(o, targets)
    IN IF own = {} /\ MayCrossKinds(o) /\ (crossed # {} \/ NamesAnObjective(o, objectives))
       THEN [kind |-> "key_result", proposal |-> crossed]
       ELSE [kind |-> kind, proposal |-> own]

Candidate(o, reading) ==
    [key |-> Key(o), title |-> o.title, area |-> o.area, closed |-> o.closed, role |-> o.role,
     starts |-> o.starts, ends |-> o.ends, kind |-> reading.kind, proposal |-> reading.proposal]

\* scan: what is neither decided nor left in place.
Scanned(objects, targets, objectives, decided) ==
    {c \in {Candidate(o, Reading(o, targets, objectives)) :
               o \in {p \in objects : Key(p) \notin decided}} : c.kind \in Adoptable}
=============================================================================
