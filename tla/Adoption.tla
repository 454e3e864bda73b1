------------------------------- MODULE Adoption --------------------------------
(***************************************************************************)
(* Adoption: the scan (apps/sync/src/adoption) reads what prisme has and    *)
(* what was decided, then both tools, and replaces the queue; people        *)
(* answer the queue through the API (adopt, link, ignore one, ignore all    *)
(* that ended), promote takeaways and change what a ritual is measured      *)
(* from; the reconciler binds what was linked.                              *)
(*                                                                         *)
(* A transaction is one step. A handler that reads in one statement and     *)
(* writes in another is two, and the scan is one step for each read and     *)
(* each transaction: everything else moves in between, and both may end     *)
(* where they are.                                                          *)
(***************************************************************************)
EXTENDS Matching

CONSTANTS
    Snapshot,           \* what the two tools may hold: names -> [tasks, projects, sections, pages]
    Known,              \* the entities prisme starts with, a sequence
    Roles,              \* the document stores a scan reads
    RitualTasks,        \* what an update may say of a ritual's task
    CalendarPeriods,    \* the <<first, last>> days that are a month or a year
    MaxEntities, MaxAsked, LastDay   \* bounds

\* The columns of an entity's row.
Columns == {"kind", "title", "area", "closed", "page", "byReview"}

\* A sequence of rows, no longer than what is explored.
ASSUME KnownAssumption ==
    /\ Len(Known) \in Nat /\ Known = [i \in 1 .. Len(Known) |-> Known[i]]
    /\ Len(Known) <= MaxEntities
    /\ \A i \in 1 .. Len(Known) : DOMAIN Known[i] = Columns

\* A page's period is of days; an id names one object of its tool.
ASSUME SnapshotAssumption ==
    \A name \in DOMAIN Snapshot :
       /\ \A p \in Snapshot[name].pages : {p.start, p.end} \subseteq Int \cup {Absent}
       /\ \A what \in {"tasks", "projects", "pages"} :
             \A a, b \in Snapshot[name][what] : a.id = b.id => a = b

Titles ==
    {Known[i].title : i \in 1 .. Len(Known)}
    \cup UNION {{x.title : x \in Snapshot[name].tasks \cup Snapshot[name].projects
                                  \cup Snapshot[name].pages} : name \in DOMAIN Snapshot}

\* Any two titles can be compared, and folding reads the exact form.
ASSUME TitlesAssumption ==
    \A a, b \in Titles : /\ <<a.normal, b.normal>> \in DOMAIN Likeness
                         /\ a.exact = b.exact => a.normal = b.normal

\* What bounds the exploration.
ASSUME BoundsAssumption == {MaxEntities, MaxAsked, LastDay} \subseteq Nat

VARIABLES
    tools,              \* what the tools hold now: the name of a snapshot
    today,
    entity,             \* initiative, project, objective, key_result, ritual
    ref,                \* entity_external_ref: <<id, key>>
    link,               \* entity_link: <<id, key>>
    ignored,            \* adoption_ignore
    candidate,          \* adoption_candidate
    takeaway,           \* the mirror of the takeaways store
    scan,               \* the scan under way
    asked               \* requests between their read and their write

decisions == <<entity, ref, link, ignored>>
adoptionVars == <<tools, today, decisions, candidate, takeaway, scan, asked>>

Ids == 1 .. Len(entity)

Resting == [at |-> "rest", toRead |-> {}, targets |-> {}, objectives |-> {}, decided |-> {},
            tasksOf |-> Absent, pagesOf |-> Absent, readable |-> {}, seen |-> Absent]

Request == [op |-> Absent, key |-> Absent, shown |-> {}, role |-> Absent, picked |-> {},
            day |-> 0, id |-> 0, byReview |-> FALSE]

\* No two rows answer for one object, and an object is bound once.
AdoptionTypeOK ==
    /\ tools \in DOMAIN Snapshot /\ today \in 0 .. LastDay
    /\ Len(entity) <= MaxEntities
    /\ \A pair \in ref \cup link : pair[1] \in Ids
    /\ \A a, b \in ref : a[2] = b[2] => a = b
    /\ \A a, b \in candidate : a.key = b.key => a = b
    /\ \A a, b \in takeaway : a.id = b.id => a = b
    /\ scan.at \in {"rest", "store", "tasks", "pages", "queue", "mirror"}
    /\ Cardinality(asked) <= MaxAsked

AdoptionInit ==
    /\ tools \in DOMAIN Snapshot /\ today = 0
    /\ entity = Known
    /\ ref = {} /\ link = {} /\ ignored = {}
    /\ candidate = {} /\ takeaway = {}
    /\ scan = Resting /\ asked = {}

-----------------------------------------------------------------------------
(* The scan: run.ts and store.ts.                                           *)

Linked == {pair[2] : pair \in link}

AsTarget(i) == [id |-> i, kind |-> entity[i].kind, title |-> entity[i].title,
                area |-> entity[i].area, closed |-> entity[i].closed]

HasRef(i) == \E pair \in ref : pair[1] = i
HasLink(i) == \E pair \in link : pair[1] = i

Unbound(i) ==
    CASE entity[i].kind = "objective" -> entity[i].page = Absent /\ ~HasLink(i)
      [] entity[i].kind = "key_result" -> ~HasRef(i) /\ ~HasLink(i)
      [] OTHER -> ~HasRef(i)

Targets == {AsTarget(i) : i \in {j \in Ids : Unbound(j)}}
Objectives == {AsTarget(i) : i \in {j \in Ids : entity[j].kind = "objective"}}

BeginScan ==
    /\ scan = Resting
    /\ scan' = [Resting EXCEPT !.at = "store",
                               !.toRead = {"targets", "links", "ignores"}]
    /\ UNCHANGED <<tools, today, decisions, candidate, takeaway, asked>>

\* The loads are sent together and answered in any order, the objectives with
\* the targets.
Load(what) ==
    /\ scan.at = "store" /\ what \in scan.toRead
    /\ scan' = [scan EXCEPT !.toRead = @ \ {what},
                            !.at = IF scan.toRead = {what} THEN "tasks" ELSE "store",
                            !.targets = IF what = "targets" THEN Targets ELSE @,
                            !.objectives = IF what = "targets" THEN Objectives ELSE @,
                            !.decided = CASE what = "links" -> @ \cup Linked
                                          [] what = "ignores" -> @ \cup ignored
                                          [] OTHER -> @]
    /\ UNCHANGED <<tools, today, decisions, candidate, takeaway, asked>>

\* The tasks, projects and sections of one snapshot, then the pages of another.
ReadTasks ==
    /\ scan.at = "tasks"
    /\ scan' = [scan EXCEPT !.at = "pages", !.tasksOf = tools]
    /\ UNCHANGED <<tools, today, decisions, candidate, takeaway, asked>>

ReadPages(name, readable) == AdaptDocRecords({p \in Snapshot[name].pages : p.role \in readable})

Typed(objects) ==
    {[id |-> o.id, type |-> o.type] :
        o \in {p \in objects : p.role = "takeaways_db" /\ p.type # Absent /\ ~p.closed}}

\* A store that cannot be read is left out, and the scan goes on without it.
ReadDocs(readable) ==
    /\ scan.at = "pages"
    /\ scan' = [scan EXCEPT !.at = "queue", !.pagesOf = tools, !.readable = readable,
                            !.seen = IF "takeaways_db" \in readable
                                     THEN Typed(ReadPages(tools, readable)) ELSE @]
    /\ UNCHANGED <<tools, today, decisions, candidate, takeaway, asked>>

Objects(tasksOf, pagesOf, readable) ==
    LET read == Snapshot[tasksOf]
    IN AdaptTasks(read.tasks) \cup AdaptProjects(read.projects, read.sections)
       \cup ReadPages(pagesOf, readable)

ReplaceCandidates ==
    /\ scan.at = "queue"
    /\ candidate' = Scanned(Objects(scan.tasksOf, scan.pagesOf, scan.readable),
                          scan.targets, scan.objectives, scan.decided)
    /\ scan' = IF scan.seen = Absent THEN Resting
               ELSE [Resting EXCEPT !.at = "mirror", !.seen = scan.seen]
    /\ UNCHANGED <<tools, today, decisions, takeaway, asked>>

\* Mutation of Mirrored: what is gone from the store is forgotten, promoted or not.
MirroredAsSeen(seen) ==
    {[id |-> s.id, type |-> s.type, promoted |-> FALSE] : s \in seen}

\* The rows that stay once the store was seen to hold `seen`: a promoted one
\* is kept whatever the store says.
Mirrored(seen) ==
    LET of(page) == {t \in takeaway : t.id = page}
    IN {t \in takeaway : t.promoted /\ \A s \in seen : s.id # t.id}
       \cup {[id |-> s.id, type |-> s.type, promoted |-> \E t \in of(s.id) : t.promoted] : s \in seen}

MirrorTakeaways ==
    /\ scan.at = "mirror"
    /\ takeaway' = Mirrored(scan.seen)
    /\ scan' = Resting
    /\ UNCHANGED <<tools, today, decisions, candidate, asked>>

EndScan ==
    /\ scan.at # "rest"
    /\ scan' = Resting
    /\ UNCHANGED <<tools, today, decisions, candidate, takeaway, asked>>

-----------------------------------------------------------------------------
(* The queue and its answers: services/ops.ts and store/postgres.ts.        *)

Queue == {c \in candidate : c.kind \in Adoptable /\ c.key \notin Linked \cup ignored}

HasEnded(c, day) == c.ends # Absent /\ c.ends < day

\* The set of what ended, under the filter by source. Its digest is the set.
EndedSelection(role, day) ==
    {c.key : c \in {d \in Queue : HasEnded(d, day) /\ (role = Absent \/ d.role = role)}}

CalendarPeriod(c) == <<c.starts, c.ends>> \in CalendarPeriods

AdoptRefused(c) ==
    \/ c.key[1] = "page" /\ c.kind = "initiative"
    \/ c.kind \notin {"initiative", "project", "objective"}
    \/ c.area = Absent
    \/ c.kind = "objective" /\ ~CalendarPeriod(c)

\* Nothing here asks whether the candidate has been answered already.
AdoptCandidate(c) ==
    /\ c \in candidate /\ ~AdoptRefused(c)
    /\ Len(entity) < MaxEntities
    /\ entity' = Append(entity, [kind |-> c.kind, title |-> c.title, area |-> c.area, closed |-> FALSE,
                                 page |-> IF c.kind = "objective" /\ c.key[1] = "page"
                                          THEN c.key[2] ELSE Absent,
                                 byReview |-> FALSE])
    /\ link' = link \cup {<<Len(entity) + 1, c.key>>}
    /\ UNCHANGED <<tools, today, ref, ignored, candidate, takeaway, scan, asked>>

TaskOf(i) == {pair[2] : pair \in {q \in ref : q[1] = i /\ q[2][1] = "task"}}

HeldElsewhere(i, x) == \E pair \in ref : pair[2] = x /\ pair[1] # i

\* Mutation of TieRitualTask: the old task's link is left in the ledger.
TieKeepingLinks(i, tasks) ==
    /\ ref' = {q \in ref : q[1] # i \/ q[2][1] # "task"} \cup ({i} \X tasks)
    /\ link' = link \cup ({i} \X tasks)

\* tieRitualTask: the ritual's task rows are replaced, in both tables.
TieRitualTask(i, tasks) ==
    LET others(pairs) == {q \in pairs : q[1] # i \/ q[2][1] # "task"}
    IN /\ ref' = others(ref) \cup ({i} \X tasks)
       /\ link' = others(link) \cup ({i} \X tasks)

\* ritualPageLink and ritualTaskLink: nothing held is attached, the same again
\* is only linked, another is refused.
LinksRitualPage(i, x) ==
    /\ entity[i].page \in {Absent, x[2]}
    /\ entity' = [entity EXCEPT ![i].page = x[2]]
    /\ link' = link \cup {<<i, x>>}
    /\ UNCHANGED ref

LinksRitualTask(i, x) ==
    /\ ~entity[i].byReview /\ ~HeldElsewhere(i, x)
    /\ \/ TaskOf(i) = {} /\ TieRitualTask(i, {x})
       \/ TaskOf(i) = {x} /\ link' = link \cup {<<i, x>>} /\ UNCHANGED ref
    /\ UNCHANGED entity

\* Merge: an object is linked to an entity prisme has.
DecideAdoption(i, x) ==
    /\ IF entity[i].kind = "ritual" /\ x[1] = "page" THEN LinksRitualPage(i, x)
       ELSE IF entity[i].kind = "ritual" /\ x[1] = "task" THEN LinksRitualTask(i, x)
       ELSE link' = link \cup {<<i, x>>} /\ UNCHANGED <<entity, ref>>
    /\ UNCHANGED <<tools, today, ignored, candidate, takeaway, scan, asked>>

Ask(r) == r \notin asked /\ Cardinality(asked) < MaxAsked /\ asked' = asked \cup {r}

\* Ignore one: the row is read, and the ignore is written whatever became of it.
IgnoreCandidate(c) ==
    /\ c \in candidate
    /\ Ask([Request EXCEPT !.op = "ignore", !.key = c.key])
    /\ UNCHANGED <<tools, today, decisions, candidate, takeaway, scan>>

\* Ignore all that ended: somebody is shown a set, confirms it, and the handler
\* takes the same set again before it writes.
ShowEnded(role) ==
    /\ EndedSelection(role, today) # {}
    /\ Ask([Request EXCEPT !.op = "shown", !.shown = EndedSelection(role, today), !.role = role])
    /\ UNCHANGED <<tools, today, decisions, candidate, takeaway, scan>>

SameAsShown(r) == EndedSelection(r.role, today) = r.shown

IgnoreEnded(r) ==
    /\ r.op = "shown"
    /\ asked' = (asked \ {r}) \cup
         (IF SameAsShown(r)
          THEN {[r EXCEPT !.op = "ended", !.picked = EndedSelection(r.role, today), !.day = today]}
          ELSE {})
    /\ UNCHANGED <<tools, today, decisions, candidate, takeaway, scan>>

\* The rows the insert would write; a row fewer than picked undoes them all.
StillEnded(r) ==
    {c.key : c \in {d \in candidate : d.key \in r.picked /\ d.kind \in Adoptable
                                      /\ HasEnded(d, r.day) /\ d.key \notin Linked \cup ignored}}

\* Mutation of EndedRows: the rows that still answer are written, the others left.
EndedRowsFound(r) == StillEnded(r)

EndedRows(r) == IF StillEnded(r) = r.picked THEN r.picked ELSE {}

\* Promotion and a ritual's update check what they read and write later.
Promote(t) ==
    /\ t \in takeaway /\ t.type = "action" /\ ~t.promoted
    /\ Ask([Request EXCEPT !.op = "promote", !.key = <<"page", t.id>>])
    /\ UNCHANGED <<tools, today, decisions, candidate, takeaway, scan>>

OneSource(tasks, byReview) == byReview => tasks = {}

\* {Absent} stands for an update that says nothing of the task.
UpdateRitual(i, tasks, byReview) ==
    /\ entity[i].kind = "ritual"
    /\ OneSource(IF tasks = {Absent} THEN TaskOf(i) ELSE tasks, byReview)
    /\ Ask([Request EXCEPT !.op = "ritual", !.id = i, !.byReview = byReview, !.picked = tasks])
    /\ UNCHANGED <<tools, today, decisions, candidate, takeaway, scan>>

WritesRitual(r) ==
    /\ entity' = [entity EXCEPT ![r.id].byReview = r.byReview]
    /\ IF r.picked \in {{Absent}, TaskOf(r.id)} \ {{}} THEN UNCHANGED <<ref, link>>
       ELSE TieRitualTask(r.id, r.picked)

Write(r) ==
    /\ asked' = asked \ {r}
    /\ \/ /\ r.op = "ignore"
          /\ ignored' = ignored \cup {r.key}
          /\ UNCHANGED <<entity, ref, link, takeaway>>
       \/ /\ r.op = "ended"
          /\ ignored' = ignored \cup EndedRows(r)
          /\ UNCHANGED <<entity, ref, link, takeaway>>
       \/ /\ r.op = "promote"
          /\ takeaway' = {IF <<"page", t.id>> = r.key THEN [t EXCEPT !.promoted = TRUE] ELSE t : t \in takeaway}
          /\ UNCHANGED decisions
       \/ /\ r.op = "ritual"
          /\ \A x \in r.picked : ~HeldElsewhere(r.id, x)
          /\ WritesRitual(r)
          /\ UNCHANGED <<ignored, takeaway>>
    /\ UNCHANGED <<tools, today, candidate, scan>>

\* Refused, or the process ended before the write.
GiveUp(r) ==
    /\ asked' = asked \ {r}
    /\ UNCHANGED <<tools, today, decisions, candidate, takeaway, scan>>

\* The reconciler's bindExternalRef and bindKeyResultRef, for a decided link.
Bind(i, x) ==
    /\ entity[i].kind \in {"initiative", "key_result"} /\ x[1] = "task"
    /\ <<i, x>> \in link /\ ~HasRef(i) /\ ~HeldElsewhere(i, x)
    /\ ref' = ref \cup {<<i, x>>}
    /\ UNCHANGED <<tools, today, entity, link, ignored, candidate, takeaway, scan, asked>>

EditTools ==
    /\ tools' \in DOMAIN Snapshot \ {tools}
    /\ UNCHANGED <<today, decisions, candidate, takeaway, scan, asked>>

NextDay ==
    /\ today < LastDay /\ today' = today + 1
    /\ UNCHANGED <<tools, decisions, candidate, takeaway, scan, asked>>

ContinueScan ==
    \/ ReadTasks \/ ReplaceCandidates \/ MirrorTakeaways \/ EndScan
    \/ \E what \in {"targets", "links", "ignores"} : Load(what)
    \/ \E readable \in SUBSET Roles : ReadDocs(readable)

Adopt == \E c \in candidate : AdoptCandidate(c)
Merge == \E c \in candidate, i \in Ids : DecideAdoption(i, c.key)
Ignore == \/ \E c \in candidate : IgnoreCandidate(c)
          \/ \E role \in Roles \cup {Absent} : ShowEnded(role)
Tend == \/ \E t \in takeaway : Promote(t)
        \/ \E i \in Ids, tasks \in RitualTasks, byReview \in BOOLEAN : UpdateRitual(i, tasks, byReview)

Answer == \E r \in asked : IgnoreEnded(r) \/ Write(r) \/ GiveUp(r)

Reconcile == \E pair \in link : Bind(pair[1], pair[2])

AdoptionNext ==
    \/ BeginScan \/ ContinueScan
    \/ Adopt \/ Merge \/ Ignore \/ Tend \/ Answer
    \/ Reconcile \/ EditTools \/ NextDay

AdoptionSpec == AdoptionInit /\ [][AdoptionNext]_adoptionVars

-----------------------------------------------------------------------------

\* What a bulk ignore writes is exactly the set the person was shown, all of
\* it ended and none of it linked, whatever a rescan, another answer or the
\* calendar did between the showing, the read and the write (ignoreEnded,
\* ignoreEndedCandidates: "nothing that has not ended is ignored in bulk").
IgnoresWhatWasShown ==
    [][\A r \in asked :
          r.op = "ended" /\ r \notin asked' /\ ignored' # ignored =>
             /\ ignored' \ ignored = r.shown
             /\ \A x \in r.shown : /\ x \notin Linked
                                   /\ \E c \in candidate : c.key = x /\ HasEnded(c, today)]_adoptionVars

\* How strongly a title speaks for a target.
Claim(c, t) ==
    CASE t.title.exact = c.title.exact -> Same + 2
      [] t.title.exact # c.title.exact /\ t.title.normal = c.title.normal -> Same + 1
      [] OTHER -> Likeness[<<c.title.normal, t.title.normal>>]

Rivals(c, targets) ==
    {t \in targets : t.kind = c.kind /\ t.area = c.area /\ t.closed = c.closed /\ Claim(c, t) > 0}

Foremost(targets, c) == {t \in targets : \A u \in targets \ {t} : Claim(c, u) < Claim(c, t)}

\* A row of a new queue is proposed by its title as the one target of its kind,
\* area and openness that no other comes near to, and as none when there is no
\* such target: two that cannot be told apart are left to a person (resolve).
\* A key result may be one the cross-kind rule found, which takes no fuzzy match.
ProposalIsTheOnlyOne ==
    [][candidate' # candidate =>
          \A c \in candidate' :
             LET named == {t.id : t \in Foremost(Rivals(c, scan.targets), c)}
                 byTitle == {p \in c.proposal : p[1] # "existing_mapping"}
             IN /\ {p[2] : p \in byTitle} \subseteq named
                /\ c.kind # "key_result" => (c.proposal = {} => named = {})]_adoptionVars

\* A task linked to a ritual is the one the ritual is measured from: a link
\* that was answered is honoured, or was taken away with the task it named
\* (decideAdoption, updateRitual, tieRitualTask).
RitualHonoursItsLink ==
    \A pair \in link : entity[pair[1]].kind = "ritual" /\ pair[2][1] = "task" => pair \in ref
=============================================================================
