# prisme in TLA+

prisme ranks initiatives and keeps them in step with two external tools: a task
tool, where each initiative that is taken up has an *anchor* task, and a
document tool, where it may have a page. The task tool goes on being edited by
hand, on a phone, while prisme's API changes the database and a *reconciler*
pass, run every fifteen minutes and on request, brings the two together. None
of these waits for another, and nothing makes a write to the database and a
write to a tool one transaction. Around that core lie a queue for adopting
existing work, a history of completions, objectives that follow the calendar, a
planner, and an API whose write tools ask for confirmation. This directory
models these parts, checks them with TLC and proves part of them with TLAPS.

## The system

| Component | State | Operations | What makes it correct |
|---|---|---|---|
| **Reconciler** `apps/sync/src/{reconcile,apply,state}` | initiative, entity_external_ref, entity_link, last_applied, sync_conflict | a pure `plan` of desired, observed and last_applied; create, bind, adopt, capture, update, move, set status | creates only for what prisme made (guard 2); an object is bound once (guard 1); the create threshold (guard 3); one owner per field; records follow accepted writes |
| **Pass orchestration** `apps/sync/src/{main,run,window}.ts`, `apps/api/src/sync/runner.ts` | sync_cursor, sync_run_state | the steps of a pass, in order, under one lock; the daily ones in the CronJob's full passes | one pass at a time; the last full pass goes forward; the daily steps recur |
| **Advisory lock** `packages/db/src/{lock,client}.ts` | session locks of PostgreSQL | try, run, unlock | processes do not overlap; a dead run does not lock the rest out |
| **Creation ledger** `apps/sync/src/create`, `0007_creation.sql` | creation_intent | drain, record, fail, retry | each intent makes one object, whatever crashes |
| **Objectives** `apps/sync/src/objective-*` | objective, key results, page dates and figures | windows, tasks, pages, success | a window decides the status and a judgement stands; one task per objective; a conflict has a cause that is named |
| **Adoption** `apps/sync/src/adoption`, `adoption-queue.ts` | adoption_candidate, adoption_ignore, takeaway | scan; adopt, merge, ignore, promote | what is decided is kept; a proposal is the only one there is |
| **History** `apps/sync/src/backfill`, `capacity-refresh.ts` | completion_history, backfill_cursor, capacity_week, capacity_completion, ritual_adherence | page through completions, rebuild what is derived | one completion is one row; the cursor claims what was read |
| **Planning** `packages/domain`, `services/work.ts` | initiative rows, dependencies, weights | score, select, schedule, replan, the dependency gate | every reason given is true; nothing is overbooked; slack is about deadlines |
| **Timeline's page** `apps/web` | the preview shown | ask, apply, dismiss | what is saved is what was shown |
| **Tokens and the write switch** `apps/api/src/auth`, `packages/auth` | api_token, write_switch and copies of both | authenticate, authorise, mint, revoke, freeze | a revocation and a freeze take hold |
| **MCP server** `apps/api/src/mcp` | confirmation_token | plan, confirm, run | what runs is what was shown |
| **Connectors** `packages/connectors` | none | retrying HTTP, paging clients, audited and freezable writers | a retry carries its key; a bad token is not retried |
| **Migrations** `packages/db/src/migrations.ts` | prisme_migration | run under a lock | each applied once, in order |
| Other pages, UI kit, configuration, observability | none shared | | |

The parts meet in four places: the database rows, which API handlers and a
pass both write; the two tools, which people and a pass both write; the
advisory lock, which every way of starting a run asks for; and what somebody was
shown some time ago and answers now. The hard behaviours come from there:

* a pass reads the database in several statements, then the tool, and acts on
  that snapshot minutes later (`state/postgres.ts:159-391`, `run.ts:70-136`);
* a create is a call to a tool followed by a transaction, and either may fail
  alone (`apply.ts:170-181`); a capture is two transactions (`apply.ts:250-273`);
* what prisme knows of its own writes, `last_applied`, is a third write, after
  both (`apply.ts:118-119`, `objective-pages/run.ts:150`);
* one task carries fields of prisme, fields of its owner, and labels that are
  requests (`plan.ts:869-1217`);
* the lock belongs to a database session, and the code holds a pool of them;
* handlers read in one statement and write in another, and a pass, a second tab
  or a second call of the MCP server comes in between (`services/ops.ts:227`,
  `mcp/server.ts:240`, `adoption/store.ts:286`);
* every replica of the API keeps copies of tokens and of the write switch;
* the completions of a day come in windows, under two stamps, from two endpoints,
  and a run may stop after any of them.

## The modules

| Module | Models | Checked by |
|---|---|---|
| `Binding` | which task anchors which initiative, and who may make one | `MCBinding`: `Binding.cfg`, `OneInitiativePerTask.cfg` |
| `QuietPass` | `Binding` with a mark on the pass that nothing interfered with | `MCBinding`: `Binding.cfg` |
| `AnchorSync` | one bound initiative and its task, kept alike | `MCAnchorSync`: `AnchorSync.cfg` |
| `CreationLedger` | the intents to make something in the tools, and the pass that makes it | `MCCreationLedger`: `CreationLedger.cfg` |
| `ExactlyOnce` | what the ledger promises of the task tool, abstractly | refined by `CreationLedger` (`OnceSpec`) |
| `AdvisoryLock` | what keeps runs apart | through `Passes`, which implements it |
| `Passes` | the runs inside the lock: the cursor, the daily pass, the two ways to start one | `MCPasses`: `Passes.cfg` |
| `Objectives` | objectives, their windows, their pages and figures | `MCObjectives`: `Objectives.cfg` |
| `QuietObjectives` | `Objectives` with a mark on the pass that nothing interfered with | `MCObjectives`: `Objectives.cfg` |
| `Matching`, `Adoption` | the matcher as operators; the scan, the queue and the answers to it | `MCAdoption`: `Adoption.cfg` |
| `TakeawaysLacked` | `Adoption` with what the takeaways store was seen without | `MCAdoption`: `Adoption.cfg` |
| `History` | the backfill and the daily refresh | `MCHistory`: `History.cfg` |
| `Schedule`, `Ranking`, `Board` | working days, schedule and replan; capacity, scores and the now set; the rows they are computed from | `MCBoard`: `Board.cfg` |
| `Timeline` | the Timeline's page over `Board` | `MCTimeline`: `PreviewIsKept.cfg` |
| `Access` | tokens, their cache, and the write switch's copies | `MCAccess`: `Access.cfg` |
| `ToolCalls` | the MCP server's write tools beside the routes | `MCToolCalls`: `ToolCalls.cfg` |
| `Binding_proofs`, `AnchorSync_proofs`, `CreationLedger_proofs`, `Passes_proofs` (the lock, the passes, the adoption scan), `Objectives_proofs`, `History_proofs`, `Api_proofs` (`Access` and `Board`), `ToolCalls_proofs` | theorems | |

### Binding

`row` is the initiative table (origin, status class, `external_anchor_id`),
`holder` is `entity_external_ref` with its unique index (a task has one holder),
`links` is `entity_link`, `task` is the task tool. The statuses fall into the
four classes the planner tells apart: parked (inbox, later), active (next, now,
waiting), review, closed (done, dropped).

Handlers are one transaction and one action each: `CreateInitiative`,
`SetStatus`, `AdoptCandidate`, `AdoptInboxTask`, `DecideAdoption` (merge),
`ConvertToKeyResult`, `LinkExternal`, `PromoteCapture`; `BindOther` and
`UntieRitual` are the other entities that hold tasks. People add, label,
unlabel, complete and delete tasks.

A pass goes `idle -> giving -> pending -> elsewhere -> observing -> applying`:
`giving` is the objectives' step of `main.ts`, and the next three states are the
moments between the statements of `loadDesired`. `seen`, `pend` and `taken` are
what those statements returned. `ObserveAndPlan` is `fetchAll`, `plan` and the
two refusals of `apply`, which happen with nothing else in between that the plan
could see. Then each planned operation is carried out: `CreateTask` and
`BindCreated` are the halves of `create_anchor`, `CaptureInitiative` and
`BindCaptured` those of `capture_initiative`, `BindAdopted` is `bind_ref`. The
plan's actions are a set: anchors come before the intent channel's captures, as
in the code, and the order among initiatives is left open. `Fault` has a lost
answer, a refused call, a failed transaction, the stop on a rejected credential
and the end of the process at any point.

`made`, `lost`, `released` and `batch` are history: no guard reads them. Neither does
one read `quiet`, which `QuietPass` adds: it is true of a pass since whose start no
handler, person or fault came in between.

What holds: a task the reconciler made for an initiative is its anchor, unless
its answer was lost or a person took it away (`MadeIsAnchor`), so an initiative
has at most one task for each lost answer, plus one; an adopted initiative never
has one made, whatever changes during the pass (`AdoptedMakesNothing`, guard 2);
a pass never anchors to a task its own read showed bound (`NoStealFromTheRead`,
which is what is left of guard 1); one pass makes no more than the threshold
(`CreatesWithinThreshold`, guard 3); an undisturbed pass leaves nothing to plan
(`QuietPassSettles`); decided links get bound and active initiatives get their
task (`LinkHonoured`, `ActiveIsAnchored`; the latter while no more of them wait than a pass
may create for).

### AnchorSync

`want` and `status` are the initiative row, `tool` and `completed` the anchor
and its subtasks, `last` is `last_applied`. A field is a scalar (title,
deadline, description), the priority, the label set or the place; a subtask
stands for its own priority, the one field of it prisme writes.

`Plan` is `planAnchor`: `FieldActions` (`planFields`: a conflict for each field
somebody else changed, one update for the rest), `LocationActions`,
`CompletionActions`, `RequestActions`, `SubtreeActions`. An action is a status
to set, patches to send, fields to record and conflicts to enter; `stage` keeps
the order in which the planner pushes them. `Begin`, `ApplyStatus`, `SendPatch`,
`Record` and `FinishAction` are the steps of `apply` for one action, and
`ActionFails`, `AnswerLost` and `Crash` may come between any two. `FieldActions`
writes all labels from the snapshot, as the code does, and so does
`RequestActions`, from the same snapshot.

`ours`, `touched`, `slipped` and `at` are history: the values prisme wrote, the
fields people changed since, the writes that were accepted and not recorded,
and how these stood when the pass read the tool.

What holds: a record is of a value the tool took (`RecordedWasAccepted`, part of the
invariant and proved); a conflict is an edit, or a write whose record was lost
(`ConflictIsAnEdit`); an edit the pass read is overwritten only by an action that enters
it in the ledger (`EditsAreLogged`); a subtask's priority set by hand is never
overwritten (`HandSetKept`); and when edits stop, the task comes to be and stays what
prisme wants (`Converges`).

Two of these stop where the code does. `ConflictIsAnEdit` leaves the label out, because
a conflict of the label may be of prisme's own making, and `EditsAreLogged` is about what
the pass read, because an edit made after that is written over unseen.

### CreationLedger

`row` is `creation_intent` by slot (state, title, what it waits for, the object
it made); `column` is each entity's own reference (`REFERENCE_COLUMN`), `ref` is
`entity_external_ref` again, `promoted` the captures that became initiatives,
`thing` both tools. What binds an object outside the ledger (adoption, the
reconciler's anchors, objectives, rituals) is one holder, `Elsewhere`: the index
does not tell them apart, and neither does `Claimed`.

Handlers are `RequestPage`, `CreateCapture`, `RequestStructure`, `LinkExternal`,
`PromoteCapture` and `RetryIntent`; they write rows through `WriteIntents`, whose
`on conflict` clause is `Written`. People make, rename and trash things. A pass
goes `idle -> loaded -> converging`: `LoadOutstanding` and `LoadEntityRefs` are
two statements, with anything in between; then an attempt (`IsNext`: the lowest
rank that is runnable, below the cap) and its record are two steps each.
`Perform` finds or makes the object, `AnswerLost` does so and is told nothing,
`Refuse` does nothing, `SentTwice` is the client's own retry of the request that
makes a page. `RecordSatisfied` is one transaction; where it would break one of
the two unique indexes it throws, and the pass is over (`RecordRefused`). What a
pass learns it enters in `led`, its own copy of the rows, never reading them
again.

Two things are the model's own. Ids are finite, so `RoomToSpare` keeps one for
each keyed intent, and only pages and what people make can run out (`NoRoom`).
And the task tool remembers a key for ever, which is what the repository relies
on and cannot show.

What holds: in the task tool every intent has one object at most, made after it
was committed, and the row names it (`OnceSpec`, which is `ExactlyOnce` with
`made` read off the tool); whatever a column or a done row names is held by that
entity, whoever else was after it (`ReferencesAgree`); a done row is never
reopened or renamed (`SatisfiedIsFinal`); a section lies in its own entity's
project, whether that was made in this pass, in an earlier one, or linked
(`SectionInOwnProject`); and what the task tool can make is made in the end,
unless somebody bound the object in the moment between making and recording it
(`Drained`).

### AdvisoryLock and Passes

`depth[s]` is how often session `s` holds the lock. `Acquire` and `Finish` take
any session of the process's pool, since `withAdvisoryLock` runs its two
statements through the pool. `IdleTimeout` is `idle_timeout` of
`createDatabase`. A run is `bereft` when the lock was lost under it.

`Passes` is what happens inside: `Starts`, `Ends`, `Throws`, `LeavesLock`,
`LosesSession` and `Dies` are the lock's own steps joined with what the run does
at that moment. `cursor` is the last full pass of `sync_cursor`, as an age that
stops at a day, which is all `isFullPassDue` asks of it; `pass` is what each run
remembers. `ReadCursor` is `loadCursor` and the choice of a full pass,
`SaveCursor` puts the whole row back as it was read, `Refuse` leaves it (create
threshold, write freeze). `DailySteps` are the capacity refresh, the scan and the
audit's pruning, which only the CronJob's full passes go on to. A plan, a scan, a
backfill and the ledger on its own are one step, `RunOther`: they hold the lock and
leave the cursor alone.

What holds: runs of two processes do not overlap unless one of them is bereft
(`ProcessesExclude`; two of one process may); the last full pass never goes back, but by
a pass that ran beside another for one of the lock's two weaknesses
(`CursorGoesForward`); and the daily steps recur, though a full pass asked of the API
postpones them by a day (`DailyStepsRecur`): they may be put off for ever only by runs
that keep being started, cut short or refused. The last disjunct is real: with writes
frozen no cursor is saved, so every pass of the CronJob is full and does the daily
steps, four times an hour.

### Objectives

`objective` is the table (status, period, links, page, figure), `page` the objectives
store, `chosen` the columns chosen on Settings, `lastApplied` the dates prisme wrote, by
page. A pass is `success -> record -> windows -> step -> pages -> entries -> write ->
note -> ledger`: `ReadFigures` and `RecordFigures` (`readObjectiveSuccess`), `ReadOpen`
and `ApplyStep` for each objective in the order of ids (`advanceObjectiveWindows`),
`ReadLinks` and `PlanPages`, then for each page `WriteDates`, `NoteApplied` and
`RecordConflict` (`reconcileObjectivePages`). `Judge`, `AskMove` and `Move` (the two
halves of a change of period), `Relink`, `ChooseDates` and `ChooseSuccess` (one of the
store's columns, or none) are the API's; `EditDates`, `EditSuccess` and `HoldPage` are made in
the document tool. `Fails` is the catch of each part, `WriteDates(taken, answered)` has
the refused and the lost write. `edited`, `written` and `unrecorded` are history: the
columns people changed since prisme wrote them, the column each page was last written
in, and the writes that are not in `last_applied`.

What holds: after a pass that nothing disturbed every objective has the status of its
window, every page its period and every linked objective its page's figure, whatever
came before (`NextPassSettles`, which reads the mark `quiet` that `QuietObjectives`
adds: no edit, no new day and no failure since the pass began; a request that has only
read an objective has changed nothing yet); a pass never takes back a judgement
(`JudgementStands`); what it enters as a conflict is a hand edit, follows its own write
that was never recorded, or is of another column than the one written last
(`ConflictHasACause`). The third cause is one the planner's own comment does not know:
`last_applied` is kept by page and not by column, so that after another date column is
chosen a page's conflict need be nobody's edit.

### Matching and Adoption

`Matching` has the adapters of both tools' objects (`AdaptTasks`, `AdaptProjects`,
`AdaptDocRecords`), `Classify` (the rules in their order) and `Resolve`: an exact
title, then an undisputed near one, then across kinds. How alike two titles are is a
constant, `Likeness`; the thresholds are the code's.

In `Adoption` the scan goes `BeginScan`, `Load` of targets, objectives and decisions,
one by one and in any order (they are read together), `ReadTasks`, `ReadDocs`,
`ReplaceCandidates`, `MirrorTakeaways`: two reads of prisme's own rows and two of
the tools lie before the first write. People `AdoptCandidate`, `DecideAdoption` (link
to what there is), `IgnoreCandidate`, `IgnoreEnded` (three steps: shown, read,
written), `Promote` a takeaway, `UpdateRitual`; the reconciler `Bind`s. The tools hold
one of a few snapshots, and change from one to the next.

What holds: a ritual is measured from the task linked to it (`RitualHonoursItsLink`);
a bulk ignore writes exactly what was shown (`IgnoresWhatWasShown`); a proposal is the
only target it could be (`ProposalIsTheOnlyOne`); the mirror forgets no takeaway that
was promoted or that it could not look for (`TakeawaysAreKept`, which reads the
history variable `lacked` that `TakeawaysLacked` adds).

### History

Time is counted in days. `made` and `undone` are the tool's, each completion with the
two instants the tool gives it; `history`, `cursor`, `week`, `listed` and `adherence`
are the tables. A run fetches a window from the completions endpoint
(`FetchHistory`) and from the activity log (`FetchLog`, whose two filtered reads are one
step here), merges them (`Merged`, `StandingInLog`, `Unpaired`), records the window and
widens the cursor (`RecordSlice`); after the last window it loads what is stored,
replaces weeks and list in one transaction (`ReplaceMaterialised`) and writes the
adherence of each period (`RecordAdherence`). `StartBackfill` resumes as `PlanResume` says,
`StartRefresh` is the trailing window of a full pass. Between the steps people
complete, take back and remap; `Fails` and `Dies` stop the run anywhere.

What holds: one completion is one row (`StoredOnce`); the cursor claims unread days for
two causes only (`GapsHaveACause`); a rewrite is not refused and leaves whole weeks
(`RewriteIsWhole`); recorded adherence is what the list holds, unless the range began
inside the period (`AdherenceMatchesTheList`).

### Schedule, Ranking, Board and Timeline

`Schedule` and `Ranking` are the pure functions, as operators and recursive functions:
working days, `ComputeSchedule` (forward pass by `Before`, `FirstFreeStart` among the
days something ends, backward pass, slack, critical path), `Replan`, `FindCycle`,
`BalanceFactor`, `ComputeScores`, `SelectNowSet`. `Board` is the rows and their edits,
one request at a time. Its properties are reference definitions: `PlanFits` counts
occupancy on every day and looks for an earlier start on every day, where the code
tries a few; `CycleIsReal` computes reachability, where the code walks; and so on.
The walk of `FindCycle` is the code's recursion step by step: `WalkOn` enters the next
root, follows the next dependency or leaves, and after as many steps as there are
initiatives to enter and to leave and dependencies to look at, it is over.

`Timeline` puts the page over it: `Ask` shows what the API says a move would do, `Apply`
and `Save` send one field, `Answered` and `SaveFails` end it. A preview and its answer are
one step, because an answer that comes late shows what one kept on the page would.

### Access and ToolCalls

In `Access` a request goes through the steps of `authorizer.ts` and `mount.ts`:
`FindToken` (the row, on every request), `Verify` (through the cache of its replica) or
`Hashed`, `VerifyAssertion` for a person's, then `ReadSwitch` and `SettleSwitch`, or
`SwitchUnread`. `Issue`, `Revoke`, `RevokeAll`, `SetSwitch` and `CopySwitch` are the
handlers beside it, `Tick` the clock. What holds: a revocation or an expiry is in force
for whatever comes in after it (`RevocationIsImmediate`), a freeze within the copy's time
to live (`FreezeTakesHold`).

In `ToolCalls` a call plans (`DryRun`), is confirmed (`Confirm`, `Verify`), or is found
to have been disturbed (`Disturbed`), and runs its tool: `set_status`, `propose_now_set`
(one `Move` for each initiative), `start_review`, `record_review_decision`,
`promote_takeaway` (`MakesInitiative`, `LinksTakeaway`). A plan is a function of the rows,
and the digest what both halves must agree on; the plan's reads are one step. `Route`
does the same through the REST handlers. `ranked` is who has a score: initiatives of an
active area that is neither Run nor Signals. The now set a proposal sees is theirs
(`focus.now`), and `Reclassify` (an initiative or its area is put elsewhere) changes it.
What holds: `ExecutesWhatWasShown`; `ClosedIsHistory`; and that a proposal which nobody
disturbed leaves at now what it names and nothing else of what it could see
(`ProposalIsExact`). That *anything* else at now moves to next, as the tool says of itself,
does not hold of the code or the model, and is no property.

## The runs

| Run | Bounds | States | Shows |
|---|---|---|---|
| `binding` | 2 initiatives, 2 tasks (one in a place no area claims), threshold 1, 4 edits, 1 fault | 215,272 | safety and liveness of `Binding` |
| `anchor_sync` | 1 scalar, 2 values, 3 places, 1 subtask, 1 request, 2 edits, 1 fault | 498,827 | all of `AnchorSync` |
| `creation_ledger` | 3 entities with 4 intents, 5 objects, 2 titles, 3 attempts a pass, 3 edits, 1 fault | 76,600 | all of `CreationLedger`, and that it implements `ExactlyOnce` |
| `passes` | the pod, 2 requests to the API, 3 sessions, depth 2, a day of 2 ticks, a window of 1 | 55,282 | who runs beside whom, the cursor, the daily steps |
| `objectives` | 2 objectives, 2 pages, 2 date and 2 success columns, 2 periods, 3 days, 2 edits, 2 faults | 763,740 | all of `Objectives` |
| `adoption` | 3 snapshots of the tools, 5 entities, 1 scan, 2 answers, 1 edit, 1 request shown and not yet answered, 3 days | 386,000 or so | all of `Adoption`, with `Matching` |
| `history` | 1 task, 1 habit, 5 days, windows of 1 day, weeks of 2, a period of 3, 2 runs, 2 completions, 1 fault, 1 change of mapping | 1,497,460 | all of `History` |
| `board` | 3 initiatives, 2 areas and the run, weeks of 3 days with 2 working, 3 days, 2 edits | 5,757 | `Schedule` and `Ranking` against what they promise |
| `access` | 2 replicas, 2 requests, 1 token and the person, 2 writing scopes of which one outward, 1 change of the switch, 3 instants | 1,966,435 | revocation and freeze |
| `tool_calls` | 2 calls of 2 callers, 2 initiatives, 1 review, 1 takeaway, 2 confirmations, 3 submissions or changes of who is ranked, 2 instants | 1,285,125 | what a confirmation lets through |
| `one_initiative_per_task` | as `binding`, every place claimed, 5 edits | | guard 1 does not hold of anchors |
| `preview_is_kept` | as `board`, 1 edit | | a saved move is not the plan that was shown |

Why these bounds are enough: every hazard of `Binding` is about two entities and
one task, or one entity and two tasks, and the longest story among them (an
initiative created and taken up, a task made, a person's link or a lost answer,
and another pass) needs four edits and one fault. A third initiative or task
adds only more of the same pairs; the proofs cover every number. The edits of
`AnchorSync` are counted in all fields together: two are enough for an edit in
the tool against an edit in prisme, before, during and after a pass, with one
failure anywhere. `CreationLedger` needs an entity with a project and a section
(the one prerequisite there is), a capture (the one kind that gives its object
away) and a page (found by title); three edits ask for two of them and let one
hand or handler in between, and the cap of three leaves one of the four intents to
another pass. `Binding` and `CreationLedger` differ from the code in one
way: they run out of rows, tasks or objects, and then `NoRoom` fails the operation.

`Passes` needs both processes and two requests of one of them, for the two ways in
which runs come to stand beside each other; a day of two ticks tells "due" from "not
due", and a window of one tick tells inside from outside. `Objectives` has one period
that is over and one that is to come, so that three days see an objective open, close
and be judged; a second objective and a second page are there to be linked to the
first one's, and a second column of either kind to be chosen instead of the first.
`Adoption`'s snapshots are chosen so that every rule of the matcher
decides something in one of them and something else in the next; one scan is enough,
since a scan keeps nothing but the rows it leaves, and those are among the initial
ones. `History` has the shortest days on which a completion can be late, cross a
window, cross a week and cross the range's first period; the second run is the retry,
the resume or the refresh of the first. `Board` checks algorithms, so its bound is the
set of its inputs: each initial board is two edits from thousands of others, with
dates on both sides of the holiday and the week's end. `Access` and `ToolCalls` are
about pairs: two requests and two replicas, two calls on one row; the third
submission is the one that comes between a plan and its confirmation, or makes room for
a change of who is ranked.

Some MC modules leave out interleavings that change nothing. In `MCHistory` and
`MCObjectives` a person's change is made only at steps of a run at which something reads
what it changes (`Fetches`, `Placed`, `Telling`): at any other step it commutes with the
step before. In `MCToolCalls` what is confirmed or posted is what somebody asked for
before, and reviews and takeaways, which do not depend on the ranking, are asked for
only while everything is ranked. `MCBoard` edits the dates of one initiative only.
Nodes, pages, columns, calls, callers and keys are symmetric where no property with
fairness is checked.

Fairness. The reconciler is a sequential program started by a schedule, so some
step of `Reconcile` is taken whenever one can be (`WF` of `Step`); no person, no
request and no failure is ever made to happen. This assumes that passes go on being
started and granted the lock, which `DailyStepsRecur` is about. `Converge` is granted the
same in `CreationLedger`, and refusals, lost answers and crashes are counted: `Drained`
says nothing of a tool that never accepts, behind which the cap starves whatever
ranks lower.

In `Passes` the clock goes on, a run goes on to its end (statements have
`statement_timeout`, calls are bounded), and the pod exits after its run. A session is
closed by the pool's idle timer while its process has no run: an assumption about
traffic, since the API serves other requests from the same pool, and a session that
is never idle for thirty seconds keeps its lock. The CronJob's start is strongly
fair: a schedule that fires every fifteen minutes for ever does not find the lock taken
each time it is free in between. None of this makes a request of the API happen, nor a
refusal or a failure; `DailyStepsRecur` names those as the only ways in which the daily
steps may be put off for ever.

`Objectives`, `Adoption`, `History`, `Board`, `Access` and `ToolCalls` state no
liveness: what they answer for is done by people, or by passes whose progress `Passes`
has. Their cfgs switch the deadlock check off because they stop where their bounds do.

## What is proved

`Binding_proofs`, for every set of initiatives and tasks, every threshold and
any number of edits, passes and failures:

* `TypeCorrect`: `Spec => []TypeOK`;
* `MadeStaysAnchored`: `Spec => []MadeIsAnchor`, from `BindingInvariant`;
* `AdoptionMakesNothing` and `ReadBindingsAreKept`: the two action properties;
* `ThresholdHolds`: `Spec => []CreatesWithinThreshold`;
* `QuietPassesSettle`: `QuietSpec => []QuietPassSettles`.

`MadeIsAnchor` alone is not inductive: between the read of an initiative and the
bind of its task lie four reads by the pass and any number of handlers. `BindingInv`
adds what is true in between: an initiative the read found unanchored has no
*firm* task (one that is neither lost nor released) (`UnanchoredHasNoTask`); so
has every initiative with a planned operation (`PlannedHasNoTask`); the create in
hand has made exactly one (`BegunHasOneTask`); and captures run last, when no
create is left to disturb (`PassIsOrdered`). Handlers keep all of this because
they take an anchor away only by releasing its task, and never make one firm.

The action properties rest on `GuardsInv`: what is planned is what the read
showed, origins do not change (`OriginsAreFixed`), and a task that is not made
yet is nobody's (`NobodyHasTheUnborn`).

The threshold is counted in two parts: what was made and what is left to make
(`BudgetInv`). A plan is carried out only if its creates are within the threshold, and
each attempt, lost and refused ones included, takes one from what is left before it
adds one to what is made. Counting needs finitely many initiatives (`RowsAssumption`).

That a quiet pass settles takes three facts (`QuietInv`): its reads agree with each
other and with the database as it still is; whatever is *due* (a task to make, a link
to bind, a label to capture) is in the plan or in hand (`DueIsPlanned`); and no
initiative has two operations to anchor it (`OneOperationEach`). Carrying one operation
out then takes care of what it was for and leaves the rest due as before, so that nothing
is due when the plan is empty. A created task carries the anchor's label and would be
captured in turn: it is not, since it is bound before the pass ends. Nor does a task
just made, or a row just captured, bring a link with it (`LinksStand`, an invariant of
`Spec`).

`AnchorSync_proofs`, for every set of fields, values and subtasks: `TypeCorrect`,
`RecordsAreAccepted`, `ConflictsAreEdits`, `OverridesAreLogged` and
`HandSetSurvives`. The argument has two halves. The first is about plans
alone: each action sends a field once and records what it sends (`PlanProper`), and
no two actions of a plan record one field (`PlanDisjoint`). The second, `SyncInv`
(`Inductive`), follows the actions through their steps: these facts stay true of
what is left (`PlanIsSound`, `OneWriter`); what was sent and awaits its record is
ours, and stands in the tool unless somebody edited it since (`SentIsOurs`); and
`last_applied` says what stands there, but for edits and lost records
(`LastIsTrue`). So where the two differ there was an edit, or a write whose record
was lost. The label is left out throughout: its record is a mere "present".

`CreationLedger_proofs`, for every set of entities, intents, objects and titles:
`TypeCorrect`, `ReferencesHold`, `SectionsStayHome`, `DoneStaysDone`, and
`MadeOnce`, which is `Spec => Once!Spec`. A pass acts on a copy of the rows while
handlers go on writing the rows themselves, so all five rest on `ReadIsTrue`: what
the copy says is outstanding still is, and what it says is done is done and names
that object, because a handler changes no done row and closes no open one.
`LedgerInv` adds that only sections wait, and for their own entity's project
(`PrerequisitesAreOwn`), that the attempt in hand has its own intent's object
(`AttemptIsOurs`), that keyed intents have one object each (`OneEach`), and that
columns, done rows and the projects the pass read are held by their entities
(`ColumnsHold`, `DoneHold`, `ReadProjectsHold`), a promoted capture's task apart.
Holders lose an object in no other way (`HoldersStay`). For the refinement
handlers `Ask`, an attempt at a keyed intent that has no object does `Make`, its record
does `Know`, and every other step, all of them about pages included, stutters.

`Passes_proofs` begins with the lock, for every set of processes, sessions and runs:
`TypeCorrect` and `Exclusion` (`ProcessesExclude`). The invariant says that the
sessions that hold the lock are one at most, and that a process with a run that
is not bereft holds it.

It goes on with the passes, for any day and any window: `ImplementsLock`,
which is `PassSpec => Spec` of `AdvisoryLock` with the lock's own variables, step by
step; `PassesExclude`, carried over by it; and `CursorAdvances`. The last rests on
`PassInv`: a run that is not counted as `beside` another is the only one that is at
its pass (`AloneUnlessBeside`), so that the mark it has in hand is no older than the
cursor (`MarkIsNoOlder`), since the cursor is only moved by passes, and by time,
which ages both.

Last comes the adoption scan, for any snapshots of the tools, any likenesses and any
number of requests: `AdoptionTypeCorrect`, `BulkIgnoreIsExact`, `RitualsHonourLinks`,
`ProposalsNameOne` and `KeepsTakeaways`. `AdoptionInv` is the shape of what a scan and a
request carry from step to step, and that a confirmed bulk ignore still carries what was
shown. A ritual's link is kept with the reference that makes it one, because each
transaction that takes a task away takes both (`LinkStep`). The search for the most
alike title finds the target that is more alike than every other, or none, in whatever
order it meets them (`BestFuzzyIs`, by induction over what it has gone through); and
each rule finds the foremost target if the stronger rules found none
(`RulesFindForemost`): where two targets share a folded title, neither a weaker form nor
a likeness tells them apart. All titles a scan compares are those of the tools and of
the entities (`TitlesOK`). And once a scan has read a store, every takeaway it mirrors
was seen there or has been noted as lacking (`SeenStep`), which is all its mirror may
forget. The types include that each object has one row in the queue and in the mirror,
because its key names it among all that one scan reads (`KeysNameObjects`).

`Objectives_proofs`, for every set of objectives, pages, columns and periods:
`TypeCorrect`, `Judgements`, `Conflicting` and `QuietPassesSettle`. The first two are
about a step that acts on what an earlier one read. `CarriedOK` says what each stage of
a pass carries; `OneActionEach`, that a page has one action of a plan at most;
`AppliedStands`, that `last_applied` is what stands in the column written last but for
edits and unrecorded writes; and `NotedStands`, the same of the write that waits for its
record. A page whose content differs from its record was therefore edited, is
unrecorded, or is looked at in another column. A judgement stands because `ApplyStep`
writes only over the status it read, and no step leads out of a judged one.

That a quiet pass settles is proved part by part (`QuietInv`). The figures it records are
those of the links and the pages as they still are (`FiguresAreRead`). The steps it has
to take are exactly those the windows ask for (`StepsAreTodo`): a step leads to where the
next one of the same objective begins (`StepsGoOn`), and where none is asked for the
status is the window's (`NoStepsLeft`, from the order of the days). Whatever is due on a
page is in the plan, and a page that is planned is one objective's alone
(`DatesArePlanned`), so a write takes care of its own page and makes nothing due
elsewhere. A later part touches nothing that an earlier one settled.

`History_proofs`, for every finite set of tasks, any range of days and any span of
windows, weeks and periods: `TypeCorrect`, `GapsAreCaused`, `RewritesAreWhole`,
`AdherenceIsTheLists` and `CompletionsAreStoredOnce`. The first property needs to know
where a run stands to what is claimed. A run reads from its claim on or from inside the
coverage (`FetchInv`); unless a cause is named, it never reads beyond the coverage's
end, and claims nothing unread until its first window is recorded (`ReachInv`); and the
cursor never claims what is to come (`ClockInv`). Then each window recorded joins on to
what was read, and only days that the run has still to read can be claimed unread. The
second needs the arithmetic of weeks (`WeekStartFacts`, `WeekStartMonotone`,
`WeekStartInside`): the range a rewrite deletes and inserts is a union of whole weeks,
so what it inserts lies in what it deleted and no sum reaches across its edge.
`RewriteInv` adds that what a run has loaded is what is stored of the tasks it
attributes, and that each week's total is the length of the list beneath it.

That a completion is stored once needs what a stretch of the log can leave standing. A
one-off task's log alternates completions and un-completions (`RecordsInv`), so at most
one completion of any stretch stands (`OneStands`, over a fold that is first proved to
exist, `FoldExists`). The page of completed tasks is read back by the margin, so an entry
that the log reported late finds the log's own event in the same read (`EntriesInv`); it
is paired with it there, and of the two instants only one is ever a row (`RowsInv`).
That the margin is at least the skew of the two stamps is what it takes.

`Api_proofs` on `Access`, for every set of tokens, scopes, replicas and requests, and
any times to live: `TypeCorrect`, `CachesStayBounded`, `RevocationHolds` and
`FreezeHolds`. `AccessInv` says phase by phase what is known of a request
(`AboutRequest`). A request that came in under a revoked or expired token shows it in
the row it reads, which is read on every request and after it came in (`Shows`); a cache
holds for each credential whether *that* secret is right, once, and no row (`Sound`). A
copy of the switch, in a replica's cache or in a request's hand, lets through only what
was frozen no earlier than the copy was asked for (`Covers`); a copy that is served is
younger than its time to live, so what it lets through either came in, or was frozen,
less than that ago.

`Api_proofs` on `Board`, for any number of initiatives, any areas, weights, sizes and
calendar, and every sequence of edits and days: `BoardsStayAcyclic`, `CyclesAreReal`,
`PlacementsFit`, `SlackTellsOfDeadlines`, `MovesAreExplained` and `ProposalsStand`. The
algorithms are recursive functions and folds, and the prover takes no induction over
data; so the induction is proved first, as a fact about sets (`Induction`, from the
pigeonhole principle: a set with 0 and all successors that left out n would inject 0 ..
n into 0 .. n - 1), and with it that what a recursive definition or a fold defines
exists. Then:

* *The calendar* (`CalendarIsWorked`): no search for a working day comes to its end empty,
  since each of one more week than there are holidays has a day of the working week, and
  they cannot all be holidays.
* *The forward pass* (`BoardPlansFit`) is an invariant of its steps: what is placed is
  what waits on nothing unplaced, each placement fits with those before it, and the
  days something ends are all that need be tried for a start.
* *The backward pass* (`SlackShows`): along the reversed order each latest finish is what
  the deadlines downstream leave, and adding and taking off working days are inverse
  up to days that are not worked.
* *A move* (`MoveIsExplained`) compares two forward passes turn by turn: until the turn
  of the moved initiative, and in areas nothing of it reaches, both place the same.
* *The gate* (`FindCycleIs`, `GateIsExact`): the path is of initiatives being visited, what is
  done waits only on what is done, and every step takes from the work that is left; so
  the walk ends, and without a cycle only if there is none.
* *The ranking* (`ScoresRank`): not to be less is transitive of ratios with positive
  denominators, so comparing scores and then cost, size and id is a strict order
  (`TieBreak`), and sorting by it names everybody scored once. It reads no status
  but whether a row is open, so accepting a selection does not reorder it (`SameRanking`).
* *The selection* (`SelectionFills`): the fold is a walk down the ranking, each reason
  is the one given when its initiative was reached, and the set only grows (`NowGrows`).
  A full set or area therefore stays full, one found to have room is never overfilled
  (`LimitsKeep`), and the second walk finds at each turn either somebody in flight or
  somebody passed over for the same reason, or for the other limit (`PassedOverAgain`).

`PlanFits` and the others are stated of boards without a cycle, and `BoardsStayAcyclic` is
what makes every board one, from the acyclic boards one starts with.

`ToolCalls_proofs`, for every set of calls, callers, initiatives, reviews, takeaways and
confirmations: `TypeCorrect`, `ShownIsExecuted`, `ProposalHolds` and `ClosedHolds`.
A confirmation's digest is of what it showed and, until it is spent, it ran nothing
(`Issued`). So a call whose own plan has that digest runs what was shown, and of two
calls that present one key the second finds it spent. Of a proposal
nobody disturbed, the moves that are left lead from where the initiatives stand to the
proposed set, for every initiative that is in it or was ranked when the plan was made anew
(`Leads`), whichever of them are made first.

Assumptions: the constants' own (`IdentitiesAssumption`, `RowsAssumption`,
`SettingsAssumption`, `FieldsAssumption`, `SlotsAssumption`, `NamesAssumption`,
`PoolAssumption`, `PassesAssumption`, `WindowsAssumption`, `ScopeAssumption`,
`StatusAssumption`, `TimesAssumption`, the two named `SpansAssumption`,
`KnownAssumption`, `SnapshotAssumption`, `TitlesAssumption`, `BoundsAssumption`,
`LikenessAssumption`, `WeekAssumption`, `CalendarAssumption`, `DurationAssumption`,
`ConcurrentAssumption`, `WeightsAssumption`, `ScoringAssumption`, `BoardAssumption`),
which TLC evaluates in every run that has them. They say what kind of thing each
constant is, that the sets which are counted are finite, that spans are positive where
the code's are, and that the value which stands for "none" is none of the others.
`SnapshotAssumption` says that an id names one object of its tool; `TitlesAssumption`,
that any two titles can be compared and that two that are the same exactly are the same
when folded (which a list marker written with the Kelvin sign would escape, since
folding looks for markers before it composes); `LikenessAssumption`, that a form is as
like itself as can be, or like nothing, as the empty one is; `BoardAssumption`, that a
board starts without a cycle; `CalendarAssumption`, that a search for a working day goes
further than the holidays could fill, as the code's `MAX_SEARCH_DAYS` of 3660 does with
up to 521 of them. `Binding`, `AnchorSync`, `CreationLedger` and `Objectives` assume one
pass at a time; `Passes` says when that is so.

Only model-checked:

* liveness (`LinkHonoured`, `ActiveIsAnchored`, `Converges`, `Drained`,
  `DailyStepsRecur`), which is out of the prover's reach.

Every other property of a passing run is a theorem. The type invariants of `Access`,
`Adoption`, `ToolCalls` and `History` are proved and are not among the runs.

## What the code does not keep

Two statements of the repository are refuted by a run; `PROJECT.json` quotes the lines.

* `one_initiative_per_task`: two initiatives come to be anchored to one task.
* `preview_is_kept`: a previewed move is saved, nothing else changes, and the plan is
  not the one that was shown. The preview places the moved initiative first in its
  area; the plan that is served afterwards does not know that it was moved.

The models, or reading the code for them, showed more. None of the following is
replayed by a run.

*Passes.* A lost answer makes a second task for an initiative. One plan restores the
anchor label and consumes a status request, each from the labels the pass read: the
second write takes the label off again, and the next pass reports a conflict nobody made
(`plan.ts:1141`). An edit of a field prisme owns, made between a pass's read and its
write, is written over and never reaches the ledger (`apply.ts:212`), where section 8 of
`docs/16-sync.md` has one for every such edit. A subtree applied in part is left so,
since the parent's record says it is done. The transaction that records a creation can
throw out of the pass (a title used twice), and will in every later one. A retried
request makes two pages. `in_sync` pages never repair a lost record, so the next edit
counts as a conflict; and a failure between `recordLastApplied` and `recordConflict`
loses the hand edit from the ledger. Two runs of one process overlap, because the lock
is re-entrant and the pool may give both the same session (`lock.ts:34`, against section
6 of `docs/16-sync.md`); the migrations lock is taken through such a pool too. A field
prisme never wrote, edited by hand, is restored without a conflict (`plan.ts:162`;
section 8 of `docs/16-sync.md` has one).

*The order of a day.* `POST /sync` neither drains the ledger nor takes the daily steps,
though its full pass counts as the day's (`docs/13-migration.md:159`,
`docs/19-how-it-works.md:306`). A frozen or refused pass saves no cursor, so every pass
after it is full and does the daily steps, four times an hour where `main.ts` says
"about once a day". The process that ends after `saveCursor` loses the day's steps.
`docs/16-sync.md:49` says "first run of the day", the code 24 hours. `saveCursor` writes
the whole row. Drift counts prisme's own outstanding updates.

*Objectives and history.* Another date column is chosen, and the next pass takes what
the new column holds for a hand edit, since what prisme wrote into the one before is
recorded under the page alone (`objective-pages/plan.ts:198`, against the table at
`:28`). `recordSuccess` goes by id alone and records the old page's figure after a
relink. Applying a step compares the status and not the period. `okr.ts` checks that an
objective is open and then writes whatever it has become. The backfill's cursor claims
days never read where a run resumes before what it has (`slices.ts:118-133`, against
`backfill/run.ts:153`). The daily refresh overwrites the adherence of a month, quarter
or year with its own few days. A completion taken back stays stored.

*Adoption.* Two clicks on a candidate make two entities. `assertOneSource` checks and
then acts. A takeaway may be deleted from the mirror between the
two writes of its promotion, and the initiative then has no takeaway behind it. A store
that could not be read has its candidates vanish until the next scan. Titles of nothing
but punctuation all fold to the empty form, and one may be proposed as another of its
kind and area; `title.ts:67-69` keeps a title that is all numbering from just that.

*API and pages.* `propose_now_set` says that whatever is at now and not named moves to
next (`mcp/tools/writes.ts:381`). It looks for that in the ranking, where an initiative
of the run, of signals or of an inactive area is not found, and so stays at now. A read
in flight overwrites a switch that was just engaged with the old position. Two confirmed
calls may lose a decision of a review (`writes.ts:650`, where `:576` merges). `sweep`
and `deleteExpiredConfirmations` are never called. `putBinding` and `checkBindings`
read, wait and put back the whole record. The selection of what to do now takes the
highest score where `docs/12-scoring.md:195,212` speak of anchor priorities.
`docs/18-user-guide.md:412` says that dragging only previews and "nothing is saved from
it"; the page has an Apply.

*Creations.* A page retitled in prisme or renamed in the tool after a lost answer is made
again, since its title was its key. A link made while a creation is pending is
overwritten by the creation's record. A draft changed during a pass is recorded done as
the pass had read it. As many intents as the cap, failing for ever, starve those after
them.

## Not modelled, and the plan

Left out of the modules above: the roll-up and its mirror, `adopt_deadline`, nested
subtasks (the subtree is treated level by level alike), tokens of partial syncs, drift
and the run-state row, which only measure, and the texts of plan lines and events; in
`Board` the scenarios, the year's view and the scoring formulas that are not the
default; in `Access` the rate limit, the first person's bootstrap and the cryptography
of assertions; in `ToolCalls` the tools that write one row in one statement; in
`Objectives` a chosen column that is taken out of the store, whose pages are then left
alone; in the connectors the paging and the mapping of payloads. The two tools
themselves, PostgreSQL's locks, indexes and transactions, and the identity provider are
modelled from how the code uses them.

Not modelled at all: the migrations runner, configuration, observability and the web
pages other than the Timeline's. The pages are forms and views, each over one route, and
with their contracts they are the larger part of the repository, as are the mappings
between rows, contracts and views in the API: code without a state of its own, in
which nothing happens between two steps. That is why the mapped lines are a small
share of all.

What comes next, in this order:

1. key-result anchors beneath their objective's task, and the fields of that task,
   composed with `Binding` over `holder`;
2. `Binding` and `CreationLedger` composed over one `entity_external_ref`, with
   `Elsewhere` replaced by the other module's steps;
3. the roll-up and its mirror, and the settings' bindings;
4. the migrations runner.
