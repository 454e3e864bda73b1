-------------------------------- MODULE Passes -------------------------------
(***************************************************************************)
(* The runs of AdvisoryLock, from the inside: the reconciler passes of the *)
(* CronJob and of POST /sync, and what shares their lock (plans, adoption  *)
(* scans, backfills, the ledger on its own).  A pass remembers the cursor  *)
(* row it read at its start, and puts the whole row back at its end.  The  *)
(* last full pass in it decides which pass is the daily one, and only the  *)
(* CronJob's passes go on to the daily one's last steps.                   *)
(*                                                                         *)
(* Instants are ages: how long ago, a day or more and never being the      *)
(* same.  The row's other half, the task tool's token, only measures       *)
(* drift, and is left out, as is the row that records each pass's outcome. *)
(***************************************************************************)
EXTENDS AdvisoryLock

CONSTANTS
    Scheduled,    \* the runs of the prisme-sync binary; the others are the API's
    KindsOf,      \* what each run may be started as
    Day,          \* the ticks of the clock in a day
    WindowStart,  \* the sync window, in ticks of the day
    WindowEnd,
    WriteEnabled

Kinds == {"pass", "full pass", "other"}

ASSUME PassesAssumption ==
    /\ Scheduled \subseteq Runs
    /\ KindsOf \in [Runs -> SUBSET Kinds]
    /\ Day \in Nat \ {0, 1}
    /\ WindowStart \in Nat /\ WindowEnd \in Nat
    /\ WriteEnabled \in BOOLEAN

VARIABLES
    hour,   \* the clock's tick of the day
    cursor, \* the last full pass of sync_cursor
    pass,   \* what each run in progress remembers
    beside  \* history: runs that ran beside another for a reason of the lock

passVars == <<vars, hour, cursor, pass, beside>>

Ages == 0..Day

Stages == Kinds \cup {"idle", "read", "saved", "over"}

\* `full` says what the pass is, `mark` what it will write as last full pass.
Fresh(stage) == [stage |-> stage, full |-> FALSE, mark |-> Day]

PassTypeOK ==
    /\ hour \in 0..(Day - 1)
    /\ cursor \in Ages
    /\ pass \in [Runs -> [stage : Stages, full : BOOLEAN, mark : Ages]]
    /\ \A r \in Runs : pass[r].stage = "idle" <=> r \notin running
    /\ beside \subseteq running

PassInit ==
    /\ Init
    /\ hour = 0
    /\ cursor = Day
    /\ pass = [r \in Runs |-> Fresh("idle")]
    /\ beside = {}

-----------------------------------------------------------------------------
(* Time. *)

Older(age) == IF age = Day THEN Day ELSE age + 1

\* shouldRunNow.
InWindow == WindowStart <= hour /\ hour < WindowEnd

IsFullPassDue(age) == age = Day

Tick ==
    /\ hour' = (hour + 1) % Day
    /\ cursor' = Older(cursor)
    /\ pass' = [r \in Runs |-> [pass[r] EXCEPT !.mark = Older(@)]]
    /\ UNCHANGED <<vars, beside>>

-----------------------------------------------------------------------------
(* Starting a run. *)

\* Those a run of r finds at work without the lock being at fault: they lost
\* theirs, or they are its own process's, whose session may take it again.
Company(r) == {q \in running : q \in bereft \/ ProcessOf[q] = ProcessOf[r]}

\* Only the CronJob's pass honours the window; a command is somebody's own.
\* Both are a process of their own, with a pool of its own.
MayStart(r, kind) ==
    /\ kind \in KindsOf[r]
    /\ r \in Scheduled =>
          /\ kind = "pass" => InWindow
          /\ \A s \in Sessions : PoolOf[s] = ProcessOf[r] => depth[s] = 0

Starts(r, kind) ==
    /\ MayStart(r, kind)
    /\ \E s \in Sessions : Acquire(r, s)
    /\ pass' = [pass EXCEPT ![r] = Fresh(kind)]
    /\ beside' = IF Company(r) = {} THEN beside ELSE beside \cup Company(r) \cup {r}
    /\ UNCHANGED <<hour, cursor>>

-----------------------------------------------------------------------------
(* The steps of a pass.  The objectives' steps and the ledger come before  *)
(* the cursor is read, the objectives' pages after the outcome is          *)
(* recorded: they are Objectives' and CreationLedger's, and change nothing *)
(* here.                                                                   *)

Reaches(r, from, now) ==
    /\ r \in running
    /\ pass[r].stage = from
    /\ pass' = [pass EXCEPT ![r] = now]
    /\ UNCHANGED <<vars, hour, beside>>

\* Mutation of Mark: a pass that is not full remembers no full pass.
MarkOfThisPass(full) == IF full THEN 0 ELSE Day

\* Mutation of Mark: every pass counts as a full one.
MarkAlways(full) == 0

\* What a pass will write as the last full pass: its own start, or the rest of
\* the row as it found it.
Mark(full) == IF full THEN 0 ELSE cursor

\* loadCursor, and what kind of pass it makes of this one.
ReadCursor(r, kind) ==
    LET full == kind = "full pass" \/ IsFullPassDue(cursor)
    IN  /\ Reaches(r, kind, [stage |-> "read", full |-> full, mark |-> Mark(full)])
        /\ UNCHANGED cursor

\* fetchAll, plan, and apply to its end or to a rejected credential.
SaveCursor(r) ==
    /\ WriteEnabled
    /\ Reaches(r, "read", [Fresh("saved") EXCEPT !.full = pass[r].full])
    /\ cursor' = pass[r].mark

\* The plan makes more than the threshold, or writes are frozen: no cursor is
\* saved, and the pass goes on.
Refuse(r) ==
    /\ Reaches(r, "read", [Fresh("saved") EXCEPT !.full = pass[r].full])
    /\ UNCHANGED cursor

IsDaily(r) == r \in Scheduled /\ pass[r].full

\* recordPassOutcome and the objectives' pages; then, in a full pass of the
\* CronJob, refreshCapacity, scanAdoption and pruneWriteAudit, each of them
\* tried whatever becomes of the others.
DailySteps(r) ==
    /\ IsDaily(r)
    /\ Reaches(r, "saved", Fresh("over"))
    /\ UNCHANGED cursor

EndsWithoutThem(r) ==
    /\ ~IsDaily(r)
    /\ Reaches(r, "saved", Fresh("over"))
    /\ UNCHANGED cursor

\* A plan, a scan, a backfill or the ledger alone: none writes the cursor.
RunOther(r) ==
    /\ Reaches(r, "other", Fresh("over"))
    /\ UNCHANGED cursor

-----------------------------------------------------------------------------
(* The end of a run, well or badly, and what befalls its session. *)

Forget(gone) ==
    /\ pass' = [r \in Runs |-> IF r \in gone THEN Fresh("idle") ELSE pass[r]]
    /\ beside' = beside \ gone
    /\ UNCHANGED <<hour, cursor>>

\* It returns, or throws: each of the daily steps is caught by itself, but what
\* comes before them is not.
Ends(r) ==
    /\ pass[r].stage = "over"
    /\ Finishes(r)
    /\ Forget({r})

Throws(r) ==
    /\ pass[r].stage # "over"
    /\ Finishes(r)
    /\ Forget({r})

LeavesLock(r) ==
    /\ UnlockFails(r)
    /\ Forget({r})

LosesSession(s) ==
    /\ IdleTimeout(s)
    /\ UNCHANGED <<hour, cursor, pass, beside>>

Dies(p) ==
    /\ ProcessEnds(p)
    /\ Forget(PoolRuns(p))

-----------------------------------------------------------------------------

\* What a run does next when nothing goes wrong.
Proceeds(r) ==
    \/ \E kind \in {"pass", "full pass"} : ReadCursor(r, kind)
    \/ SaveCursor(r) \/ DailySteps(r) \/ EndsWithoutThem(r) \/ RunOther(r)
    \/ Ends(r)

PassNext ==
    \/ Tick
    \/ \E r \in Runs :
          \/ \E kind \in Kinds : Starts(r, kind)
          \/ Proceeds(r)
          \/ Refuse(r) \/ Throws(r) \/ LeavesLock(r)
    \/ \E s \in Sessions : LosesSession(s)
    \/ \E p \in Processes : Dies(p)

PassSpec == PassInit /\ [][PassNext]_passVars

\* The clock goes on, a run goes on, a pod exits after its run, a session that
\* nobody uses is closed, and a schedule that fires for ever is not always
\* refused the lock.
PassFairness ==
    /\ WF_passVars(Tick)
    /\ \A r \in Runs : WF_passVars(Proceeds(r) \/ Refuse(r))
    /\ \A r \in Scheduled : WF_passVars(r \notin running /\ Dies(ProcessOf[r]))
    /\ \A s \in Sessions : WF_passVars(LosesSession(s) /\ PoolRuns(PoolOf[s]) = {})
    /\ \A r \in Scheduled : SF_passVars(Starts(r, "pass"))

FairPassSpec == PassSpec /\ PassFairness

-----------------------------------------------------------------------------
(* What the passes promise. *)

\* saveCursor puts back the whole row as its pass read it.  The last full pass
\* does not go back for it, unless the pass ran beside another that lost its
\* lock or is of its own process.
CursorGoesForward ==
    [][\A r \in Runs \ beside : SaveCursor(r) => cursor' <= cursor]_passVars

\* A run is over before its time, or its cursor is not saved.
Disturbance ==
    \E r \in running :
       \/ pass[r].stage # "over" /\ r \notin running'
       \/ pass[r].stage = "read" /\ pass'[r].stage = "saved" /\ cursor' # pass[r].mark

\* A run that is not the CronJob's own pass.
OtherStarts ==
    \E r \in Runs, kind \in Kinds :
       ~(r \in Scheduled /\ kind = "pass") /\ Starts(r, kind)

\* A full pass of the API resets the day's clock without the last steps of the
\* day, and any run may hold the lock.  Left to the CronJob, the daily steps
\* recur, unless its passes are cut short or refused again and again.
DailyStepsRecur ==
    \/ []<><<\E r \in Runs : DailySteps(r)>>_passVars
    \/ []<><<OtherStarts>>_passVars
    \/ []<><<Disturbance>>_passVars

=============================================================================
