----------------------------- MODULE AdvisoryLock ----------------------------
(***************************************************************************)
(* withAdvisoryLock: what keeps two reconciler passes apart.               *)
(*                                                                         *)
(* A process (the CronJob's pod, the API) has a pool of database sessions, *)
(* and each statement runs on whichever session of the pool is free.  The  *)
(* lock is PostgreSQL's session-level advisory lock, which belongs to the  *)
(* session that asked, may be taken again by that same session, and goes   *)
(* with the session when it is closed.  A run asks for it once, does its   *)
(* work, and gives it back with a statement of its own.                    *)
(*                                                                         *)
(* The pool and PostgreSQL are not this repository's; they are modelled    *)
(* from how lock.ts and client.ts use them.                                *)
(***************************************************************************)
EXTENDS Naturals, FiniteSets

CONSTANTS
    Processes,
    Sessions,  \* the sessions of every pool, open or not
    PoolOf,    \* the process each session serves
    Runs,      \* passes and adoption scans
    ProcessOf, \* the process each run is part of
    MaxDepth   \* bound on how often one session takes the lock

ASSUME PoolAssumption ==
    /\ PoolOf \in [Sessions -> Processes]
    /\ ProcessOf \in [Runs -> Processes]
    /\ MaxDepth \in Nat \ {0}

VARIABLES
    depth,   \* how often each session holds the lock
    running, \* the runs inside withAdvisoryLock's fn
    bereft   \* history: running runs whose process lost the lock under them

vars == <<depth, running, bereft>>

TypeOK ==
    /\ depth \in [Sessions -> 0..MaxDepth]
    /\ running \subseteq Runs
    /\ bereft \subseteq running

Init ==
    /\ depth = [s \in Sessions |-> 0]
    /\ running = {}
    /\ bereft = {}

-----------------------------------------------------------------------------
(* PostgreSQL. *)

MayLock(s) == \A u \in Sessions \ {s} : depth[u] = 0

\* pg_advisory_unlock by a session that does not hold it is only a warning.
Released(s) == IF depth[s] = 0 THEN 0 ELSE depth[s] - 1

PoolRuns(p) == {r \in running : ProcessOf[r] = p}

-----------------------------------------------------------------------------
(* A run, from a session of its process's pool. *)

\* Mutation of Acquire: the answer of pg_try_advisory_lock is not looked at.
AcquireUnasked(r, s) ==
    /\ r \notin running
    /\ PoolOf[s] = ProcessOf[r]
    /\ depth[s] < MaxDepth
    /\ depth' = [depth EXCEPT ![s] = @ + 1]
    /\ running' = running \cup {r}
    /\ UNCHANGED bereft

\* A run that is refused ends without having done anything.
Acquire(r, s) ==
    /\ r \notin running
    /\ PoolOf[s] = ProcessOf[r]
    /\ MayLock(s)
    /\ depth[s] < MaxDepth
    /\ depth' = [depth EXCEPT ![s] = @ + 1]
    /\ running' = running \cup {r}
    /\ UNCHANGED bereft

\* The finally block: the unlock runs on a session of the pool's choosing.  A
\* run whose own lock is gone gives back that of another run of its process.
Finish(r, s) ==
    /\ r \in running
    /\ PoolOf[s] = ProcessOf[r]
    /\ depth' = [depth EXCEPT ![s] = Released(s)]
    /\ running' = running \ {r}
    /\ bereft' = IF r \in bereft /\ depth[s] > 0
                 THEN (bereft \cup PoolRuns(PoolOf[s])) \ {r}
                 ELSE bereft \ {r}

\* The statement fails, and the lock stays where it is.
UnlockFails(r) ==
    /\ r \in running
    /\ running' = running \ {r}
    /\ bereft' = bereft \ {r}
    /\ UNCHANGED depth

\* A session nobody used for idle_timeout is closed, whatever it holds.
IdleTimeout(s) ==
    /\ depth[s] > 0
    /\ depth' = [depth EXCEPT ![s] = 0]
    /\ bereft' = bereft \cup PoolRuns(PoolOf[s])
    /\ UNCHANGED running

\* The pod ends, or the process dies: its sessions and runs go with it.
ProcessEnds(p) ==
    /\ depth' = [s \in Sessions |-> IF PoolOf[s] = p THEN 0 ELSE depth[s]]
    /\ running' = running \ PoolRuns(p)
    /\ bereft' = bereft \ PoolRuns(p)

Finishes(r) == \E s \in Sessions : Finish(r, s)

Next ==
    \/ \E r \in Runs, s \in Sessions : Acquire(r, s)
    \/ \E r \in Runs : Finishes(r) \/ UnlockFails(r)
    \/ \E s \in Sessions : IdleTimeout(s)
    \/ \E p \in Processes : ProcessEnds(p)

Spec == Init /\ [][Next]_vars

-----------------------------------------------------------------------------
(* What the lock promises. *)

\* Runs of different processes never overlap while no session that holds the
\* lock is closed under them, though a process may hold it several times over
\* and give it back on a session that never had it.
ProcessesExclude ==
    \A r, q \in running \ bereft : ProcessOf[r] = ProcessOf[q]

=============================================================================
