---------------------------- MODULE Passes_proofs ----------------------------
(***************************************************************************)
(* Proofs about what runs on the clock: AdvisoryLock and Passes, Adoption  *)
(* and TakeawaysLacked.                                                    *)
(*                                                                         *)
(* The lock: its types, and that processes exclude each other while their  *)
(* sessions last.  The argument is one of counting: one session at most    *)
(* holds the lock, and it holds it at least as many times as its process   *)
(* has runs that did not lose it, since a run takes it once and gives it   *)
(* back at most once, on whatever session.                                 *)
(*                                                                         *)
(* The passes: they implement the lock, so that they exclude each other as *)
(* its runs do, and the cursor goes forward.  The latter rests on the      *)
(* former: a run that ran beside no other has had the cursor to itself     *)
(* since it read it.                                                       *)
(*                                                                         *)
(* The adoption scan and its queue: the shape of what a scan, a request    *)
(* and a bulk ignore hold (AdoptionInv), one handler after the other, then *)
(* what a bulk ignore writes, the links of rituals, the proposals and the  *)
(* takeaways kept.                                                         *)
(***************************************************************************)
EXTENDS Passes, TakeawaysLacked, FiniteSetTheorems, SequenceTheorems, TLAPS

\* The runs of a process that count on the lock.
Safe(p) == PoolRuns(p) \ bereft

OneHolder ==
    \A s, u \in Sessions : depth[s] > 0 /\ depth[u] > 0 => s = u

Covered(p) ==
    \/ Safe(p) = {}
    \/ \E s \in Sessions :
          /\ PoolOf[s] = p
          /\ depth[s] > 0
          /\ Cardinality(Safe(p)) <= depth[s]

LockInv ==
    /\ TypeOK
    /\ IsFiniteSet(running)
    /\ OneHolder
    /\ \A p \in Processes : Covered(p)

-----------------------------------------------------------------------------
\* Every step leaves the types right: the lock's depth within its bound.
LEMMA TypeStep ==
  ASSUME TypeOK, [Next]_vars
  PROVE  TypeOK'
<1> USE PoolAssumption DEF TypeOK
<1>1. ASSUME NEW r \in Runs, NEW s \in Sessions, Acquire(r, s)
      PROVE  TypeOK'
  BY <1>1 DEF Acquire
<1>2. ASSUME NEW r \in Runs, Finishes(r)
      PROVE  TypeOK'
  <2>1. PICK s \in Sessions : Finish(r, s)
    BY <1>2 DEF Finishes
  <2>2. Released(s) \in 0..MaxDepth
    BY DEF Released
  <2> QED
    BY <2>1, <2>2 DEF Finish, PoolRuns
<1>3. ASSUME NEW r \in Runs, UnlockFails(r)
      PROVE  TypeOK'
  BY <1>3 DEF UnlockFails
<1>4. ASSUME NEW s \in Sessions, IdleTimeout(s)
      PROVE  TypeOK'
  BY <1>4 DEF IdleTimeout, PoolRuns
<1>5. ASSUME NEW p \in Processes, ProcessEnds(p)
      PROVE  TypeOK'
  BY <1>5 DEF ProcessEnds, PoolRuns
<1>6. CASE UNCHANGED vars
  BY <1>6 DEF vars
<1> QED
  BY <1>1, <1>2, <1>3, <1>4, <1>5, <1>6 DEF Next

\* The runs at work are always finitely many: each step adds one at most.
LEMMA FiniteStep ==
  ASSUME IsFiniteSet(running), [Next]_vars
  PROVE  IsFiniteSet(running')
<1>1. ASSUME NEW r \in Runs, NEW s \in Sessions, Acquire(r, s)
      PROVE  IsFiniteSet(running')
  BY <1>1, FS_AddElement DEF Acquire
<1>2. ASSUME running' \subseteq running
      PROVE  IsFiniteSet(running')
  BY <1>2, FS_Subset
<1> QED
  BY <1>1, <1>2 DEF Next, Finishes, Finish, UnlockFails, IdleTimeout,
                    ProcessEnds, PoolRuns, vars

\* PostgreSQL grants the lock to one session at a time.
LEMMA OneHolderStep ==
  ASSUME TypeOK, OneHolder, [Next]_vars
  PROVE  OneHolder'
<1> USE PoolAssumption DEF TypeOK, OneHolder
<1>1. ASSUME NEW r \in Runs, NEW s \in Sessions, Acquire(r, s)
      PROVE  OneHolder'
  BY <1>1 DEF Acquire, MayLock
<1>2. ASSUME \A s \in Sessions : depth'[s] > 0 => depth[s] > 0
      PROVE  OneHolder'
  BY <1>2
<1>3. ASSUME NEW r \in Runs, NEW s \in Sessions, Finish(r, s)
      PROVE  OneHolder'
  BY <1>3, <1>2 DEF Finish, Released
<1>4. ASSUME NEW s \in Sessions, IdleTimeout(s)
      PROVE  OneHolder'
  BY <1>4, <1>2 DEF IdleTimeout
<1>5. ASSUME NEW p \in Processes, ProcessEnds(p)
      PROVE  OneHolder'
  BY <1>5, <1>2 DEF ProcessEnds
<1> QED
  BY <1>1, <1>2, <1>3, <1>4, <1>5 DEF Next, Finishes, UnlockFails, vars

\* A process whose runs count on the lock no more than before, and whose
\* sessions still hold it as often, is covered still.
LEMMA StaysCovered ==
  ASSUME NEW p \in Processes,
         IsFiniteSet(running),
         TypeOK,
         Covered(p),
         Safe(p)' \subseteq Safe(p),
         \A s \in Sessions : PoolOf[s] = p => depth'[s] = depth[s]
  PROVE  Covered(p)'
<1>1. IsFiniteSet(Safe(p))
  BY FS_Subset DEF Safe, PoolRuns
<1>2. IsFiniteSet(Safe(p)') /\ Cardinality(Safe(p)') <= Cardinality(Safe(p))
  BY <1>1, FS_Subset
<1>3. Cardinality(Safe(p)') \in Nat /\ Cardinality(Safe(p)) \in Nat
  BY <1>1, <1>2, FS_CardinalityType
<1>4. CASE Safe(p) = {}
  BY <1>4 DEF Covered
<1>5. CASE Safe(p) # {}
  <2>1. PICK s \in Sessions : /\ PoolOf[s] = p
                              /\ depth[s] > 0
                              /\ Cardinality(Safe(p)) <= depth[s]
    BY <1>5 DEF Covered
  <2>2. depth'[s] = depth[s] /\ depth[s] \in Nat
    BY <2>1 DEF TypeOK
  <2>3. Cardinality(Safe(p)') <= depth'[s] /\ depth'[s] > 0
    BY <2>1, <2>2, <1>2, <1>3
  <2> QED
    BY <2>1, <2>3 DEF Covered
<1> QED
  BY <1>4, <1>5

\* Taking the lock: one more run, one more hold of the one session's.
LEMMA AcquireCovered ==
  ASSUME LockInv, NEW r \in Runs, NEW s \in Sessions, Acquire(r, s),
         NEW p \in Processes
  PROVE  Covered(p)'
<1> USE PoolAssumption
<1> USE DEF LockInv, Acquire
<1>1. IsFiniteSet(Safe(p))
  BY FS_Subset DEF Safe, PoolRuns
<1>2. CASE p # ProcessOf[r]
  <2>1. Safe(p)' = Safe(p)
    BY <1>2 DEF Safe, PoolRuns
  <2>2. \A u \in Sessions : PoolOf[u] = p => depth'[u] = depth[u]
    BY <1>2 DEF TypeOK
  <2> QED
    BY <2>1, <2>2, StaysCovered
<1>3. CASE p = ProcessOf[r]
  <2>1. Safe(p)' = Safe(p) \cup {r}
    BY <1>3 DEF Safe, PoolRuns, TypeOK
  <2>2. r \notin Safe(p)
    BY DEF Safe, PoolRuns
  <2>3. Cardinality(Safe(p)') = Cardinality(Safe(p)) + 1
    BY <1>1, <2>1, <2>2, FS_AddElement
  <2>4. depth[s] \in Nat /\ depth'[s] = depth[s] + 1
    BY DEF TypeOK
  <2>5. Cardinality(Safe(p)) <= depth[s]
    <3>1. CASE Safe(p) = {}
      BY <3>1, <2>4, FS_EmptySet
    <3>2. CASE Safe(p) # {}
      <4>1. PICK u \in Sessions : depth[u] > 0 /\ Cardinality(Safe(p)) <= depth[u]
        BY <3>2 DEF Covered
      <4>2. u = s
        BY <4>1 DEF MayLock
      <4> QED
        BY <4>1, <4>2
    <3> QED
      BY <3>1, <3>2
  <2>6. Cardinality(Safe(p)) \in Nat
    BY <1>1, FS_CardinalityType
  <2>7. depth'[s] > 0 /\ Cardinality(Safe(p)') <= depth'[s]
    BY <2>3, <2>4, <2>5, <2>6
  <2> QED
    BY <1>3, <2>7 DEF Covered
<1> QED
  BY <1>2, <1>3

\* Giving it back: one run fewer, and one hold fewer at most; where the run had
\* lost its own, nobody of its process counts on the lock any longer.
LEMMA FinishCovered ==
  ASSUME LockInv, NEW r \in Runs, NEW s \in Sessions, Finish(r, s),
         NEW p \in Processes
  PROVE  Covered(p)'
<1> USE PoolAssumption
<1> USE DEF LockInv, Finish
<1>1. IsFiniteSet(Safe(p))
  BY FS_Subset DEF Safe, PoolRuns
<1>2. Safe(p)' \subseteq Safe(p)
  BY DEF Safe, PoolRuns
<1>3. CASE p # ProcessOf[r] \/ depth[s] = 0
  <2>1. \A u \in Sessions : PoolOf[u] = p => depth'[u] = depth[u]
    BY <1>3 DEF TypeOK, Released
  <2> QED
    BY <1>2, <2>1, StaysCovered
<1>4. CASE p = ProcessOf[r] /\ depth[s] # 0 /\ r \in bereft
  <2>1. Safe(p)' = {}
    BY <1>4 DEF Safe, PoolRuns, TypeOK
  <2> QED
    BY <2>1 DEF Covered
<1>5. CASE p = ProcessOf[r] /\ depth[s] # 0 /\ r \notin bereft
  <2>1. r \in Safe(p) /\ Safe(p)' = Safe(p) \ {r}
    BY <1>5 DEF Safe, PoolRuns
  <2>2. Cardinality(Safe(p)') = Cardinality(Safe(p)) - 1
    BY <1>1, <2>1, FS_RemoveElement
  <2>3. PICK u \in Sessions : depth[u] > 0 /\ Cardinality(Safe(p)) <= depth[u]
    BY <2>1 DEF Covered
  <2>4. depth[s] \in Nat /\ depth[s] > 0
    BY <1>5 DEF TypeOK
  <2>5. u = s
    BY <2>3, <2>4 DEF OneHolder
  <2>6. depth'[s] = depth[s] - 1
    BY <1>5 DEF TypeOK, Released
  <2>7. Cardinality(Safe(p)) \in Nat
    BY <1>1, FS_CardinalityType
  <2>8. Cardinality(Safe(p)') <= depth'[s]
    BY <2>2, <2>3, <2>4, <2>5, <2>6, <2>7
  <2>9. CASE depth'[s] = 0
    <3>1. IsFiniteSet(Safe(p)') /\ Cardinality(Safe(p)') = 0
      BY <1>1, <1>2, <2>8, <2>9, FS_Subset, FS_CardinalityType
    <3>2. Safe(p)' = {}
      BY <3>1, FS_EmptySet
    <3> QED
      BY <3>2 DEF Covered
  <2>10. CASE depth'[s] # 0
    <3>1. depth'[s] > 0
      BY <2>4, <2>6, <2>10
    <3> QED
      BY <1>5, <2>8, <3>1 DEF Covered
  <2> QED
    BY <2>9, <2>10
<1> QED
  BY <1>3, <1>4, <1>5

\* The invariant behind ProcessesExclude is kept by every step.
LEMMA LockStep ==
  ASSUME LockInv, [Next]_vars
  PROVE  LockInv'
<1>1. TypeOK' /\ IsFiniteSet(running') /\ OneHolder'
  BY TypeStep, FiniteStep, OneHolderStep DEF LockInv
<1>2. ASSUME NEW p \in Processes
      PROVE  Covered(p)'
  <2> USE DEF LockInv
  <2>1. ASSUME NEW r \in Runs, NEW s \in Sessions, Acquire(r, s)
        PROVE  Covered(p)'
    BY <2>1, AcquireCovered
  <2>2. ASSUME NEW r \in Runs, Finishes(r)
        PROVE  Covered(p)'
    BY <2>2, FinishCovered DEF Finishes
  <2>3. ASSUME NEW r \in Runs, UnlockFails(r)
        PROVE  Covered(p)'
    <3>1. Safe(p)' \subseteq Safe(p)
      BY <2>3 DEF UnlockFails, Safe, PoolRuns
    <3> QED
      BY <2>3, <3>1, StaysCovered DEF UnlockFails
  <2>4. ASSUME NEW s \in Sessions, IdleTimeout(s)
        PROVE  Covered(p)'
    <3>1. CASE PoolOf[s] = p
      <4>1. Safe(p)' = {}
        BY <2>4, <3>1 DEF IdleTimeout, Safe, PoolRuns
      <4> QED
        BY <4>1 DEF Covered
    <3>2. CASE PoolOf[s] # p
      <4>1. Safe(p)' \subseteq Safe(p)
        BY <2>4 DEF IdleTimeout, Safe, PoolRuns
      <4>2. \A u \in Sessions : PoolOf[u] = p => depth'[u] = depth[u]
        BY <2>4, <3>2 DEF IdleTimeout, TypeOK
      <4> QED
        BY <4>1, <4>2, StaysCovered
    <3> QED
      BY <3>1, <3>2
  <2>5. ASSUME NEW q \in Processes, ProcessEnds(q)
        PROVE  Covered(p)'
    <3>1. CASE q = p
      <4>1. Safe(p)' = {}
        BY <2>5, <3>1 DEF ProcessEnds, Safe, PoolRuns
      <4> QED
        BY <4>1 DEF Covered
    <3>2. CASE q # p
      <4>1. Safe(p)' \subseteq Safe(p)
        BY <2>5, <3>2, PoolAssumption DEF ProcessEnds, Safe, PoolRuns, TypeOK
      <4>2. \A u \in Sessions : PoolOf[u] = p => depth'[u] = depth[u]
        BY <2>5, <3>2 DEF ProcessEnds, TypeOK
      <4> QED
        BY <4>1, <4>2, StaysCovered
    <3> QED
      BY <3>1, <3>2
  <2>6. CASE UNCHANGED vars
    BY <2>6 DEF vars, Covered, Safe, PoolRuns
  <2> QED
    BY <2>1, <2>2, <2>3, <2>4, <2>5, <2>6 DEF Next
<1> QED
  BY <1>1, <1>2 DEF LockInv

-----------------------------------------------------------------------------
\* AdvisoryLock's variables keep their types: no session's count goes below
\* zero and only running runs can have lost the lock.
THEOREM TypeCorrect == Spec => []TypeOK
<1>1. Init => TypeOK
  BY PoolAssumption DEF Init, TypeOK
<1>2. TypeOK /\ [Next]_vars => TypeOK'
  BY TypeStep
<1> QED
  BY <1>1, <1>2, PTL DEF Spec

\* withAdvisoryLock keeps the runs of different processes apart for as long as
\* no session is closed under them, whatever the pools' sizes.
THEOREM Exclusion == Spec => []ProcessesExclude
<1>1. Init => LockInv
  <2> SUFFICES ASSUME Init PROVE LockInv
    OBVIOUS
  <2>1. TypeOK
    BY PoolAssumption DEF Init, TypeOK
  <2>2. IsFiniteSet(running)
    BY FS_EmptySet DEF Init
  <2>3. OneHolder
    BY DEF Init, OneHolder
  <2>4. \A p \in Processes : Covered(p)
    BY DEF Init, Covered, Safe, PoolRuns
  <2> QED
    BY <2>1, <2>2, <2>3, <2>4 DEF LockInv
<1>2. LockInv /\ [Next]_vars => LockInv'
  BY LockStep
<1>3. LockInv => ProcessesExclude
  <2> SUFFICES ASSUME LockInv,
                      NEW r \in running \ bereft, NEW q \in running \ bereft
               PROVE  ProcessOf[r] = ProcessOf[q]
    BY DEF ProcessesExclude
  <2>1. ProcessOf[r] \in Processes /\ ProcessOf[q] \in Processes
    BY PoolAssumption DEF LockInv, TypeOK
  <2>2. r \in Safe(ProcessOf[r]) /\ q \in Safe(ProcessOf[q])
    BY DEF Safe, PoolRuns
  <2>3. PICK s \in Sessions : PoolOf[s] = ProcessOf[r] /\ depth[s] > 0
    BY <2>1, <2>2 DEF LockInv, Covered
  <2>4. PICK u \in Sessions : PoolOf[u] = ProcessOf[q] /\ depth[u] > 0
    BY <2>1, <2>2 DEF LockInv, Covered
  <2> QED
    BY <2>3, <2>4 DEF LockInv, OneHolder
<1> QED
  BY <1>1, <1>2, <1>3, PTL DEF Spec

-----------------------------------------------------------------------------
(* The passes. *)

\* Whoever is beside nobody is alone, and would not put the cursor back.
AloneUnlessBeside ==
    \A r \in running \ beside : running = {r}

MarkIsNoOlder ==
    \A r \in running \ beside : pass[r].stage = "read" => pass[r].mark <= cursor

PassInv ==
    /\ PassTypeOK
    /\ AloneUnlessBeside
    /\ MarkIsNoOlder

-----------------------------------------------------------------------------
\* A step of Passes is one of the lock's, or leaves the lock alone.
LEMMA LockStepOrStutter ==
  ASSUME [PassNext]_passVars
  PROVE  [Next]_vars
<1>1. CASE Tick
  BY <1>1 DEF Tick
<1>2. ASSUME NEW r \in Runs, NEW kind \in Kinds, Starts(r, kind)
      PROVE  [Next]_vars
  BY <1>2 DEF Starts, Next
<1>3. ASSUME NEW r \in Runs, Proceeds(r) \/ Refuse(r) \/ Throws(r) \/ LeavesLock(r)
      PROVE  [Next]_vars
  <2>1. ASSUME NEW kind, ReadCursor(r, kind)
        PROVE  UNCHANGED vars
    BY <2>1 DEF ReadCursor, Reaches
  <2>2. SaveCursor(r) \/ Refuse(r) \/ DailySteps(r) \/ EndsWithoutThem(r) \/ RunOther(r)
          => UNCHANGED vars
    BY DEF SaveCursor, Refuse, DailySteps, EndsWithoutThem, RunOther, Reaches
  <2>3. Ends(r) \/ Throws(r) => Next
    BY DEF Ends, Throws, Next
  <2>4. LeavesLock(r) => Next
    BY DEF LeavesLock, Next
  <2> QED
    BY <1>3, <2>1, <2>2, <2>3, <2>4 DEF Proceeds
<1>4. ASSUME NEW s \in Sessions, LosesSession(s)
      PROVE  [Next]_vars
  BY <1>4 DEF LosesSession, Next
<1>5. ASSUME NEW p \in Processes, Dies(p)
      PROVE  [Next]_vars
  BY <1>5 DEF Dies, Next
<1>6. CASE UNCHANGED passVars
  BY <1>6 DEF passVars
<1> QED
  BY <1>1, <1>2, <1>3, <1>4, <1>5, <1>6 DEF PassNext

\* Passes implements AdvisoryLock: whatever the runs do inside it, they take
\* and give back the lock as withAdvisoryLock does.
THEOREM ImplementsLock == PassSpec => Spec
<1>1. PassInit => Init
  BY DEF PassInit
<1>2. [PassNext]_passVars => [Next]_vars
  BY LockStepOrStutter
<1> QED
  BY <1>1, <1>2, PTL DEF PassSpec, Spec

\* The lock keeps passes of different processes apart, from the inside as from
\* the outside.
THEOREM PassesExclude == PassSpec => []ProcessesExclude
BY ImplementsLock, Exclusion, PTL

-----------------------------------------------------------------------------
\* What the passes remember keeps its type, and a run remembers something just
\* while it runs.
LEMMA PassTypeStep ==
  ASSUME TypeOK, PassTypeOK, [PassNext]_passVars
  PROVE  PassTypeOK'
<1> DEFINE Record == [stage : Stages, full : BOOLEAN, mark : Ages]
<1>0. Day \in Ages /\ 0 \in Ages /\ \A a \in Ages : Older(a) \in Ages
  BY PassesAssumption DEF Ages, Older
<1>a. \A stage \in Stages : Fresh(stage) \in Record /\ Fresh(stage).stage = stage
  BY <1>0 DEF Fresh
<1>b. {"idle", "read", "saved", "over"} \cup Kinds \subseteq Stages /\ "idle" \notin Kinds
  BY DEF Stages, Kinds
<1>1. CASE Tick
  <2>1. hour' \in 0..(Day - 1)
    BY <1>1, PassesAssumption DEF Tick, PassTypeOK
  <2>2. cursor' \in Ages
    BY <1>0, <1>1 DEF Tick, PassTypeOK
  <2>3. ASSUME NEW r \in Runs
        PROVE  pass'[r] \in Record /\ pass'[r].stage = pass[r].stage
    <3>1. pass'[r] = [pass[r] EXCEPT !.mark = Older(@)]
      BY <1>1 DEF Tick
    <3>2. pass[r] \in Record
      BY DEF PassTypeOK
    <3> QED
      BY <1>0, <3>1, <3>2
  <2>4. pass' \in [Runs -> Record]
    BY <1>1, <2>3 DEF Tick
  <2> QED
    BY <1>1, <2>1, <2>2, <2>3, <2>4 DEF Tick, PassTypeOK, vars
<1>2. ASSUME NEW r \in Runs, NEW kind \in Kinds, Starts(r, kind)
      PROVE  PassTypeOK'
  <2>1. running' = running \cup {r} /\ r \notin running
    BY <1>2 DEF Starts, Acquire
  <2>2. beside' \subseteq running'
    BY <1>2, <2>1 DEF Starts, Company, PassTypeOK
  <2>3. Fresh(kind) \in Record /\ Fresh(kind).stage # "idle"
    BY <1>a, <1>b
  <2>4. pass' \in [Runs -> Record]
    BY <1>2, <2>3 DEF Starts, PassTypeOK
  <2>5. \A q \in Runs : pass'[q].stage = "idle" <=> q \notin running'
    BY <1>2, <2>1, <2>3 DEF Starts, PassTypeOK
  <2> QED
    BY <1>2, <2>2, <2>4, <2>5 DEF Starts, PassTypeOK
<1>3. ASSUME NEW r \in Runs, NEW from, NEW now \in Record, Reaches(r, from, now),
             now.stage # "idle", cursor' \in Ages
      PROVE  PassTypeOK'
  <2>1. pass' \in [Runs -> Record]
    BY <1>3 DEF Reaches, PassTypeOK
  <2>2. \A q \in Runs : pass'[q].stage = "idle" <=> q \notin running'
    BY <1>3 DEF Reaches, PassTypeOK, vars
  <2> QED
    BY <1>3, <2>1, <2>2 DEF Reaches, PassTypeOK, vars
<1>4. ASSUME NEW r \in Runs, Proceeds(r) \/ Refuse(r), ~Ends(r)
      PROVE  PassTypeOK'
  <2>0. pass[r] \in Record /\ cursor \in Ages
    BY DEF PassTypeOK
  <2>1. ASSUME NEW kind \in {"pass", "full pass"}, ReadCursor(r, kind)
        PROVE  PassTypeOK'
    <3> DEFINE full == kind = "full pass" \/ IsFullPassDue(cursor)
               now == [stage |-> "read", full |-> full, mark |-> Mark(full)]
    <3>1. Mark(full) \in Ages /\ full \in BOOLEAN
      BY <1>0, <2>0 DEF Mark, IsFullPassDue
    <3>2. now \in Record /\ now.stage # "idle"
      BY <1>b, <3>1
    <3>3. Reaches(r, kind, now) /\ cursor' = cursor
      BY <2>1 DEF ReadCursor
    <3> HIDE DEF now
    <3> QED
      BY <1>3, <2>0, <3>2, <3>3
  <2>2. CASE SaveCursor(r) \/ Refuse(r)
    <3> DEFINE now == [Fresh("saved") EXCEPT !.full = pass[r].full]
    <3>1. now \in Record /\ now.stage # "idle"
      BY <1>0, <1>b, <2>0 DEF Fresh
    <3>2. Reaches(r, "read", now) /\ cursor' \in Ages
      BY <2>0, <2>2 DEF SaveCursor, Refuse
    <3> HIDE DEF now
    <3> QED
      BY <1>3, <3>1, <3>2
  <2>3. CASE DailySteps(r) \/ EndsWithoutThem(r) \/ RunOther(r)
    <3>1. PICK from : Reaches(r, from, Fresh("over")) /\ cursor' = cursor
      BY <2>3 DEF DailySteps, EndsWithoutThem, RunOther
    <3>2. Fresh("over") \in Record /\ Fresh("over").stage # "idle"
      BY <1>a, <1>b
    <3> QED
      BY <1>3, <2>0, <3>1, <3>2
  <2> QED
    BY <1>4, <2>1, <2>2, <2>3 DEF Proceeds
<1>5. ASSUME NEW gone \in SUBSET Runs, running' = running \ gone, Forget(gone)
      PROVE  PassTypeOK'
  <2>1. Fresh("idle") \in Record /\ Fresh("idle").stage = "idle"
    BY <1>a, <1>b
  <2>2. pass' \in [Runs -> Record]
    BY <1>5, <2>1 DEF Forget, PassTypeOK
  <2>3. \A q \in Runs : pass'[q].stage = "idle" <=> q \notin running'
    BY <1>5, <2>1 DEF Forget, PassTypeOK
  <2> QED
    BY <1>5, <2>2, <2>3 DEF Forget, PassTypeOK
<1>6. ASSUME NEW r \in Runs, Ends(r) \/ Throws(r) \/ LeavesLock(r)
      PROVE  PassTypeOK'
  <2>1. running' = running \ {r} /\ Forget({r})
    BY <1>6 DEF Ends, Throws, LeavesLock, Finishes, Finish, UnlockFails
  <2> QED
    BY <2>1, <1>5
<1>7. ASSUME NEW s \in Sessions, LosesSession(s)
      PROVE  PassTypeOK'
  BY <1>7 DEF LosesSession, IdleTimeout, PassTypeOK
<1>8. ASSUME NEW p \in Processes, Dies(p)
      PROVE  PassTypeOK'
  <2>1. running' = running \ PoolRuns(p) /\ Forget(PoolRuns(p))
    BY <1>8 DEF Dies, ProcessEnds
  <2>2. PoolRuns(p) \in SUBSET Runs
    BY DEF PoolRuns, TypeOK
  <2> QED
    BY <2>1, <2>2, <1>5
<1>9. CASE UNCHANGED passVars
  BY <1>9 DEF passVars, vars, PassTypeOK
<1> QED
  BY <1>1, <1>2, <1>4, <1>6, <1>7, <1>8, <1>9 DEF PassNext

\* A run that starts finds none at work but those it is beside, since the lock
\* was granted to it: the lock's own exclusion holds of the state it starts in.
LEMMA CompanyIsEverybody ==
  ASSUME TypeOK, ProcessesExclude',
         NEW r \in Runs, NEW kind \in Kinds, Starts(r, kind)
  PROVE  Company(r) = running
<1>1. running' = running \cup {r} /\ r \notin running /\ bereft' = bereft
  BY DEF Starts, Acquire
<1>2. r \notin bereft'
  BY <1>1 DEF TypeOK
<1>3. \A q \in running : q \notin bereft => ProcessOf[q] = ProcessOf[r]
  BY <1>1, <1>2 DEF ProcessesExclude
<1> QED
  BY <1>3 DEF Company

\* A run that was never beside another is alone.
LEMMA AloneStep ==
  ASSUME TypeOK, PassTypeOK, AloneUnlessBeside, ProcessesExclude', [PassNext]_passVars
  PROVE  AloneUnlessBeside'
<1> USE DEF AloneUnlessBeside
<1>1. ASSUME NEW r \in Runs, NEW kind \in Kinds, Starts(r, kind)
      PROVE  AloneUnlessBeside'
  <2>1. running' = running \cup {r}
    BY <1>1 DEF Starts, Acquire
  <2>2. Company(r) = running
    BY <1>1, CompanyIsEverybody
  <2> QED
    BY <1>1, <2>1, <2>2 DEF Starts
<1>2. ASSUME NEW gone, running' = running \ gone, Forget(gone)
      PROVE  AloneUnlessBeside'
  BY <1>2 DEF Forget
<1>3. ASSUME running' = running, beside' = beside
      PROVE  AloneUnlessBeside'
  BY <1>3
<1>4. ASSUME NEW r \in Runs, Proceeds(r) \/ Refuse(r) \/ Throws(r) \/ LeavesLock(r)
      PROVE  AloneUnlessBeside'
  <2>1. CASE Ends(r) \/ Throws(r) \/ LeavesLock(r)
    BY <2>1, <1>2 DEF Ends, Throws, LeavesLock, Finishes, Finish, UnlockFails
  <2>2. CASE ~(Ends(r) \/ Throws(r) \/ LeavesLock(r))
    BY <1>4, <2>2, <1>3 DEF Proceeds, ReadCursor, SaveCursor, Refuse, DailySteps,
                            EndsWithoutThem, RunOther, Reaches, vars
  <2> QED
    BY <2>1, <2>2
<1>5. ASSUME NEW p \in Processes, Dies(p)
      PROVE  AloneUnlessBeside'
  BY <1>5, <1>2 DEF Dies, ProcessEnds
<1>6. CASE Tick \/ UNCHANGED passVars
  BY <1>6, <1>3 DEF Tick, passVars, vars
<1>7. ASSUME NEW s \in Sessions, LosesSession(s)
      PROVE  AloneUnlessBeside'
  BY <1>7, <1>3 DEF LosesSession, IdleTimeout
<1> QED
  BY <1>1, <1>4, <1>5, <1>6, <1>7 DEF PassNext

\* What a lone pass is going to write as the last full pass is its own start or
\* what stands there, and nobody else has written it since.
LEMMA MarkStep ==
  ASSUME TypeOK, PassInv, ProcessesExclude', [PassNext]_passVars
  PROVE  MarkIsNoOlder'
<1>0. PassTypeOK /\ AloneUnlessBeside' /\ Day \in Nat
  BY PassTypeStep, AloneStep, PassesAssumption DEF PassInv
<1>a. cursor \in Nat
  BY <1>0 DEF PassTypeOK, Ages
<1>b. 0 <= cursor /\ cursor <= cursor
  BY <1>a
<1> USE PassesAssumption DEF PassInv, MarkIsNoOlder
<1>1. CASE Tick
  <2>1. \A a, b \in Ages : a <= b => Older(a) <= Older(b)
    BY DEF Older, Ages
  <2>2. SUFFICES ASSUME NEW r \in running \ beside, pass'[r].stage = "read"
                 PROVE  pass'[r].mark <= cursor'
    BY <1>1 DEF Tick, vars
  <2>3. r \in Runs /\ pass[r].mark \in Ages /\ cursor \in Ages
    BY DEF TypeOK, PassTypeOK
  <2>4. pass'[r] = [pass[r] EXCEPT !.mark = Older(@)]
    BY <1>1, <2>3 DEF Tick
  <2>5. pass'[r].mark = Older(pass[r].mark) /\ pass[r].stage = "read"
    BY <2>2, <2>3, <2>4 DEF PassTypeOK
  <2>6. pass[r].mark <= cursor
    BY <2>5
  <2> QED
    BY <1>1, <2>1, <2>3, <2>5, <2>6 DEF Tick
<1>2. ASSUME NEW r \in Runs, NEW kind \in Kinds, Starts(r, kind)
      PROVE  MarkIsNoOlder'
  <2>1. pass'[r].stage # "read" /\ cursor' = cursor
    BY <1>2 DEF Starts, Fresh, PassTypeOK, Kinds
  <2>2. \A q \in running' \ beside' : q = r
    <3>1. r \in running'
      BY <1>2 DEF Starts, Acquire
    <3> QED
      BY <3>1, <1>0 DEF AloneUnlessBeside
  <2> QED
    BY <2>1, <2>2
<1>3. ASSUME NEW r \in Runs, NEW from, NEW now, Reaches(r, from, now),
             now.stage = "read" => now.mark <= cursor'
      PROVE  MarkIsNoOlder'
  <2>1. running' = running /\ beside' = beside /\ r \in running
    BY <1>3 DEF Reaches, vars
  <2>2. \A q \in running' \ beside' : q = r
    BY <2>1 DEF AloneUnlessBeside
  <2>3. pass'[r] = now
    BY <1>3 DEF Reaches, PassTypeOK
  <2> QED
    BY <1>3, <2>2, <2>3
<1>4. ASSUME NEW r \in Runs, Proceeds(r) \/ Refuse(r), ~Ends(r)
      PROVE  MarkIsNoOlder'
  <2>1. ASSUME NEW kind \in {"pass", "full pass"}, ReadCursor(r, kind)
        PROVE  MarkIsNoOlder'
    <3> DEFINE full == kind = "full pass" \/ IsFullPassDue(cursor)
               now == [stage |-> "read", full |-> full, mark |-> Mark(full)]
    <3>1. Reaches(r, kind, now) /\ cursor' = cursor
      BY <2>1 DEF ReadCursor
    <3>2. Mark(full) <= cursor
      BY <1>b DEF Mark
    <3>3. now.mark <= cursor'
      BY <3>1, <3>2
    <3> HIDE DEF now
    <3> QED
      BY <1>3, <3>1, <3>3
  <2>2. CASE SaveCursor(r) \/ Refuse(r) \/ DailySteps(r) \/ EndsWithoutThem(r) \/ RunOther(r)
    BY <2>2, <1>3 DEF SaveCursor, Refuse, DailySteps, EndsWithoutThem, RunOther, Fresh
  <2> QED
    BY <1>4, <2>1, <2>2 DEF Proceeds
<1>5. ASSUME NEW gone, running' = running \ gone, Forget(gone)
      PROVE  MarkIsNoOlder'
  BY <1>5 DEF Forget, TypeOK
<1>6. ASSUME NEW r \in Runs, Ends(r) \/ Throws(r) \/ LeavesLock(r)
      PROVE  MarkIsNoOlder'
  BY <1>6, <1>5 DEF Ends, Throws, LeavesLock, Finishes, Finish, UnlockFails
<1>7. ASSUME NEW p \in Processes, Dies(p)
      PROVE  MarkIsNoOlder'
  BY <1>7, <1>5 DEF Dies, ProcessEnds
<1>8. ASSUME NEW s \in Sessions, LosesSession(s)
      PROVE  MarkIsNoOlder'
  BY <1>8 DEF LosesSession, IdleTimeout
<1>9. CASE UNCHANGED passVars
  BY <1>9 DEF passVars, vars
<1> QED
  BY <1>1, <1>2, <1>4, <1>6, <1>7, <1>8, <1>9 DEF PassNext

\* saveCursor's whole-row write never puts the last full pass back, for any
\* number of processes, sessions and runs and any length of day, but where a
\* pass ran beside one that lost its lock or is of its own process.
THEOREM CursorAdvances == PassSpec => CursorGoesForward
<1> DEFINE Forward == \A r \in Runs \ beside : SaveCursor(r) => cursor' <= cursor
<1>1. PassInit => PassInv
  BY PassesAssumption DEF PassInit, Init, PassInv, PassTypeOK, AloneUnlessBeside,
                          MarkIsNoOlder, Ages, Stages, Fresh
<1>2. TypeOK /\ PassInv /\ ProcessesExclude' /\ [PassNext]_passVars => PassInv'
  BY PassTypeStep, AloneStep, MarkStep DEF PassInv
<1>3. PassInv => [Forward]_passVars
  <2> SUFFICES ASSUME PassInv, NEW r \in Runs \ beside, SaveCursor(r)
               PROVE  cursor' <= cursor
    OBVIOUS
  <2> QED
    BY DEF SaveCursor, Reaches, PassInv, MarkIsNoOlder
<1>4. PassSpec => []TypeOK
  BY ImplementsLock, TypeCorrect, PTL
<1>5. PassSpec => []PassInv
  BY <1>1, <1>2, <1>4, PassesExclude, PTL DEF PassSpec
<1>6. PassSpec => [][Forward]_passVars
  BY <1>3, <1>5, PTL DEF PassSpec
<1> QED
  BY <1>6 DEF CursorGoesForward

-----------------------------------------------------------------------------
(* The adoption scan and its queue. *)

ArePairs(rows) == \A q \in rows : q = <<q[1], q[2]>>

RowsOK ==
    /\ Len(entity) \in Nat /\ entity = [i \in Ids |-> entity[i]]
    /\ \A i \in Ids : DOMAIN entity[i] = Columns
    /\ ArePairs(ref) /\ ArePairs(link)
    /\ \A pair \in ref \cup link : pair[1] \in Ids
    /\ \A a, b \in ref : a[2] = b[2] => a = b

ScanOK ==
    /\ DOMAIN scan = DOMAIN Resting
    /\ scan.at \in {"rest", "store", "tasks", "pages", "queue", "mirror"}
    /\ scan.at \in {"pages", "queue"} => scan.tasksOf \in DOMAIN Snapshot
    /\ scan.at = "queue" => scan.pagesOf \in DOMAIN Snapshot

RequestsOK ==
    \A r \in asked : /\ DOMAIN r = DOMAIN Request
                     /\ r.op = "ritual" => r.id \in Ids

BulkOK ==
    \A r \in asked : r.op = "ended" => r.picked = r.shown /\ r.day \in Int /\ r.day <= today

DatesOK == \A c \in candidate : c.ends \in Int \cup {Absent}

\* A sequence with one more element.
LEMMA OneMore ==
  ASSUME NEW s, NEW e, Len(s) \in Nat, s = [i \in 1 .. Len(s) |-> s[i]]
  PROVE  /\ Len(Append(s, e)) = Len(s) + 1
         /\ Append(s, e) = [i \in 1 .. Len(s) + 1 |-> Append(s, e)[i]]
         /\ \A i \in 1 .. Len(s) : Append(s, e)[i] = s[i]
         /\ Append(s, e)[Len(s) + 1] = e
<1> DEFINE S == {s[i] : i \in 1 .. Len(s)} \cup {e}
<1>1. s \in Seq(S) /\ e \in S
  BY SMT
<1> HIDE DEF S
<1>2. /\ Append(s, e) \in Seq(S) /\ Len(Append(s, e)) = Len(s) + 1
      /\ \A i \in 1 .. Len(s) : Append(s, e)[i] = s[i]
      /\ Append(s, e)[Len(s) + 1] = e
  BY <1>1, AppendProperties
<1>3. Append(s, e) = [i \in 1 .. Len(s) + 1 |-> Append(s, e)[i]]
  BY <1>2, LenProperties
<1> QED
  BY <1>2, <1>3

\* A request's write of a ritual and its tasks.
Ritual(r) ==
    /\ r \in asked /\ r.op = "ritual"
    /\ \A x \in r.picked : ~HeldElsewhere(r.id, x)
    /\ WritesRitual(r)

\* Of all the steps only these touch the rows, each in the transaction of its handler.
LEMMA WhatChangesRows ==
  ASSUME [AdoptionNext]_adoptionVars
  PROVE  \/ UNCHANGED <<entity, ref, link>>
         \/ \E c \in candidate : AdoptCandidate(c)
         \/ \E c \in candidate, i \in Ids : DecideAdoption(i, c.key)
         \/ \E r \in asked : Ritual(r)
         \/ \E pair \in link : Bind(pair[1], pair[2])
<1>1. CASE BeginScan \/ ContinueScan
  BY <1>1 DEF BeginScan, ContinueScan, Load, ReadTasks, ReadDocs, ReplaceCandidates,
              MirrorTakeaways, EndScan, decisions
<1>2. CASE Adopt \/ Merge \/ Reconcile
  BY <1>2 DEF Adopt, Merge, Reconcile
<1>3. CASE Ignore \/ Tend
  BY <1>3 DEF Ignore, Tend, IgnoreCandidate, ShowEnded, Promote, UpdateRitual, decisions
<1>4. CASE Answer
  BY <1>4 DEF Answer, IgnoreEnded, Write, GiveUp, Ritual, decisions
<1>5. CASE EditTools \/ NextDay \/ UNCHANGED adoptionVars
  BY <1>5 DEF EditTools, NextDay, adoptionVars, decisions
<1> QED
  BY <1>1, <1>2, <1>3, <1>4, <1>5 DEF AdoptionNext

\* tieRitualTask leaves pairs, of entities, each object held once.
LEMMA TieStep ==
  ASSUME RowsOK, NEW i \in Ids, NEW tasks, TieRitualTask(i, tasks),
         \A x \in tasks : ~HeldElsewhere(i, x)
  PROVE  /\ ArePairs(ref') /\ ArePairs(link')
         /\ \A pair \in ref' \cup link' : pair[1] \in Ids
         /\ \A a, b \in ref' : a[2] = b[2] => a = b
<1> DEFINE added == {i} \X tasks
<1>1. /\ \A q \in ref' : q \in ref \/ q \in added
      /\ \A q \in link' : q \in link \/ q \in added
  BY DEF TieRitualTask
<1>2. \A q \in added : q = <<q[1], q[2]>> /\ q[1] = i /\ q[2] \in tasks
  OBVIOUS
<1> HIDE DEF added
<1>3. \A a, b \in ref' : a[2] = b[2] => a = b
  <2> SUFFICES ASSUME NEW a \in ref', NEW b \in ref', a[2] = b[2]
               PROVE  a = b
    OBVIOUS
  <2>1. \A q \in ref : q[2] \in tasks => q[1] = i
    BY DEF HeldElsewhere
  <2>2. \A q \in ref' : q = <<q[1], q[2]>>
    BY <1>1, <1>2 DEF RowsOK, ArePairs
  <2>3. a \in added \/ b \in added => a[1] = i /\ b[1] = i
    BY <1>1, <1>2, <2>1
  <2> QED
    BY <1>1, <2>2, <2>3 DEF RowsOK
<1> QED
  BY <1>1, <1>2, <1>3 DEF RowsOK, ArePairs

\* Rows stay rows: one-step case of RowsOK.
LEMMA RowsStep ==
  ASSUME RowsOK, RequestsOK, [AdoptionNext]_adoptionVars
  PROVE  RowsOK'
<1>1. CASE UNCHANGED <<entity, ref, link>>
  BY <1>1 DEF RowsOK, ArePairs, Ids
<1>2. ASSUME NEW c \in candidate, AdoptCandidate(c)
      PROVE  RowsOK'
  <2>1. PICK e : entity' = Append(entity, e) /\ DOMAIN e = Columns
    BY <1>2 DEF AdoptCandidate, Columns
  <2>2. /\ Len(entity') = Len(entity) + 1
        /\ entity' = [i \in 1 .. Len(entity) + 1 |-> entity'[i]]
        /\ \A i \in 1 .. Len(entity) : entity'[i] = entity[i]
        /\ entity'[Len(entity) + 1] = e
    BY <2>1, OneMore DEF RowsOK, Ids
  <2>3. Ids' = 1 .. Len(entity) + 1 /\ Len(entity) \in Nat
    BY <2>2 DEF Ids, RowsOK
  <2>4. /\ Len(entity)' \in Nat /\ entity' = [i \in Ids' |-> entity'[i]]
        /\ \A i \in Ids' : DOMAIN entity'[i] = Columns
    BY <2>1, <2>2, <2>3 DEF RowsOK, Ids
  <2>5. ref' = ref /\ link' = link \cup {<<Len(entity) + 1, c.key>>}
    BY <1>2 DEF AdoptCandidate
  <2>6. /\ ArePairs(ref') /\ ArePairs(link')
        /\ \A pair \in ref' \cup link' : pair[1] \in Ids'
        /\ \A a, b \in ref' : a[2] = b[2] => a = b
    BY <2>3, <2>5 DEF RowsOK, ArePairs, Ids
  <2> QED
    BY <2>4, <2>6 DEF RowsOK
<1>a. ASSUME NEW i \in Ids, NEW f, NEW v, f \in Columns, entity' = [entity EXCEPT ![i][f] = v]
      PROVE  /\ Len(entity)' \in Nat /\ entity' = [j \in Ids' |-> entity'[j]] /\ Ids' = Ids
             /\ \A j \in Ids' : DOMAIN entity'[j] = Columns
  <2>1. DOMAIN entity' = DOMAIN entity /\ DOMAIN entity = 1 .. Len(entity) /\ Len(entity) \in Nat
    BY <1>a DEF RowsOK, Ids
  <2>2. Len(entity') = Len(entity)
    BY <2>1
  <2> QED
    BY <1>a, <2>1, <2>2 DEF RowsOK, Ids
<1>3. ASSUME NEW c \in candidate, NEW i \in Ids, DecideAdoption(i, c.key)
      PROVE  RowsOK'
  <2> DEFINE x == c.key
  <2>1. CASE LinksRitualPage(i, x)
    <3>1. entity' = [entity EXCEPT ![i]["page"] = x[2]] /\ ref' = ref /\ link' = link \cup {<<i, x>>}
      BY <2>1 DEF LinksRitualPage
    <3>2. "page" \in Columns
      BY DEF Columns
    <3>3. /\ Len(entity)' \in Nat /\ entity' = [j \in Ids' |-> entity'[j]] /\ Ids' = Ids
          /\ \A j \in Ids' : DOMAIN entity'[j] = Columns
      BY <1>a, <3>1, <3>2
    <3> QED
      BY <3>1, <3>3 DEF RowsOK, ArePairs
  <2>2. CASE LinksRitualTask(i, x)
    <3>1. entity' = entity
      BY <2>2 DEF LinksRitualTask
    <3>2. CASE TieRitualTask(i, {x})
      <4>1. ~HeldElsewhere(i, x)
        BY <2>2 DEF LinksRitualTask
      <4> QED
        BY <3>1, <3>2, <4>1, TieStep DEF RowsOK, Ids
    <3>3. CASE link' = link \cup {<<i, x>>} /\ ref' = ref
      BY <3>1, <3>3 DEF RowsOK, ArePairs, Ids
    <3> QED
      BY <2>2, <3>2, <3>3 DEF LinksRitualTask
  <2>3. CASE link' = link \cup {<<i, x>>} /\ UNCHANGED <<entity, ref>>
    BY <2>3 DEF RowsOK, ArePairs, Ids
  <2> QED
    BY <1>3, <2>1, <2>2, <2>3 DEF DecideAdoption
<1>4. ASSUME NEW r \in asked, Ritual(r)
      PROVE  RowsOK'
  <2>1. r.id \in Ids
    BY <1>4 DEF Ritual, RequestsOK
  <2>2. entity' = [entity EXCEPT ![r.id]["byReview"] = r.byReview] /\ "byReview" \in Columns
    BY <1>4 DEF Ritual, WritesRitual, Columns
  <2>3. /\ Len(entity)' \in Nat /\ entity' = [j \in Ids' |-> entity'[j]] /\ Ids' = Ids
        /\ \A j \in Ids' : DOMAIN entity'[j] = Columns
    BY <1>a, <2>1, <2>2
  <2>4. CASE UNCHANGED <<ref, link>>
    BY <2>3, <2>4 DEF RowsOK, ArePairs
  <2>5. CASE TieRitualTask(r.id, r.picked)
    <3>1. \A x \in r.picked : ~HeldElsewhere(r.id, x)
      BY <1>4 DEF Ritual
    <3> QED
      BY <2>1, <2>3, <2>5, <3>1, TieStep DEF RowsOK
  <2> QED
    BY <1>4, <2>4, <2>5 DEF Ritual, WritesRitual
<1>5. ASSUME NEW pair \in link, Bind(pair[1], pair[2])
      PROVE  RowsOK'
  <2>1. ref' = ref \cup {<<pair[1], pair[2]>>} /\ UNCHANGED <<entity, link>>
    BY <1>5 DEF Bind
  <2>2. \A q \in ref : q[2] = pair[2] => q[1] = pair[1]
    BY <1>5 DEF Bind, HeldElsewhere
  <2>3. pair[1] \in Ids
    BY DEF RowsOK
  <2> QED
    BY <2>1, <2>2, <2>3 DEF RowsOK, ArePairs, Ids
<1> QED
  BY <1>1, <1>2, <1>3, <1>4, <1>5, WhatChangesRows

\* No entity's kind or title changes, and none is forgotten.
LEMMA KindsStay ==
  ASSUME RowsOK, RequestsOK, [AdoptionNext]_adoptionVars, NEW i \in Ids
  PROVE  i \in Ids' /\ entity'[i].kind = entity[i].kind /\ entity'[i].title = entity[i].title
<1> USE DEF RowsOK
<1>1. ASSUME NEW c \in candidate, AdoptCandidate(c)
      PROVE  i \in Ids' /\ entity'[i] = entity[i]
  <2>1. PICK e : entity' = Append(entity, e)
    BY <1>1 DEF AdoptCandidate
  <2> QED
    BY <2>1, OneMore DEF Ids
<1>2. ASSUME NEW k \in Ids, NEW v,
             \/ entity' = [entity EXCEPT ![k].page = v]
             \/ entity' = [entity EXCEPT ![k].byReview = v]
      PROVE  i \in Ids' /\ entity'[i].kind = entity[i].kind /\ entity'[i].title = entity[i].title
  <2>1. DOMAIN entity' = DOMAIN entity /\ DOMAIN entity = 1 .. Len(entity)
    BY <1>2 DEF Ids
  <2>2. Len(entity') = Len(entity)
    BY <2>1
  <2>3. "kind" \in DOMAIN entity[i] /\ "title" \in DOMAIN entity[i]
    BY DEF Columns
  <2>4. \/ entity'[i] = entity[i]
        \/ entity'[i] = [entity[i] EXCEPT !.page = v]
        \/ entity'[i] = [entity[i] EXCEPT !.byReview = v]
    BY <1>2, <2>1 DEF Ids
  <2>5. entity'[i].kind = entity[i].kind /\ entity'[i].title = entity[i].title
    BY <2>3, <2>4
  <2> QED
    BY <2>2, <2>5 DEF Ids
<1>3. ASSUME NEW c \in candidate, NEW k \in Ids, DecideAdoption(k, c.key)
      PROVE  i \in Ids' /\ entity'[i].kind = entity[i].kind /\ entity'[i].title = entity[i].title
  <2>1. entity' = entity \/ entity' = [entity EXCEPT ![k].page = c.key[2]]
    BY <1>3 DEF DecideAdoption, LinksRitualPage, LinksRitualTask
  <2>2. CASE entity' = entity
    BY <2>2 DEF Ids
  <2>3. CASE entity' = [entity EXCEPT ![k].page = c.key[2]]
    BY <1>2, <2>3
  <2> QED
    BY <2>1, <2>2, <2>3
<1>4. ASSUME NEW r \in asked, Ritual(r)
      PROVE  i \in Ids' /\ entity'[i].kind = entity[i].kind /\ entity'[i].title = entity[i].title
  <2>1. r.id \in Ids /\ entity' = [entity EXCEPT ![r.id].byReview = r.byReview]
    BY <1>4 DEF Ritual, WritesRitual, RequestsOK
  <2> QED
    BY <1>2, <2>1
<1>5. CASE UNCHANGED entity
  BY <1>5 DEF Ids
<1> QED
  BY <1>1, <1>3, <1>4, <1>5, WhatChangesRows DEF Bind

\* What is asked is a request; an update is of an entity there is.
LEMMA RequestsStep ==
  ASSUME RowsOK, RequestsOK, [AdoptionNext]_adoptionVars
  PROVE  RequestsOK'
<1>0. \A i \in Ids : i \in Ids'
  BY KindsStay
<1>1. \A r \in asked' : r \in asked \/ (DOMAIN r = DOMAIN Request /\ (r.op = "ritual" => r.id \in Ids))
  <2>1. CASE Ignore \/ Tend
    <3>1. ASSUME NEW c, IgnoreCandidate(c)
          PROVE  \A r \in asked' : r \in asked \/ (DOMAIN r = DOMAIN Request /\ r.op # "ritual")
      BY <3>1 DEF IgnoreCandidate, Ask, Request
    <3>2. ASSUME NEW role, ShowEnded(role)
          PROVE  \A r \in asked' : r \in asked \/ (DOMAIN r = DOMAIN Request /\ r.op # "ritual")
      BY <3>2 DEF ShowEnded, Ask, Request
    <3>3. ASSUME NEW t, Promote(t)
          PROVE  \A r \in asked' : r \in asked \/ (DOMAIN r = DOMAIN Request /\ r.op # "ritual")
      BY <3>3 DEF Promote, Ask, Request
    <3>4. ASSUME NEW i \in Ids, NEW tasks, NEW byReview, UpdateRitual(i, tasks, byReview)
          PROVE  \A r \in asked' : r \in asked \/ (DOMAIN r = DOMAIN Request /\ r.id \in Ids)
      BY <3>4 DEF UpdateRitual, Ask, Request
    <3> QED
      BY <2>1, <3>1, <3>2, <3>3, <3>4 DEF Ignore, Tend
  <2>2. CASE Answer
    <3>1. ASSUME NEW r \in asked, IgnoreEnded(r)
          PROVE  \A q \in asked' : q \in asked \/ (DOMAIN q = DOMAIN Request /\ q.op # "ritual")
      <4>1. DOMAIN r = DOMAIN Request
        BY DEF RequestsOK
      <4> QED
        BY <3>1, <4>1 DEF IgnoreEnded, Request
    <3> QED
      BY <2>2, <3>1 DEF Answer, Write, GiveUp
  <2>3. CASE UNCHANGED asked
    BY <2>3
  <2>4. CASE BeginScan \/ ContinueScan \/ Adopt \/ Merge \/ Reconcile \/ EditTools \/ NextDay
    BY <2>3, <2>4 DEF BeginScan, ContinueScan, Load, ReadTasks, ReadDocs, ReplaceCandidates,
              MirrorTakeaways, EndScan, Adopt, AdoptCandidate, Merge, DecideAdoption, Reconcile,
              Bind, EditTools, NextDay
  <2> QED
    BY <2>1, <2>2, <2>3, <2>4 DEF AdoptionNext, adoptionVars
<1> QED
  BY <1>0, <1>1 DEF RequestsOK


\* What a scan carries is a scan's, and what it read of the tools is a snapshot.
LEMMA ScanStep ==
  ASSUME ScanOK, tools \in DOMAIN Snapshot, [AdoptionNext]_adoptionVars
  PROVE  ScanOK'
<1> USE DEF ScanOK, Resting
<1>1. CASE BeginScan
  BY <1>1 DEF BeginScan
<1>2. ASSUME NEW what, Load(what)
      PROVE  ScanOK'
  BY <1>2 DEF Load
<1>3. CASE ReadTasks
  BY <1>3 DEF ReadTasks
<1>4. ASSUME NEW readable, ReadDocs(readable)
      PROVE  ScanOK'
  BY <1>4 DEF ReadDocs
<1>5. ASSUME scan' = Resting
      PROVE  ScanOK'
  BY <1>5
<1>8. ASSUME scan' = [Resting EXCEPT !.at = "mirror", !.seen = scan.seen]
      PROVE  ScanOK'
  BY <1>8
<1>6. CASE UNCHANGED scan
  BY <1>6
<1>7. CASE Adopt \/ Merge \/ Ignore \/ Tend \/ Answer \/ Reconcile \/ EditTools \/ NextDay
  BY <1>6, <1>7 DEF Adopt, AdoptCandidate, Merge, DecideAdoption, Ignore, IgnoreCandidate, ShowEnded,
              Tend, Promote, UpdateRitual, Answer, IgnoreEnded, Write, GiveUp, Reconcile, Bind,
              EditTools, NextDay
<1> QED
  BY <1>1, <1>2, <1>3, <1>4, <1>5, <1>6, <1>7, <1>8
     DEF AdoptionNext, ContinueScan, adoptionVars, ReplaceCandidates, MirrorTakeaways, EndScan

\* A page's period is of days, whichever way round it was written.
LEMMA ObjectsEnd ==
  ASSUME NEW tasksOf \in DOMAIN Snapshot, NEW pagesOf \in DOMAIN Snapshot, NEW readable,
         NEW o \in Objects(tasksOf, pagesOf, readable)
  PROVE  o.ends \in Int \cup {Absent}
<1> DEFINE read == Snapshot[tasksOf]
           pages == {p \in Snapshot[pagesOf].pages : p.role \in readable}
<1>1. CASE o \in AdaptTasks(read.tasks)
  BY <1>1 DEF AdaptTasks, Plain
<1>2. CASE o \in AdaptProjects(read.projects, read.sections)
  BY <1>2 DEF AdaptProjects, Plain
<1>3. CASE o \in AdaptDocRecords(pages)
  <2> DEFINE End(p) == IF p.end = Absent THEN p.start ELSE p.end
             Backwards(p) == p.start # Absent /\ End(p) < p.start
  <2>1. PICK p \in pages :
           o.ends = IF p.start = Absent THEN Absent
                    ELSE IF Backwards(p) THEN p.start ELSE End(p)
    BY <1>3 DEF AdaptDocRecords, Plain
  <2>2. p \in Snapshot[pagesOf].pages
    OBVIOUS
  <2>3. p.start \in Int \cup {Absent} /\ p.end \in Int \cup {Absent}
    BY <2>2, SnapshotAssumption
  <2> QED
    BY <2>1, <2>3
<1> QED
  BY <1>1, <1>2, <1>3 DEF Objects, ReadPages

\* Only the end of a scan replaces the queue.
LEMMA QueueIsReplaced ==
  ASSUME [AdoptionNext]_adoptionVars
  PROVE  ReplaceCandidates \/ UNCHANGED candidate
BY DEF AdoptionNext, BeginScan, ContinueScan, Load, ReadTasks, ReadDocs,
       MirrorTakeaways, EndScan, Adopt, AdoptCandidate, Merge, DecideAdoption, Ignore,
       IgnoreCandidate, ShowEnded, Tend, Promote, UpdateRitual, Answer, IgnoreEnded, Write,
       GiveUp, Reconcile, Bind, EditTools, NextDay, adoptionVars

\* No step makes an end date out of anything but a number or none.
LEMMA DatesStep ==
  ASSUME DatesOK, ScanOK, [AdoptionNext]_adoptionVars
  PROVE  DatesOK'
<1>1. CASE ReplaceCandidates
  <2> SUFFICES ASSUME NEW c \in candidate' PROVE c.ends \in Int \cup {Absent}
    BY DEF DatesOK
  <2>1. PICK o \in Objects(scan.tasksOf, scan.pagesOf, scan.readable) : c.ends = o.ends
    BY <1>1 DEF ReplaceCandidates, Scanned, Candidate
  <2>2. scan.tasksOf \in DOMAIN Snapshot /\ scan.pagesOf \in DOMAIN Snapshot
    BY <1>1 DEF ReplaceCandidates, ScanOK
  <2> QED
    BY <2>1, <2>2, ObjectsEnd
<1>2. CASE UNCHANGED candidate
  BY <1>2 DEF DatesOK
<1> QED
  BY <1>1, <1>2, QueueIsReplaced

\* What a confirmed request will write is the set that was shown, of a day that
\* has come.
LEMMA BulkStep ==
  ASSUME BulkOK, RequestsOK, today \in Int, [AdoptionNext]_adoptionVars
  PROVE  BulkOK'
<1>0. today' = today \/ today' = today + 1
  BY DEF AdoptionNext, BeginScan, ContinueScan, Load, ReadTasks, ReadDocs, ReplaceCandidates,
              MirrorTakeaways, EndScan, Adopt, AdoptCandidate, Merge, DecideAdoption, Ignore,
              IgnoreCandidate, ShowEnded, Tend, Promote, UpdateRitual, Answer, IgnoreEnded, Write,
              GiveUp, Reconcile, Bind, EditTools, NextDay, adoptionVars
<1>1. today' \in Int /\ today <= today'
  BY <1>0
<1> SUFFICES ASSUME NEW r \in asked', r.op = "ended", r \notin asked
             PROVE  r.picked = r.shown /\ r.day = today
  BY <1>1 DEF BulkOK
<1>2. CASE Ignore \/ Tend
  <2> USE DEF Ask, Request
  <2>1. ASSUME NEW c, IgnoreCandidate(c)
        PROVE  \A q \in asked' : q \in asked \/ q.op # "ended"
    BY <2>1 DEF IgnoreCandidate
  <2>2. ASSUME NEW role, ShowEnded(role)
        PROVE  \A q \in asked' : q \in asked \/ q.op # "ended"
    BY <2>2 DEF ShowEnded
  <2>3. ASSUME NEW t, Promote(t)
        PROVE  \A q \in asked' : q \in asked \/ q.op # "ended"
    BY <2>3 DEF Promote
  <2>4. ASSUME NEW i, NEW tasks, NEW byReview, UpdateRitual(i, tasks, byReview)
        PROVE  \A q \in asked' : q \in asked \/ q.op # "ended"
    BY <2>4 DEF UpdateRitual
  <2> QED
    BY <1>2, <2>1, <2>2, <2>3, <2>4 DEF Ignore, Tend
<1>3. ASSUME NEW q \in asked, IgnoreEnded(q)
      PROVE  r.picked = r.shown /\ r.day = today
  <2>1. DOMAIN q = DOMAIN Request
    BY DEF RequestsOK
  <2>2. r = [q EXCEPT !.op = "ended", !.picked = EndedSelection(q.role, today), !.day = today]
        /\ EndedSelection(q.role, today) = q.shown
    BY <1>3 DEF IgnoreEnded, SameAsShown
  <2> QED
    BY <2>1, <2>2 DEF Request
<1>4. CASE AdoptionNext /\ ~Ignore /\ ~Tend /\ ~\E q \in asked : IgnoreEnded(q)
  BY <1>4 DEF AdoptionNext, BeginScan, ContinueScan, Load, ReadTasks, ReadDocs, ReplaceCandidates,
              MirrorTakeaways, EndScan, Adopt, AdoptCandidate, Merge, DecideAdoption, Answer,
              Write, GiveUp, Reconcile, Bind, EditTools, NextDay
<1> QED
  BY <1>2, <1>3, <1>4 DEF adoptionVars

AdoptionInv ==
    /\ RowsOK /\ ScanOK /\ RequestsOK /\ BulkOK /\ DatesOK
    /\ tools \in DOMAIN Snapshot /\ today \in Int

\* The shape of everything a scan, a request and a bulk ignore hold, in every state.
LEMMA AdoptionInvHolds == AdoptionSpec => []AdoptionInv
<1>1. AdoptionInit => AdoptionInv
  BY KnownAssumption DEF AdoptionInit, AdoptionInv, RowsOK, ArePairs, Ids, ScanOK, Resting, RequestsOK,
     BulkOK, DatesOK
<1>2. AdoptionInv /\ [AdoptionNext]_adoptionVars => AdoptionInv'
  <2> SUFFICES ASSUME AdoptionInv, [AdoptionNext]_adoptionVars PROVE AdoptionInv'
    OBVIOUS
  <2>1. tools' \in DOMAIN Snapshot
    BY DEF AdoptionInv, AdoptionNext, BeginScan, ContinueScan, Load, ReadTasks, ReadDocs,
           ReplaceCandidates, MirrorTakeaways, EndScan, Adopt, AdoptCandidate, Merge,
           DecideAdoption, Ignore, IgnoreCandidate, ShowEnded, Tend, Promote, UpdateRitual, Answer,
           IgnoreEnded, Write, GiveUp, Reconcile, Bind, EditTools, NextDay, adoptionVars
  <2>2. today' = today \/ today' = today + 1
    BY DEF AdoptionNext, BeginScan, ContinueScan, Load, ReadTasks, ReadDocs,
           ReplaceCandidates, MirrorTakeaways, EndScan, Adopt, AdoptCandidate, Merge,
           DecideAdoption, Ignore, IgnoreCandidate, ShowEnded, Tend, Promote, UpdateRitual, Answer,
           IgnoreEnded, Write, GiveUp, Reconcile, Bind, EditTools, NextDay, adoptionVars
  <2> QED
    BY <2>1, <2>2, RowsStep, ScanStep, RequestsStep, BulkStep, DatesStep DEF AdoptionInv
<1> QED
  BY <1>1, <1>2, PTL DEF AdoptionSpec

\* IgnoresWhatWasShown: a bulk ignore that writes writes exactly what was shown, all of
\* it ended and none of it linked, whatever scan, answer or day came between the
\* showing, the read and the write.
THEOREM BulkIgnoreIsExact == AdoptionSpec => IgnoresWhatWasShown
<1> DEFINE Exact == \A r \in asked :
          r.op = "ended" /\ r \notin asked' /\ ignored' # ignored =>
             /\ ignored' \ ignored = r.shown
             /\ \A x \in r.shown : /\ x \notin Linked
                                   /\ \E c \in candidate : c.key = x /\ HasEnded(c, today)
<1>1. AdoptionInv /\ [AdoptionNext]_adoptionVars => Exact
  <2> SUFFICES ASSUME AdoptionInv, [AdoptionNext]_adoptionVars,
                      NEW r \in asked, r.op = "ended", r \notin asked', ignored' # ignored
               PROVE  /\ ignored' \ ignored = r.shown
                      /\ \A x \in r.shown : /\ x \notin Linked
                                            /\ \E c \in candidate : c.key = x /\ HasEnded(c, today)
    OBVIOUS
  <2>1. PICK q \in asked : Write(q)
    <3>1. CASE Answer
      BY <3>1 DEF Answer, IgnoreEnded, GiveUp, decisions
    <3>2. CASE AdoptionNext /\ ~Answer
      BY <3>2 DEF AdoptionNext, BeginScan, ContinueScan, Load, ReadTasks, ReadDocs,
           ReplaceCandidates, MirrorTakeaways, EndScan, Adopt, AdoptCandidate, Merge,
           DecideAdoption, Ignore, IgnoreCandidate, ShowEnded, Tend, Promote, UpdateRitual,
           Reconcile, Bind, EditTools, NextDay, decisions
    <3> QED
      BY <3>1, <3>2 DEF adoptionVars, decisions
  <2>2. q = r
    BY <2>1 DEF Write
  <2>3. ignored' = ignored \cup EndedRows(r)
    BY <2>1, <2>2 DEF Write
  <2>4. r.picked = r.shown /\ r.day \in Int /\ r.day <= today /\ today \in Int
    BY DEF AdoptionInv, BulkOK
  <2>5. StillEnded(r) = r.shown /\ EndedRows(r) = r.shown
    BY <2>3, <2>4 DEF EndedRows
  <2>6. \A x \in r.shown : /\ x \notin Linked \cup ignored
                           /\ \E c \in candidate : c.key = x /\ HasEnded(c, r.day)
    BY <2>5 DEF StillEnded
  <2>7. \A c \in candidate : HasEnded(c, r.day) => HasEnded(c, today)
    BY <2>4 DEF HasEnded, AdoptionInv, DatesOK
  <2> QED
    BY <2>3, <2>5, <2>6, <2>7
<1>2. AdoptionSpec => [][Exact]_adoptionVars
  BY <1>1, AdoptionInvHolds, PTL DEF AdoptionSpec
<1> QED
  BY <1>2 DEF IgnoresWhatWasShown

\* A ritual that has a link keeps the reference that makes it one, whatever steps.
LEMMA LinkStep ==
  ASSUME AdoptionInv, RitualHonoursItsLink, [AdoptionNext]_adoptionVars
  PROVE  RitualHonoursItsLink'
<1> SUFFICES ASSUME NEW pair \in link', entity'[pair[1]].kind = "ritual", pair[2][1] = "task"
             PROVE  pair \in ref'
  BY DEF RitualHonoursItsLink
<1>0. RowsOK /\ RequestsOK
  BY DEF AdoptionInv
<1>1. \A q \in link : q[1] \in Ids /\ q = <<q[1], q[2]>>
  BY <1>0 DEF RowsOK, ArePairs
<1>2. pair \in link => pair \in ref
  BY <1>0, <1>1, KindsStay DEF RitualHonoursItsLink
<1>3. \A q \in ref : q = <<q[1], q[2]>>
  BY <1>0 DEF RowsOK, ArePairs
<1>4. ASSUME NEW i \in Ids, NEW tasks, TieRitualTask(i, tasks)
      PROVE  pair \in ref'
  BY <1>2, <1>4 DEF TieRitualTask
<1>5. CASE UNCHANGED <<entity, ref, link>>
  BY <1>2, <1>5
<1>6. ASSUME NEW c \in candidate, AdoptCandidate(c)
      PROVE  pair \in ref'
  <2>1. PICK e : entity' = Append(entity, e) /\ e.kind = c.kind
    BY <1>6 DEF AdoptCandidate
  <2>2. c.kind # "ritual"
    BY <1>6 DEF AdoptCandidate, AdoptRefused
  <2>3. entity'[Len(entity) + 1] = e
    BY <1>0, <2>1, OneMore DEF RowsOK, Ids
  <2>4. pair # <<Len(entity) + 1, c.key>>
    BY <2>1, <2>2, <2>3
  <2> QED
    BY <1>2, <1>6, <2>4 DEF AdoptCandidate
<1>7. ASSUME NEW c \in candidate, NEW i \in Ids, DecideAdoption(i, c.key)
      PROVE  pair \in ref'
  <2> DEFINE x == c.key
  <2>1. CASE entity[i].kind = "ritual" /\ x[1] = "page"
    <3>1. ref' = ref /\ link' = link \cup {<<i, x>>}
      BY <1>7, <2>1 DEF DecideAdoption, LinksRitualPage
    <3> QED
      BY <1>2, <2>1, <3>1
  <2>2. CASE entity[i].kind = "ritual" /\ x[1] = "task"
    <3>1. LinksRitualTask(i, x)
      BY <1>7, <2>2 DEF DecideAdoption
    <3>2. CASE TaskOf(i) = {x} /\ link' = link \cup {<<i, x>>} /\ UNCHANGED ref
      <4>1. <<i, x>> \in ref
        BY <1>3, <3>2 DEF TaskOf
      <4> QED
        BY <1>2, <3>2, <4>1
    <3> QED
      BY <1>4, <3>1, <3>2 DEF LinksRitualTask
  <2>3. CASE ~(entity[i].kind = "ritual" /\ x[1] \in {"page", "task"})
    <3>1. ref' = ref /\ link' = link \cup {<<i, x>>}
      BY <1>7, <2>3 DEF DecideAdoption
    <3>2. entity'[i].kind = entity[i].kind
      BY <1>0, KindsStay
    <3> QED
      BY <1>2, <2>3, <3>1, <3>2
  <2> QED
    BY <2>1, <2>2, <2>3
<1>8. ASSUME NEW r \in asked, Ritual(r)
      PROVE  pair \in ref'
  <2>1. r.id \in Ids
    BY <1>0, <1>8 DEF RequestsOK, Ritual
  <2> QED
    BY <1>2, <1>4, <1>8, <2>1 DEF Ritual, WritesRitual
<1>9. ASSUME NEW q \in link, Bind(q[1], q[2])
      PROVE  pair \in ref'
  BY <1>2, <1>9 DEF Bind
<1> QED
  BY <1>5, <1>6, <1>7, <1>8, <1>9, WhatChangesRows

\* RitualHonoursItsLink: every task linked to a ritual is one it is measured from,
\* whatever adoptions, updates of the ritual and binds were interleaved.
THEOREM RitualsHonourLinks == AdoptionSpec => []RitualHonoursItsLink
<1>1. AdoptionInit => RitualHonoursItsLink
  BY DEF AdoptionInit, RitualHonoursItsLink
<1>2. AdoptionInv /\ RitualHonoursItsLink /\ [AdoptionNext]_adoptionVars => RitualHonoursItsLink'
  BY LinkStep
<1> QED
  BY <1>1, <1>2, AdoptionInvHolds, PTL DEF AdoptionSpec

-----------------------------------------------------------------------------
(* The proposals.  First an induction and what a fold defines, then what the *)
(* matcher makes of titles, then the titles it is given.                     *)

\* A set with 0 and the successor of each of its numbers has them all: one that
\* left n out would inject what it has up to n into the same without 0.
LEMMA Induction ==
  ASSUME NEW S, 0 \in S, \A k \in Nat : k \in S => k + 1 \in S
  PROVE  Nat \subseteq S
<1> SUFFICES ASSUME NEW n \in Nat, n \notin S PROVE FALSE
  OBVIOUS
<1> DEFINE T == S \cap (0 .. n)
<1>1. IsFiniteSet(T) /\ Cardinality(T) \in Nat
  <2>1. IsFiniteSet(0 .. n)
    BY FS_Interval
  <2>2. T \in SUBSET (0 .. n)
    OBVIOUS
  <2> QED
    BY <2>1, <2>2, FS_Subset, FS_CardinalityType
<1>2. 0 \in T
  OBVIOUS
<1>3. IsFiniteSet(T \ {0}) /\ Cardinality(T \ {0}) = Cardinality(T) - 1
  BY <1>1, <1>2, FS_RemoveElement
<1> DEFINE f == [k \in T |-> k + 1]
<1>4. f \in [T -> T \ {0}]
  <2> SUFFICES ASSUME NEW k \in T PROVE k + 1 \in T \ {0}
    OBVIOUS
  <2>1. k \in Nat /\ k <= n /\ k # n /\ k + 1 \in S
    OBVIOUS
  <2> QED
    BY <2>1
<1>5. \A x, y \in T : f[x] = f[y] => x = y
  OBVIOUS
<1> HIDE DEF T, f
<1>6. Cardinality(T \ {0}) < Cardinality(T)
  BY <1>1, <1>3
<1>7. \E x, y \in T : x # y /\ f[x] = f[y]
  BY <1>1, <1>3, <1>4, <1>6, FS_PigeonHole
<1> QED
  BY <1>5, <1>7

\* What a fold over a set satisfies, if it picks from each set the element it takes last.
IsFold(g, D, base, f, pick) ==
    \A t \in SUBSET D : g[t] = IF t = {} THEN base ELSE f[<<g[t \ {pick[t]}], pick[t]>>]

\* What a fold over a finite set defines by recursion exists.
LEMMA FoldExists ==
  ASSUME NEW D, IsFiniteSet(D), NEW V, NEW base \in V, NEW f \in [V \X D -> V],
         NEW pick, \A t \in SUBSET D : t # {} => pick[t] \in t
  PROVE  \E g \in [SUBSET D -> V] : IsFold(g, D, base, f, pick)
<1> DEFINE Folds(g, t) == g[t] = IF t = {} THEN base ELSE f[<<g[t \ {pick[t]}], pick[t]>>]
           N == {n \in Nat : \E g \in [SUBSET D -> V] :
                                \A t \in SUBSET D : Cardinality(t) <= n => Folds(g, t)}
<1>1. \A t \in SUBSET D : IsFiniteSet(t) /\ Cardinality(t) \in Nat
  BY FS_Subset, FS_CardinalityType
<1>2. \A t \in SUBSET D : Cardinality(t) = 0 <=> t = {}
  BY <1>1, FS_EmptySet
<1>3. 0 \in N
  <2>1. PICK g : g = [t \in SUBSET D |-> base]
    OBVIOUS
  <2>2. g \in [SUBSET D -> V]
    BY <2>1
  <2>3. \A t \in SUBSET D : Cardinality(t) <= 0 => t = {}
    BY <1>1, <1>2
  <2> QED
    BY <2>1, <2>2, <2>3
<1>4. ASSUME NEW n \in Nat, n \in N PROVE n + 1 \in N
  <2>1. PICK g \in [SUBSET D -> V] : \A t \in SUBSET D : Cardinality(t) <= n => Folds(g, t)
    BY <1>4
  <2> DEFINE h == [t \in SUBSET D |-> IF Cardinality(t) <= n THEN g[t]
                                      ELSE f[<<g[t \ {pick[t]}], pick[t]>>]]
  <2>2. ASSUME NEW t \in SUBSET D, t # {}
        PROVE  /\ pick[t] \in D /\ t \ {pick[t]} \in SUBSET D
               /\ Cardinality(t \ {pick[t]}) = Cardinality(t) - 1
    <3>1. pick[t] \in t
      BY <2>2
    <3> QED
      BY <1>1, <3>1, FS_RemoveElement
  <2>3. h \in [SUBSET D -> V]
    <3> SUFFICES ASSUME NEW t \in SUBSET D PROVE h[t] \in V
      OBVIOUS
    <3>1. CASE Cardinality(t) <= n
      BY <3>1
    <3>2. CASE ~(Cardinality(t) <= n)
      <4>1. t # {}
        BY <1>2, <3>2
      <4>2. <<g[t \ {pick[t]}], pick[t]>> \in V \X D
        BY <2>2, <4>1
      <4> QED
        BY <3>2, <4>2
    <3> QED
      BY <3>1, <3>2
  <2>4. ASSUME NEW t \in SUBSET D, Cardinality(t) <= n + 1 PROVE Folds(h, t)
    <3>1. CASE t = {}
      BY <1>2, <2>1, <3>1
    <3>2. CASE t # {}
      <4>1. h[t \ {pick[t]}] = g[t \ {pick[t]}]
        BY <1>1, <2>2, <2>4, <3>2
      <4>2. h[t] = f[<<g[t \ {pick[t]}], pick[t]>>]
        BY <2>1, <3>2
      <4> QED
        BY <3>2, <4>1, <4>2
    <3> QED
      BY <3>1, <3>2
  <2> HIDE DEF h, Folds
  <2> QED
    BY <2>3, <2>4
<1> HIDE DEF N
<1>5. Cardinality(D) \in N
  <2>1. Cardinality(D) \in Nat
    BY <1>1
  <2> QED
    BY <1>3, <1>4, <2>1, Induction
<1>6. PICK g \in [SUBSET D -> V] : \A t \in SUBSET D : Cardinality(t) <= Cardinality(D) => Folds(g, t)
  BY <1>5 DEF N
<1>7. \A t \in SUBSET D : Cardinality(t) <= Cardinality(D)
  BY FS_Subset
<1> QED
  BY <1>6, <1>7 DEF IsFold


\* What the search has found in the targets it has gone through.
FoundIn(o, viable, acc) ==
    IF viable = {} THEN acc.best = {} /\ acc.score = 0 /\ ~acc.tied
    ELSE \E b \in viable : /\ acc.best = {b} /\ acc.score = Like(o, b)
                           /\ \A u \in viable : Like(o, u) <= Like(o, b)
                           /\ acc.tied <=> \E u \in viable \ {b} : Like(o, u) = Like(o, b)

Accs(o, targets) == [best : SUBSET targets, score : {Like(o, t) : t \in targets} \cup {0}, tied : BOOLEAN]

\* What the search has found is of the targets, whatever it meets.
LEMMA MeetIs ==
  ASSUME NEW o, NEW kind, NEW S, NEW t \in S, NEW acc \in Accs(o, S)
  PROVE  Meets(o, kind, t, acc) \in Accs(o, S)
<1>1. acc = [best |-> acc.best, score |-> acc.score, tied |-> acc.tied]
      /\ acc.best \in SUBSET S /\ acc.score \in {Like(o, u) : u \in S} \cup {0}
  BY DEF Accs
<1>2. [best |-> {t}, score |-> Like(o, t), tied |-> FALSE] \in Accs(o, S)
  BY DEF Accs
<1>3. [acc EXCEPT !.tied = @ \/ Like(o, t) = acc.score] \in Accs(o, S)
  BY <1>1 DEF Accs
<1> QED
  BY <1>2, <1>3 DEF Meets

\* One more target.
LEMMA MeetFinds ==
  ASSUME NEW o, NEW kind, NEW S, NEW t \in S, NEW acc \in Accs(o, S),
         \A u \in S : Like(o, u) \in Nat,
         FoundIn(o, Viable(o, kind, S \ {t}), acc)
  PROVE  FoundIn(o, Viable(o, kind, S), Meets(o, kind, t, acc))
<1> DEFINE score == Like(o, t)
           old == Viable(o, kind, S \ {t})
<1>0. PICK next : next = Meets(o, kind, t, acc)
  OBVIOUS
<1>a. /\ acc.best \in SUBSET S /\ acc.score \in {Like(o, u) : u \in S} \cup {0} /\ acc.tied \in BOOLEAN
      /\ acc = [best |-> acc.best, score |-> acc.score, tied |-> acc.tied]
  BY DEF Accs
<1>b. score \in Nat /\ \A u \in old : Like(o, u) \in Nat /\ u # t /\ u \in S
  BY DEF Viable
<1>1. CASE t.kind # kind \/ ~Comparable(o, t) \/ score = 0
  <2>1. next = acc
    BY <1>0, <1>1 DEF Meets
  <2>2. Viable(o, kind, S) = old
    BY <1>1, <1>b DEF Viable
  <2> QED
    BY <1>0, <2>1, <2>2
<1>2. CASE ~(t.kind # kind \/ ~Comparable(o, t) \/ score = 0)
  <2>1. Viable(o, kind, S) = old \cup {t} /\ score > 0
    BY <1>2, <1>b DEF Viable
  <2>2. CASE acc.best = {} \/ score > acc.score
    <3>1. next = [best |-> {t}, score |-> score, tied |-> FALSE]
      BY <1>0, <1>2, <2>2 DEF Meets
    <3>2. next.best = {t} /\ next.score = Like(o, t) /\ ~next.tied
      BY <3>1
    <3>3. \A u \in old : Like(o, u) < score
      <4>1. CASE old = {}
        BY <4>1
      <4>2. CASE old # {}
        <5>1. PICK b \in old : acc.best = {b} /\ acc.score = Like(o, b)
                               /\ \A u \in old : Like(o, u) <= Like(o, b)
          BY <4>2 DEF FoundIn
        <5>2. score > Like(o, b)
          BY <2>2, <5>1
        <5> QED
          BY <1>b, <5>1, <5>2
      <4> QED
        BY <4>1, <4>2
    <3>4. /\ \A u \in old \cup {t} : Like(o, u) <= Like(o, t)
          /\ ~\E u \in (old \cup {t}) \ {t} : Like(o, u) = Like(o, t)
      BY <1>b, <3>3
    <3>5. FoundIn(o, old \cup {t}, next)
      <4> HIDE DEF old
      <4> QED
        BY <3>2, <3>4 DEF FoundIn
    <3> QED
      BY <1>0, <2>1, <3>5
  <2>3. CASE ~(acc.best = {} \/ score > acc.score)
    <3>1. next = [acc EXCEPT !.tied = acc.tied \/ score = acc.score]
      BY <1>0, <1>2, <2>3 DEF Meets
    <3>2. next.best = acc.best /\ next.score = acc.score /\ (next.tied <=> acc.tied \/ score = acc.score)
          /\ next.tied \in BOOLEAN /\ next = [best |-> next.best, score |-> next.score, tied |-> next.tied]
      BY <1>a, <3>1
    <3>3. old # {}
      BY <2>3 DEF FoundIn
    <3>4. PICK b \in old : /\ acc.best = {b} /\ acc.score = Like(o, b)
                           /\ \A u \in old : Like(o, u) <= Like(o, b)
                           /\ acc.tied <=> \E u \in old \ {b} : Like(o, u) = Like(o, b)
      BY <3>3 DEF FoundIn
    <3>5. score <= Like(o, b)
      BY <1>b, <2>3, <3>4
    <3>6. /\ \A u \in old \cup {t} : Like(o, u) <= Like(o, b)
          /\ next.tied <=> \E u \in (old \cup {t}) \ {b} : Like(o, u) = Like(o, b)
      BY <1>b, <3>2, <3>4, <3>5
    <3>7. FoundIn(o, old \cup {t}, next)
      <4>1. b \in old \cup {t} /\ next.best = {b} /\ next.score = Like(o, b)
        BY <3>2, <3>4
      <4> HIDE DEF old
      <4> QED
        BY <3>6, <4>1 DEF FoundIn
    <3> QED
      BY <1>0, <2>1, <3>7
  <2> QED
    BY <2>2, <2>3
<1> QED
  BY <1>1, <1>2

\* The search finds the target that scores more than any other, if one does.
LEMMA BestFuzzyIs ==
  ASSUME NEW o, NEW kind, NEW targets, IsFiniteSet(targets),
         \A t \in targets : Like(o, t) \in Nat
  PROVE  LET viable == Viable(o, kind, targets)
         IN BestFuzzy(o, kind, targets)
              = {t \in viable : \A u \in viable \ {t} : Like(o, u) < Like(o, t)}
<1> DEFINE V == Accs(o, targets)
           base == [best |-> {}, score |-> 0, tied |-> FALSE]
           Some(s) == CHOOSE x \in s : TRUE
           Eq(iter) == iter = [s \in SUBSET targets |->
               IF s = {} THEN base ELSE Meets(o, kind, Some(s), iter[s \ {Some(s)}])]
           pick == [s \in SUBSET targets |-> Some(s)]
           f == [q \in V \X targets |-> Meets(o, kind, q[2], q[1])]
           Good(s, acc) == acc \in Accs(o, s) /\ FoundIn(o, Viable(o, kind, s), acc)
<1>1. ASSUME NEW s \in SUBSET targets, s # {}
      PROVE  pick[s] = Some(s) /\ pick[s] \in s
  <2>1. \E x \in s : TRUE
    BY <1>1
  <2> QED
    BY <2>1, Zenon
<1>2. base \in V /\ f \in [V \X targets -> V]
  <2>1. base \in V
    BY DEF Accs
  <2>2. ASSUME NEW q \in V \X targets PROVE Meets(o, kind, q[2], q[1]) \in V
    BY MeetIs
  <2> QED
    BY <2>1, <2>2
<1>3. \A t \in targets, acc \in V : f[<<acc, t>>] = Meets(o, kind, t, acc)
  OBVIOUS
<1>4. Good({}, base)
  BY DEF FoundIn, Viable, Accs
<1>5. ASSUME NEW s \in SUBSET targets, NEW t \in s, NEW acc, Good(s \ {t}, acc)
      PROVE  Good(s, Meets(o, kind, t, acc))
  <2>1. acc \in Accs(o, s)
    BY <1>5 DEF Accs
  <2> QED
    BY <1>5, <2>1, MeetIs, MeetFinds
<1> HIDE DEF V, base, f, pick, Some, Good
<1>6. PICK g \in [SUBSET targets -> V] : IsFold(g, targets, base, f, pick)
  BY <1>1, <1>2, FoldExists
<1>7. ASSUME NEW s \in SUBSET targets, s # {}
      PROVE  g[s] = Meets(o, kind, pick[s], g[s \ {pick[s]}])
  <2>1. g[s \ {pick[s]}] \in V /\ pick[s] \in targets
    BY <1>1, <1>7
  <2> QED
    BY <1>3, <1>6, <1>7, <2>1 DEF IsFold
<1>8. g[{}] = base
  BY <1>6 DEF IsFold
<1>9. Eq(g)
  <2>1. \A s \in SUBSET targets :
           g[s] = IF s = {} THEN base ELSE Meets(o, kind, Some(s), g[s \ {Some(s)}])
    BY <1>1, <1>7, <1>8
  <2> QED
    BY <2>1
<1>a. PICK iter : iter = CHOOSE v : Eq(v)
  OBVIOUS
<1>b. Eq(iter)
  <2> HIDE DEF Eq
  <2> QED
    BY <1>9, <1>a, Zenon
<1>c. FoldSet(LAMBDA t, acc : Meets(o, kind, t, acc), base, targets) = iter[targets]
  BY <1>a, Zenon DEF FoldSet, MapThenFoldSet, Some
<1>d. Good(targets, iter[targets])
  <2> DEFINE N == {n \in Nat : \A s \in SUBSET targets : Cardinality(s) = n => Good(s, iter[s])}
  <2>1. \A s \in SUBSET targets : /\ IsFiniteSet(s) /\ Cardinality(s) \in Nat
                                  /\ Cardinality(s) = 0 <=> s = {}
    BY FS_Subset, FS_CardinalityType, FS_EmptySet
  <2>2. 0 \in N
    BY <1>4, <1>b, <2>1
  <2>3. ASSUME NEW n \in Nat, n \in N PROVE n + 1 \in N
    <3> SUFFICES ASSUME NEW s \in SUBSET targets, Cardinality(s) = n + 1 PROVE Good(s, iter[s])
      OBVIOUS
    <3>1. s # {} /\ Some(s) \in s
      BY <1>1, <2>1
    <3>2. Cardinality(s \ {Some(s)}) = n /\ s \ {Some(s)} \in SUBSET targets
      <4>1. Cardinality(s \ {Some(s)}) = Cardinality(s) - 1
        BY <2>1, <3>1, FS_RemoveElement
      <4> QED
        BY <4>1
    <3>3. Good(s \ {Some(s)}, iter[s \ {Some(s)}])
      BY <2>3, <3>2
    <3>4. iter[s] = Meets(o, kind, Some(s), iter[s \ {Some(s)}])
      BY <1>b, <3>1
    <3> QED
      BY <1>5, <3>1, <3>3, <3>4
  <2> HIDE DEF N
  <2>4. Nat \subseteq N
    BY <2>2, <2>3, Induction
  <2> QED
    BY <2>1, <2>4 DEF N
<1>e. PICK acc : acc = iter[targets]
  OBVIOUS
<1>g. BestFuzzy(o, kind, targets) = IF acc.tied THEN {} ELSE acc.best
  BY <1>c, <1>e DEF BestFuzzy, base
<1>v. PICK viable : viable = Viable(o, kind, targets)
  OBVIOUS
<1>f. FoundIn(o, viable, acc) /\ \A u \in viable : Like(o, u) \in Nat
  BY <1>d, <1>e, <1>v DEF Good, Viable
<1>h. (IF acc.tied THEN {} ELSE acc.best)
         = {t \in viable : \A u \in viable \ {t} : Like(o, u) < Like(o, t)}
  <2>1. CASE viable = {}
    BY <1>f, <2>1 DEF FoundIn
  <2>2. CASE viable # {}
    <3>1. PICK b \in viable : /\ acc.best = {b}
                              /\ \A u \in viable : Like(o, u) <= Like(o, b)
                              /\ acc.tied <=> \E u \in viable \ {b} : Like(o, u) = Like(o, b)
      BY <1>f, <2>2 DEF FoundIn
    <3>2. CASE acc.tied
      <4>1. \A t \in viable : \E u \in viable \ {t} : ~(Like(o, u) < Like(o, t))
        BY <1>f, <3>1, <3>2
      <4> QED
        BY <3>2, <4>1
    <3>3. CASE ~acc.tied
      <4>1. \A u \in viable \ {b} : Like(o, u) < Like(o, b) /\ ~(Like(o, b) < Like(o, u))
        BY <1>f, <3>1, <3>3
      <4> QED
        BY <3>1, <3>3, <4>1
    <3> QED
      BY <3>2, <3>3
  <2> QED
    BY <2>1, <2>2
<1> QED
  BY <1>g, <1>h, <1>v

\* A target is titled alone if no other like it has its title.
LEMMA OnlyOneIs ==
  ASSUME NEW S, IsFiniteSet(S)
  PROVE  /\ \A t \in TheOnlyOne(S) : S = {t}
         /\ TheOnlyOne(S) = {} /\ S # {} => \E a, b \in S : a # b
<1>1. \A t \in S : S = {t} => Cardinality(S) = 1
  BY FS_Singleton
<1>2. Cardinality(S) = 1 => \E x : S = {x}
  BY FS_Singleton
<1> QED
  BY <1>1, <1>2 DEF TheOnlyOne

\* What an object of a title, an area and an openness is queued as.
Stands(c, o, kind) ==
    c.title = o.title /\ c.area = o.area /\ c.closed = o.closed /\ c.kind = kind

\* Each rule for titles finds the foremost target, if the ones before found none.
LEMMA RulesFindForemost ==
  ASSUME NEW o, NEW kind, NEW c, Stands(c, o, kind), o.title \in Titles,
         NEW targets, IsFiniteSet(targets), \A t \in targets : t.title \in Titles
  PROVE  LET foremost == Foremost(Rivals(c, targets), c)
             exact == Titled(o, kind, targets, "exact")
             normal == Titled(o, kind, targets, "normal")
         IN /\ \A t \in exact : t \in foremost
            /\ exact = {} => \A t \in normal : t \in foremost
            /\ exact = {} /\ normal = {} => BestFuzzy(o, kind, targets) = foremost
<1> DEFINE Of(form) == {t \in targets : /\ t.kind = kind /\ Comparable(o, t)
                                        /\ t.title[form] = o.title[form]}
<1>1. PICK X, N : X = Of("exact") /\ N = Of("normal")
  OBVIOUS
<1>2. /\ \A t \in X : t \in targets /\ t.title.exact = o.title.exact
      /\ \A t \in N : t \in targets /\ t.title.normal = o.title.normal
  BY <1>1
<1>3. X \subseteq N
  BY <1>1, TitlesAssumption
<1>4. /\ Titled(o, kind, targets, "exact") = TheOnlyOne(X)
      /\ Titled(o, kind, targets, "normal") = TheOnlyOne(N)
  BY <1>1 DEF Titled
<1>5. IsFiniteSet(X) /\ IsFiniteSet(N)
  <2>1. X \in SUBSET targets /\ N \in SUBSET targets
    BY <1>2
  <2> QED
    BY <2>1, FS_Subset
<1>6. Same \in Nat /\ Same > 0
  BY LikenessAssumption
<1>7. \A t \in targets : Like(o, t) \in 0 .. Same
  BY TitlesAssumption, LikenessAssumption DEF Like
<1>8. \A a \in N : Like(o, a) = Same \/ \A t \in targets : Like(o, t) = 0
  <2> SUFFICES ASSUME NEW a \in N, Like(o, a) # Same, NEW t \in targets PROVE Like(o, t) = 0
    OBVIOUS
  <2> DEFINE n == o.title.normal
  <2>1. <<n, n>> \in DOMAIN Likeness /\ <<n, t.title.normal>> \in DOMAIN Likeness
    BY TitlesAssumption
  <2>2. Like(o, a) = Likeness[<<n, n>>]
    BY <1>2 DEF Like
  <2>3. \A other \in DOMAIN Likeness : other[1] = n => Likeness[other] = 0
    BY <2>1, <2>2, LikenessAssumption
  <2> QED
    BY <2>1, <2>3 DEF Like
<1> DEFINE R == Rivals(c, targets)
<1>9. \A t \in targets : Claim(c, t) = IF t.title.exact = o.title.exact THEN Same + 2
                                       ELSE IF t.title.normal = o.title.normal THEN Same + 1
                                       ELSE Like(o, t)
  BY DEF Claim, Stands, Like
<1>a. R = {t \in targets : t.kind = kind /\ Comparable(o, t) /\ Claim(c, t) > 0}
  BY DEF Rivals, Stands, Comparable
<1>b. /\ \A t \in X : t \in R /\ Claim(c, t) = Same + 2
      /\ \A t \in N \ X : t \in R /\ Claim(c, t) = Same + 1
  BY <1>1, <1>3, <1>6, <1>9, <1>a
<1>c. \A t \in R \ N : t \in targets /\ Claim(c, t) = Like(o, t) /\ Claim(c, t) <= Same
  BY <1>1, <1>3, <1>7, <1>9, <1>a
<1>d. PICK F : F = Foremost(Rivals(c, targets), c)
  OBVIOUS
<1>e. F = {t \in R : \A u \in R \ {t} : Claim(c, u) < Claim(c, t)}
  BY <1>d DEF Foremost
<1> HIDE DEF R, Of
<1>f. \A t \in TheOnlyOne(X) : t \in F
  <2> SUFFICES ASSUME NEW t, X = {t} PROVE t \in F
    BY <1>5, OnlyOneIs
  <2>1. t \in R /\ Claim(c, t) = Same + 2
    BY <1>b
  <2>2. \A u \in R \ {t} : Claim(c, u) <= Same + 1
    BY <1>6, <1>7, <1>b, <1>c
  <2> QED
    BY <1>6, <1>e, <1>7, <1>b, <1>c, <2>1, <2>2
<1>g. TheOnlyOne(X) = {} => \A t \in TheOnlyOne(N) : t \in F
  <2> SUFFICES ASSUME TheOnlyOne(X) = {}, NEW t, N = {t} PROVE t \in F
    BY <1>5, OnlyOneIs
  <2>1. X = {}
    BY <1>3, <1>5, OnlyOneIs
  <2>2. t \in R /\ Claim(c, t) = Same + 1
    BY <1>b, <2>1
  <2>3. \A u \in R \ {t} : Claim(c, u) \in Nat /\ Claim(c, u) <= Same
    BY <1>7, <1>c
  <2> QED
    BY <1>6, <1>e, <2>2, <2>3
<1>h. ASSUME TheOnlyOne(X) = {}, TheOnlyOne(N) = {}
      PROVE  BestFuzzy(o, kind, targets) = F
  <2>1. PICK V : V = Viable(o, kind, targets)
    OBVIOUS
  <2>2. BestFuzzy(o, kind, targets) = {t \in V : \A u \in V \ {t} : Like(o, u) < Like(o, t)}
    BY <1>7, <2>1, BestFuzzyIs
  <2>3. CASE N = {}
    <3>1. V = R /\ \A t \in R : Claim(c, t) = Like(o, t)
      BY <1>1, <1>3, <1>9, <1>a, <1>c, <2>1, <2>3 DEF Viable, Of
    <3> QED
      BY <1>e, <2>2, <3>1
  <2>4. CASE N # {}
    <3>1. PICK a, b \in N : a # b
      BY <1>5, <1>h, <2>4, OnlyOneIs
    <3>2. F = {}
      <4> SUFFICES ASSUME NEW t \in R PROVE \E u \in R \ {t} : ~(Claim(c, u) < Claim(c, t))
        BY <1>e
      <4>1. CASE t \in X
        <5>1. PICK u \in X : u # t
          BY <1>5, <1>h, <4>1, OnlyOneIs
        <5> QED
          BY <1>6, <1>b, <4>1, <5>1
      <4>2. CASE t \in N \ X
        BY <1>6, <1>b, <3>1, <4>2
      <4>3. CASE t \notin N
        <5>1. a \in R \ {t} /\ Claim(c, a) > Same /\ Claim(c, a) \in Nat
          BY <1>6, <1>b, <4>3
        <5> QED
          BY <1>6, <1>7, <1>c, <4>3, <5>1
      <4> QED
        BY <4>1, <4>2, <4>3
    <3>3. ASSUME NEW t \in V PROVE \E u \in V \ {t} : ~(Like(o, u) < Like(o, t))
      <4>1. t \in targets /\ Like(o, t) > 0
        BY <2>1 DEF Viable
      <4>2. Like(o, a) = Same /\ Like(o, b) = Same
        BY <1>8, <4>1
      <4>3. a \in V /\ b \in V
        BY <1>1, <1>6, <2>1, <4>2 DEF Viable, Of
      <4> QED
        BY <1>6, <1>7, <3>1, <4>1, <4>2, <4>3
    <3> QED
      BY <2>2, <3>2, <3>3
  <2> QED
    BY <2>3, <2>4
<1> QED
  BY <1>4, <1>d, <1>f, <1>g, <1>h

\* What a candidate is proposed as.
NamesForemost(c, targets) ==
    LET named == {t.id : t \in Foremost(Rivals(c, targets), c)}
        byTitle == {p \in c.proposal : p[1] # "existing_mapping"}
    IN /\ {p[2] : p \in byTitle} \subseteq named
       /\ c.kind # "key_result" => (c.proposal = {} => named = {})

\* Whichever rule reads an object, it names the foremost target or none.
LEMMA ReadingNames ==
  ASSUME NEW o, o.title \in Titles, NEW objectives,
         NEW targets, IsFiniteSet(targets), \A t \in targets : t.title \in Titles,
         NEW c, c = Candidate(o, Reading(o, targets, objectives)), c.kind \in Adoptable
  PROVE  NamesForemost(c, targets)
<1> DEFINE kind == c.kind
           F == Foremost(Rivals(c, targets), c)
           exact == Proposals("exact_title", Titled(o, kind, targets, "exact"))
           normal == Proposals("normalised_title", Titled(o, kind, targets, "normal"))
           fuzzy == Proposals("fuzzy_title", BestFuzzy(o, kind, targets))
<1>1. Stands(c, o, kind)
  BY DEF Stands, Candidate
<1>2. /\ \A t \in Titled(o, kind, targets, "exact") : t \in F
      /\ Titled(o, kind, targets, "exact") = {} => \A t \in Titled(o, kind, targets, "normal") : t \in F
      /\ Titled(o, kind, targets, "exact") = {} /\ Titled(o, kind, targets, "normal") = {}
            => BestFuzzy(o, kind, targets) = F
  BY <1>1, RulesFindForemost
<1>3. /\ exact = {} <=> Titled(o, kind, targets, "exact") = {}
      /\ normal = {} <=> Titled(o, kind, targets, "normal") = {}
      /\ fuzzy = {} <=> BestFuzzy(o, kind, targets) = {}
  BY DEF Proposals
<1>4. PICK named : named = {t.id : t \in F}
  OBVIOUS
<1>5. ByTitle(o, kind, targets) = IF exact # {} THEN exact ELSE normal
  BY DEF ByTitle, OrElse
<1>6. \A p \in ByTitle(o, kind, targets) : p[2] \in named
  <2>1. \A p \in exact : p[2] \in named
    BY <1>2, <1>4 DEF Proposals
  <2>2. exact = {} => \A p \in normal : p[2] \in named
    BY <1>2, <1>3, <1>4 DEF Proposals
  <2> QED
    BY <1>5, <2>1, <2>2
<1>7. CASE c.proposal = Resolve(o, kind, targets)
  <2>1. PICK mapped : mapped = Proposals("existing_mapping", {t \in targets : t.id = o.mapped})
    OBVIOUS
  <2>2. \A p \in mapped : p[1] = "existing_mapping"
    BY <2>1 DEF Proposals
  <2>3. c.proposal = IF mapped # {} THEN mapped
                     ELSE IF ByTitle(o, kind, targets) # {} THEN ByTitle(o, kind, targets) ELSE fuzzy
    BY <1>7, <2>1 DEF Resolve, OrElse
  <2>4. ByTitle(o, kind, targets) = {} => (\A p \in fuzzy : p[2] \in named) /\ (fuzzy = {} => named = {})
    BY <1>2, <1>3, <1>4, <1>5 DEF Proposals
  <2>5. \A p \in c.proposal : p[1] # "existing_mapping" => p[2] \in named
    BY <1>6, <2>2, <2>3, <2>4
  <2>6. c.proposal = {} => named = {}
    BY <2>3, <2>4
  <2> QED
    BY <1>4, <2>5, <2>6 DEF NamesForemost
<1>8. CASE kind = "key_result" /\ c.proposal = ResolveAcrossKinds(o, targets)
  BY <1>4, <1>6, <1>8 DEF NamesForemost, ResolveAcrossKinds
<1> QED
  BY <1>7, <1>8 DEF Candidate, Reading

TitlesOK ==
    /\ \A i \in Ids : entity[i].title \in Titles
    /\ \A c \in candidate : c.title \in Titles
    /\ IsFiniteSet(scan.targets) /\ \A t \in scan.targets : t.title \in Titles

\* What a scan reads has one of the titles there are.
LEMMA ObjectsAreTitled ==
  ASSUME NEW tasksOf \in DOMAIN Snapshot, NEW pagesOf \in DOMAIN Snapshot, NEW readable,
         NEW o \in Objects(tasksOf, pagesOf, readable)
  PROVE  o.title \in Titles
<1> DEFINE read == Snapshot[tasksOf]
           pages == {p \in Snapshot[pagesOf].pages : p.role \in readable}
           Has(name) == {x.title : x \in Snapshot[name].tasks \cup Snapshot[name].projects
                                         \cup Snapshot[name].pages}
<1>1. \/ \E x \in read.tasks \cup read.projects : o.title = x.title
      \/ \E x \in Snapshot[pagesOf].pages : o.title = x.title
  <2>1. CASE o \in AdaptTasks(read.tasks)
    <3>1. \E x \in read.tasks : o.title = x.title
      BY <2>1 DEF AdaptTasks, Plain
    <3> QED
      BY <3>1
  <2>2. CASE o \in AdaptProjects(read.projects, read.sections)
    <3>1. \E x \in read.projects : o.title = x.title
      BY <2>2 DEF AdaptProjects, Plain
    <3> QED
      BY <3>1
  <2>3. CASE o \in AdaptDocRecords(pages)
    <3>1. \E x \in pages : o.title = x.title
      BY <2>3 DEF AdaptDocRecords, Plain
    <3> QED
      BY <3>1
  <2> QED
    BY <2>1, <2>2, <2>3 DEF Objects, ReadPages
<1>2. o.title \in Has(tasksOf) \cup Has(pagesOf)
  BY <1>1
<1>3. Has(tasksOf) \subseteq Titles /\ Has(pagesOf) \subseteq Titles
  BY Zenon DEF Titles
<1> QED
  BY <1>2, <1>3

\* The targets a scan loads are entities.
LEMMA TargetsAreTitled ==
  ASSUME RowsOK, \A i \in Ids : entity[i].title \in Titles
  PROVE  IsFiniteSet(Targets) /\ \A t \in Targets : t.title \in Titles
<1>1. IsFiniteSet(Ids)
  BY FS_Interval DEF Ids, RowsOK
<1>2. PICK some : some = {j \in Ids : Unbound(j)}
  OBVIOUS
<1>3. some \in SUBSET Ids
  BY <1>2
<1>4. IsFiniteSet(some)
  BY <1>1, <1>3, FS_Subset
<1>5. PICK f : f = [i \in some |-> AsTarget(i)]
  OBVIOUS
<1>6. Targets = {AsTarget(i) : i \in some}
  BY <1>2 DEF Targets
<1>7. f \in Surjection(some, Targets)
  BY <1>5, <1>6 DEF Surjection
<1>8. IsFiniteSet(Targets)
  BY <1>4, <1>7, FS_Surjection
<1>9. \A i \in some : AsTarget(i).title \in Titles
  BY <1>3 DEF AsTarget
<1> QED
  BY <1>6, <1>8, <1>9

\* A new queue is of what was read, and no step makes a title up.
LEMMA TitlesStep ==
  ASSUME TitlesOK, RowsOK, RequestsOK, ScanOK, [AdoptionNext]_adoptionVars
  PROVE  TitlesOK'
<1>1. \A i \in Ids' : entity'[i].title \in Titles
  <2>1. ASSUME NEW c \in candidate, AdoptCandidate(c)
        PROVE  \A i \in Ids' : entity'[i].title \in Titles
    <3>1. PICK e : entity' = Append(entity, e) /\ e.title = c.title
      BY <2>1 DEF AdoptCandidate
    <3>2. /\ Len(entity') = Len(entity) + 1
          /\ \A i \in 1 .. Len(entity) : entity'[i] = entity[i]
          /\ entity'[Len(entity) + 1] = e
      BY <3>1, OneMore DEF RowsOK, Ids
    <3>3. \A i \in Ids' : i \in Ids \/ i = Len(entity) + 1
      BY <3>2 DEF Ids, RowsOK
    <3> QED
      BY <3>1, <3>2, <3>3 DEF TitlesOK, Ids
  <2>2. ASSUME \A c \in candidate : ~AdoptCandidate(c)
        PROVE  \A i \in Ids' : i \in Ids
    <3>1. entity' = entity \/ DOMAIN entity' = DOMAIN entity
      BY <2>2, WhatChangesRows
         DEF DecideAdoption, LinksRitualPage, LinksRitualTask, Ritual, WritesRitual, Bind
    <3>2. Len(entity') = Len(entity)
      BY <3>1 DEF RowsOK, Ids
    <3> QED
      BY <3>2 DEF Ids
  <2>3. \A i \in Ids : entity'[i].title = entity[i].title
    BY KindsStay
  <2> QED
    BY <2>1, <2>2, <2>3 DEF TitlesOK
<1>2. \A c \in candidate' : c.title \in Titles
  <2>1. CASE ReplaceCandidates
    <3> SUFFICES ASSUME NEW c \in candidate' PROVE c.title \in Titles
      OBVIOUS
    <3>1. PICK o \in Objects(scan.tasksOf, scan.pagesOf, scan.readable) : c.title = o.title
      BY <2>1 DEF ReplaceCandidates, Scanned, Candidate
    <3>2. scan.tasksOf \in DOMAIN Snapshot /\ scan.pagesOf \in DOMAIN Snapshot
      BY <2>1 DEF ReplaceCandidates, ScanOK
    <3> QED
      BY <3>1, <3>2, ObjectsAreTitled
  <2>2. CASE UNCHANGED candidate
    BY <2>2 DEF TitlesOK
  <2> QED
    BY <2>1, <2>2, QueueIsReplaced
<1>3. IsFiniteSet(scan'.targets) /\ \A t \in scan'.targets : t.title \in Titles
  <2>1. scan'.targets \in {{}, scan.targets, Targets}
    <3> USE DEF ScanOK, Resting
    <3>1. ASSUME NEW what, Load(what) PROVE scan'.targets \in {scan.targets, Targets}
      BY <3>1 DEF Load
    <3>2. ASSUME NEW readable, ReadDocs(readable) PROVE scan'.targets = scan.targets
      BY <3>2 DEF ReadDocs
    <3>3. CASE ReadTasks
      BY <3>3 DEF ReadTasks
    <3>4. CASE BeginScan \/ ReplaceCandidates \/ MirrorTakeaways \/ EndScan
      <4>1. \/ scan' = [Resting EXCEPT !.at = "store", !.toRead = {"targets", "links", "ignores"}]
            \/ scan' = Resting \/ scan' = [Resting EXCEPT !.at = "mirror", !.seen = scan.seen]
        BY <3>4 DEF BeginScan, ReplaceCandidates, MirrorTakeaways, EndScan
      <4>2. Resting.targets = {} /\ "targets" \in DOMAIN Resting
        OBVIOUS
      <4>3. scan'.targets = {}
        <5> HIDE DEF Resting
        <5> QED
          BY <4>1, <4>2
      <4> QED
        BY <4>3
    <3>5. CASE UNCHANGED scan
      BY <3>5
    <3>6. CASE Adopt \/ Merge \/ Ignore \/ Tend \/ Answer \/ Reconcile \/ EditTools \/ NextDay
      BY <3>5, <3>6 DEF Adopt, AdoptCandidate, Merge, DecideAdoption, Ignore, IgnoreCandidate,
                  ShowEnded, Tend, Promote, UpdateRitual, Answer, IgnoreEnded, Write, GiveUp,
                  Reconcile, Bind, EditTools, NextDay
    <3> QED
      BY <3>1, <3>2, <3>3, <3>4, <3>5, <3>6 DEF AdoptionNext, ContinueScan, adoptionVars
  <2> QED
    BY <2>1, FS_EmptySet, TargetsAreTitled DEF TitlesOK
<1> QED
  BY <1>1, <1>2, <1>3 DEF TitlesOK

\* ProposalIsTheOnlyOne: a row of a new queue is proposed by its title as the one
\* target that no other comes near to, and as none when there is no such target.
THEOREM ProposalsNameOne == AdoptionSpec => ProposalIsTheOnlyOne
<1>1. AdoptionInit => TitlesOK
  <2>1. {Known[i].title : i \in 1 .. Len(Known)} \subseteq Titles
    BY Zenon DEF Titles
  <2> QED
    BY <2>1, FS_EmptySet DEF AdoptionInit, TitlesOK, Ids, Resting
<1>2. AdoptionInv /\ TitlesOK /\ [AdoptionNext]_adoptionVars => TitlesOK'
  BY TitlesStep DEF AdoptionInv
<1>3. AdoptionSpec => []TitlesOK
  BY <1>1, <1>2, AdoptionInvHolds, PTL DEF AdoptionSpec
<1> DEFINE Proposed == candidate' # candidate =>
                          \A c \in candidate' : NamesForemost(c, scan.targets)
<1>4. AdoptionInv /\ TitlesOK /\ [AdoptionNext]_adoptionVars => [Proposed]_adoptionVars
  <2> SUFFICES ASSUME AdoptionInv, TitlesOK, [AdoptionNext]_adoptionVars,
                      candidate' # candidate, NEW c \in candidate'
               PROVE  NamesForemost(c, scan.targets)
    OBVIOUS
  <2>1. ReplaceCandidates
    BY QueueIsReplaced
  <2>2. PICK o \in Objects(scan.tasksOf, scan.pagesOf, scan.readable) :
           c = Candidate(o, Reading(o, scan.targets, scan.objectives)) /\ c.kind \in Adoptable
    BY <2>1 DEF ReplaceCandidates, Scanned
  <2>3. scan.tasksOf \in DOMAIN Snapshot /\ scan.pagesOf \in DOMAIN Snapshot
    BY <2>1 DEF ReplaceCandidates, ScanOK, AdoptionInv
  <2>4. o.title \in Titles
    BY <2>3, ObjectsAreTitled
  <2> QED
    BY <2>2, <2>4, ReadingNames DEF TitlesOK
<1>5. AdoptionSpec => [][Proposed]_adoptionVars
  BY <1>3, <1>4, AdoptionInvHolds, PTL DEF AdoptionSpec
<1> QED
  BY <1>5 DEF ProposalIsTheOnlyOne, NamesForemost

TakeawayRows == \A t \in takeaway : DOMAIN t = {"id", "type", "promoted"}

Unseen == scan.seen = Absent

SeenOK ==
    /\ scan.at \in {"rest", "store", "tasks", "pages"} => Unseen
    /\ scan.at = "mirror" => ~Unseen
    /\ scan.at \in {"queue", "mirror"} /\ ~Unseen =>
          \A t \in takeaway : t.id \in lacked \/ \E s \in scan.seen : s.id = t.id

\* Only the mirror adds a takeaway or forgets one.
LEMMA TakeawaysStay ==
  ASSUME TakeawayRows, [AdoptionNext]_adoptionVars, ~MirrorTakeaways
  PROVE  /\ {t.id : t \in takeaway'} = {t.id : t \in takeaway}
         /\ TakeawayRows'
<1>1. CASE UNCHANGED takeaway
  BY <1>1 DEF TakeawayRows
<1>2. ASSUME NEW r, takeaway' = {IF <<"page", t.id>> = r.key THEN [t EXCEPT !.promoted = TRUE] ELSE t : t \in takeaway}
      PROVE  /\ {t.id : t \in takeaway'} = {t.id : t \in takeaway}
             /\ TakeawayRows'
  <2> DEFINE now(t) == IF <<"page", t.id>> = r.key THEN [t EXCEPT !.promoted = TRUE] ELSE t
  <2>1. \A t \in takeaway : now(t).id = t.id /\ DOMAIN now(t) = DOMAIN t
    BY DEF TakeawayRows
  <2>2. takeaway' = {now(t) : t \in takeaway}
    BY <1>2
  <2> HIDE DEF now
  <2> QED
    BY <2>1, <2>2 DEF TakeawayRows
<1>3. CASE Answer
  BY <1>1, <1>2, <1>3 DEF Answer, IgnoreEnded, Write, GiveUp
<1>4. CASE AdoptionNext /\ ~Answer
  BY <1>1, <1>4 DEF AdoptionNext, BeginScan, ContinueScan, Load, ReadTasks, ReadDocs,
           ReplaceCandidates, EndScan, Adopt, AdoptCandidate, Merge,
           DecideAdoption, Ignore, IgnoreCandidate, ShowEnded, Tend, Promote, UpdateRitual,
           Reconcile, Bind, EditTools, NextDay
<1> QED
  BY <1>1, <1>3, <1>4 DEF adoptionVars

\* Mirroring takeaways leaves rows of takeaways that carry the page's id and type.
LEMMA MirrorRows ==
  ASSUME TakeawayRows, MirrorTakeaways
  PROVE  TakeawayRows'
BY DEF MirrorTakeaways, Mirrored, TakeawayRows

\* What the read of the store saw and what it was without are all there is.
LEMMA ReadSees ==
  ASSUME NEW readable, ReadDocs(readable), NotesLacked, SeenOK, ScanOK
  PROVE  SeenOK'
<1>1. scan.at = "pages" /\ takeaway' = takeaway /\ Unseen
  BY DEF ReadDocs, SeenOK
<1>2. /\ scan'.at = "queue"
      /\ scan'.seen = IF "takeaways_db" \in readable THEN Typed(ReadPages(tools, readable)) ELSE scan.seen
  BY DEF ReadDocs, ScanOK, Resting
<1>3. lacked' = lacked \cup LacksNow(tools)
  BY <1>1, <1>2 DEF NotesLacked
<1>4. CASE "takeaways_db" \notin readable
  BY <1>1, <1>2, <1>4 DEF SeenOK, Unseen
<1>5. CASE "takeaways_db" \in readable
  <2> SUFFICES ASSUME NEW t \in takeaway, t.id \notin LacksNow(tools)
               PROVE  \E s \in scan'.seen : s.id = t.id
    BY <1>1, <1>2, <1>3 DEF SeenOK
  <2>1. PICK p \in Snapshot[tools].pages :
           p.role = "takeaways_db" /\ ~p.archived /\ p.type # Absent /\ p.id = t.id
    BY DEF LacksNow
  <2>2. PICK o \in ReadPages(tools, readable) :
           o.id = p.id /\ o.role = p.role /\ o.type = p.type /\ o.closed = p.archived
    <3> DEFINE End(q) == IF q.end = Absent THEN q.start ELSE q.end
               Backwards(q) == q.start # Absent /\ End(q) < q.start
               starts(q) == IF Backwards(q) THEN End(q) ELSE q.start
               ends(q) == IF q.start = Absent THEN Absent
                          ELSE IF Backwards(q) THEN q.start ELSE End(q)
               made(q, start, end) ==
                  [Plain EXCEPT !.kind = "page", !.id = q.id, !.title = q.title, !.closed = q.archived,
                                !.role = q.role, !.type = q.type, !.mapped = q.mapped,
                                !.area = AreaOfRelation(q.related), !.starts = start, !.ends = end]
    <3>1. \A start, end : LET m == made(p, start, end)
                         IN m.id = p.id /\ m.role = p.role /\ m.type = p.type /\ m.closed = p.archived
      BY DEF Plain
    <3>2. made(p, starts(p), ends(p)) \in ReadPages(tools, readable)
      BY <1>5, <2>1, Zenon DEF ReadPages, AdaptDocRecords
    <3> HIDE DEF made
    <3> QED
      BY <3>1, <3>2
  <2>3. [id |-> o.id, type |-> o.type] \in Typed(ReadPages(tools, readable))
    BY <2>1, <2>2 DEF Typed
  <2> QED
    BY <1>2, <1>5, <2>1, <2>2, <2>3
<1> QED
  BY <1>4, <1>5

\* Once a scan has read the document store, each takeaway was seen in it or is noted as
\* lacking, whatever steps.
LEMMA SeenStep ==
  ASSUME AdoptionInv, TakeawayRows, SeenOK, [AdoptionNext /\ NotesLacked]_lackedVars
  PROVE  SeenOK'
<1> USE DEF SeenOK
<1>0. ScanOK
  BY DEF AdoptionInv
<1>1. CASE UNCHANGED lackedVars
  BY <1>1 DEF lackedVars, adoptionVars, Unseen
<1> SUFFICES ASSUME AdoptionNext, NotesLacked PROVE SeenOK'
  BY <1>1
<1>2. scan.at # "rest" /\ scan'.at # "rest" => lacked \subseteq lacked'
  BY DEF NotesLacked
<1>3. ASSUME ~MirrorTakeaways, scan'.seen = scan.seen,
             scan'.at \in {"queue", "mirror"} => scan.at \in {"queue", "mirror"},
             scan.at \in {"queue", "mirror"} => scan'.at \in {"queue", "mirror"},
             scan'.at = "mirror" => ~Unseen
      PROVE  SeenOK'
  <2>1. \A t \in takeaway' : \E u \in takeaway : u.id = t.id
    <3>1. {t.id : t \in takeaway'} = {t.id : t \in takeaway}
      BY <1>3, TakeawaysStay
    <3> QED
      BY <3>1
  <2>2. CASE scan.at \in {"queue", "mirror"}
    BY <1>2, <1>3, <2>1, <2>2 DEF Unseen
  <2>3. CASE scan.at \notin {"queue", "mirror"}
    BY <1>0, <1>3, <2>3 DEF Unseen, ScanOK
  <2> QED
    BY <2>2, <2>3
<1>4. ASSUME scan' = Resting
      PROVE  SeenOK'
  BY <1>4 DEF Resting, Unseen
<1>5. CASE BeginScan
  BY <1>5 DEF BeginScan, Resting, Unseen
<1>6. ASSUME NEW what, Load(what)
      PROVE  SeenOK'
  <2>1. scan'.seen = scan.seen /\ scan'.at \in {"store", "tasks"} /\ scan.at = "store"
    BY <1>0, <1>6 DEF Load, ScanOK, Resting
  <2> QED
    BY <2>1 DEF Unseen
<1>7. CASE ReadTasks
  <2>1. scan'.seen = scan.seen /\ scan'.at = "pages" /\ scan.at = "tasks"
    BY <1>0, <1>7 DEF ReadTasks, ScanOK, Resting
  <2> QED
    BY <2>1 DEF Unseen
<1>8. ASSUME NEW readable, ReadDocs(readable)
      PROVE  SeenOK'
  BY <1>0, <1>8, ReadSees
<1>9. CASE ReplaceCandidates /\ scan.seen # Absent
  <2>1. scan'.seen = scan.seen /\ scan'.at = "mirror" /\ scan.at = "queue"
    BY <1>9 DEF ReplaceCandidates, Resting
  <2> QED
    BY <1>3, <1>9, <2>1 DEF MirrorTakeaways, Unseen
<1>10. CASE ~ContinueScan /\ ~BeginScan
  <2>1. scan' = scan
    BY <1>10 DEF AdoptionNext, Adopt, AdoptCandidate, Merge, DecideAdoption, Ignore,
           IgnoreCandidate, ShowEnded, Tend, Promote, UpdateRitual, Answer, IgnoreEnded, Write,
           GiveUp, Reconcile, Bind, EditTools, NextDay
  <2> QED
    BY <1>3, <1>10, <2>1 DEF ContinueScan
<1> QED
  BY <1>4, <1>5, <1>6, <1>7, <1>8, <1>9, <1>10
     DEF ContinueScan, ReplaceCandidates, MirrorTakeaways, EndScan

\* TakeawaysAreKept: the mirror forgets a takeaway only when nothing was promoted from
\* it and a document store that was really read was without it.
THEOREM KeepsTakeaways == LackedSpec => TakeawaysAreKept
<1> DEFINE Kept == \A t \in takeaway : (\A u \in takeaway' : u.id # t.id) => ~t.promoted /\ t.id \in lacked
<1>1. AdoptionInit => TakeawayRows /\ SeenOK
  BY DEF AdoptionInit, TakeawayRows, SeenOK, Unseen, Resting
<1>2. LackedSpec => AdoptionSpec
  <2>1. [AdoptionNext /\ NotesLacked]_lackedVars => [AdoptionNext]_adoptionVars
    BY DEF lackedVars
  <2> QED
    BY <2>1, PTL DEF LackedSpec, AdoptionSpec
<1>3. AdoptionInv /\ TakeawayRows /\ SeenOK /\ [AdoptionNext /\ NotesLacked]_lackedVars
         => TakeawayRows' /\ SeenOK'
  <2> SUFFICES ASSUME AdoptionInv, TakeawayRows, SeenOK, [AdoptionNext /\ NotesLacked]_lackedVars
               PROVE  TakeawayRows' /\ SeenOK'
    OBVIOUS
  <2>1. [AdoptionNext]_adoptionVars
    BY DEF lackedVars
  <2> QED
    BY <2>1, SeenStep, TakeawaysStay, MirrorRows
<1>4. LackedSpec => [](AdoptionInv /\ TakeawayRows /\ SeenOK)
  BY <1>1, <1>2, <1>3, AdoptionInvHolds, PTL DEF LackedSpec
<1>5. AdoptionInv /\ TakeawayRows /\ SeenOK /\ [AdoptionNext /\ NotesLacked]_lackedVars => [Kept]_lackedVars
  <2> SUFFICES ASSUME AdoptionInv, TakeawayRows, SeenOK, AdoptionNext, NotesLacked,
                      NEW t \in takeaway, \A u \in takeaway' : u.id # t.id
               PROVE  ~t.promoted /\ t.id \in lacked
    OBVIOUS
  <2>1. MirrorTakeaways
    <3>1. CASE ~MirrorTakeaways
      <4>1. {u.id : u \in takeaway'} = {u.id : u \in takeaway}
        BY <3>1, TakeawaysStay
      <4> QED
        BY <4>1
    <3> QED
      BY <3>1
  <2>2. takeaway' = Mirrored(scan.seen) /\ scan.at = "mirror"
    BY <2>1 DEF MirrorTakeaways
  <2>3. ASSUME NEW s \in scan.seen
        PROVE  s.id # t.id
    <3> DEFINE row == [id |-> s.id, type |-> s.type,
                       promoted |-> \E u \in {v \in takeaway : v.id = s.id} : u.promoted]
    <3>1. row \in takeaway'
      BY <2>2, Zenon DEF Mirrored
    <3>2. row.id = s.id
      BY Zenon
    <3> QED
      BY <3>1, <3>2
  <2>4. ~t.promoted
    BY <2>2, <2>3 DEF Mirrored
  <2>5. ~Unseen
    BY <2>2 DEF SeenOK
  <2> QED
    BY <2>2, <2>3, <2>4, <2>5 DEF SeenOK
<1>6. LackedSpec => [][Kept]_lackedVars
  BY <1>4, <1>5, PTL DEF LackedSpec
<1> QED
  BY <1>6 DEF TakeawaysAreKept
-----------------------------------------------------------------------------
(* The types of the adoption scan: what is looked up by a key has one row.  *)

CountsOK ==
    /\ today \in 0 .. LastDay /\ Len(entity) <= MaxEntities
    /\ IsFiniteSet(asked) /\ Cardinality(asked) <= MaxAsked

OneRowEach ==
    /\ \A a, b \in candidate : a.key = b.key => a = b
    /\ \A a, b \in takeaway : a.id = b.id => a = b
    /\ ~Unseen => \A s, u \in scan.seen : s.id = u.id => s = u
    /\ scan.at = "mirror" => ~Unseen

\* Bounds are kept: a request is asked where there is room for it.
LEMMA CountsStep ==
  ASSUME CountsOK, RowsOK, [AdoptionNext]_adoptionVars
  PROVE  CountsOK'
<1>1. today' \in 0 .. LastDay
  <2>1. CASE BeginScan \/ ContinueScan
    BY <2>1 DEF CountsOK, BeginScan, ContinueScan, Load, ReadTasks, ReadDocs, ReplaceCandidates,
                MirrorTakeaways, EndScan
  <2>2. CASE Adopt \/ Merge \/ Reconcile \/ EditTools \/ UNCHANGED adoptionVars
    BY <2>2 DEF CountsOK, Adopt, AdoptCandidate, Merge, DecideAdoption, Reconcile, Bind, EditTools,
                adoptionVars
  <2>3. CASE Ignore \/ Tend
    BY <2>3 DEF CountsOK, Ignore, IgnoreCandidate, ShowEnded, Tend, Promote, UpdateRitual
  <2>4. CASE Answer
    BY <2>4 DEF CountsOK, Answer, IgnoreEnded, Write, GiveUp
  <2>5. CASE NextDay
    BY <2>5, BoundsAssumption DEF CountsOK, NextDay
  <2> QED
    BY <2>1, <2>2, <2>3, <2>4, <2>5 DEF AdoptionNext
<1>2. Len(entity') <= MaxEntities
  <2>1. ASSUME NEW c \in candidate, AdoptCandidate(c) PROVE Len(entity') <= MaxEntities
    <3>1. PICK e : entity' = Append(entity, e)
      BY <2>1 DEF AdoptCandidate
    <3>2. Len(entity') = Len(entity) + 1
      BY <3>1, OneMore DEF RowsOK, Ids
    <3> QED
      BY <2>1, <3>2, BoundsAssumption DEF AdoptCandidate, RowsOK
  <2>2. ASSUME \A c \in candidate : ~AdoptCandidate(c) PROVE Len(entity') = Len(entity)
    <3>1. entity' = entity \/ DOMAIN entity' = DOMAIN entity
      BY <2>2, WhatChangesRows
         DEF DecideAdoption, LinksRitualPage, LinksRitualTask, Ritual, WritesRitual, Bind
    <3> QED
      BY <3>1 DEF RowsOK, Ids
  <2> QED
    BY <2>1, <2>2 DEF CountsOK
<1>3. IsFiniteSet(asked') /\ Cardinality(asked') <= MaxAsked
  <2>0. Cardinality(asked) \in Nat /\ MaxAsked \in Nat
    BY FS_CardinalityType, BoundsAssumption DEF CountsOK
  <2>1. ASSUME NEW r, Ask(r) PROVE IsFiniteSet(asked') /\ Cardinality(asked') <= MaxAsked
    <3>1. asked' = asked \cup {r} /\ r \notin asked /\ Cardinality(asked) < MaxAsked
      BY <2>1 DEF Ask
    <3>2. IsFiniteSet(asked \cup {r}) /\ Cardinality(asked \cup {r}) = Cardinality(asked) + 1
      BY <3>1, FS_AddElement DEF CountsOK
    <3> QED
      BY <2>0, <3>1, <3>2
  <2>2. ASSUME NEW r \in asked, NEW q, asked' = asked \ {r} \/ asked' = (asked \ {r}) \cup {q}
        PROVE  IsFiniteSet(asked') /\ Cardinality(asked') <= MaxAsked
    <3>1. IsFiniteSet(asked \ {r}) /\ Cardinality(asked \ {r}) = Cardinality(asked) - 1
      BY FS_RemoveElement DEF CountsOK
    <3>2. /\ IsFiniteSet((asked \ {r}) \cup {q})
          /\ Cardinality((asked \ {r}) \cup {q}) <= Cardinality(asked)
      <4>1. CASE q \in asked \ {r}
        <5>1. (asked \ {r}) \cup {q} = asked \ {r}
          BY <4>1
        <5> QED
          BY <2>0, <3>1, <5>1
      <4>2. CASE q \notin asked \ {r}
        BY <2>0, <3>1, <4>2, FS_AddElement
      <4> QED
        BY <4>1, <4>2
    <3>3. Cardinality(asked) <= MaxAsked
      BY DEF CountsOK
    <3>4. CASE asked' = asked \ {r}
      BY <2>0, <3>1, <3>3, <3>4
    <3>5. CASE asked' = (asked \ {r}) \cup {q}
      <4>1. Cardinality((asked \ {r}) \cup {q}) \in Nat
        BY <3>2, FS_CardinalityType
      <4> QED
        BY <2>0, <3>2, <3>3, <3>5, <4>1
    <3> QED
      BY <2>2, <3>4, <3>5
  <2>3. CASE Ignore \/ Tend
    BY <2>1, <2>3 DEF Ignore, Tend, IgnoreCandidate, ShowEnded, Promote, UpdateRitual
  <2>4. CASE Answer
    <3>1. PICK r \in asked : IgnoreEnded(r) \/ Write(r) \/ GiveUp(r)
      BY <2>4 DEF Answer
    <3>2. CASE IgnoreEnded(r)
      <4>1. PICK q : asked' = (asked \ {r}) \cup (IF SameAsShown(r) THEN {q} ELSE {})
        BY <3>2 DEF IgnoreEnded
      <4>2. asked' = asked \ {r} \/ asked' = (asked \ {r}) \cup {q}
        BY <4>1
      <4> QED
        BY <2>2, <4>2
    <3>3. CASE Write(r) \/ GiveUp(r)
      BY <2>2, <3>3 DEF Write, GiveUp
    <3> QED
      BY <3>1, <3>2, <3>3
  <2>5. CASE UNCHANGED asked
    BY <2>5 DEF CountsOK
  <2>6. CASE BeginScan \/ ContinueScan \/ Adopt \/ Merge \/ Reconcile \/ EditTools \/ NextDay
    BY <2>5, <2>6 DEF BeginScan, ContinueScan, Load, ReadTasks, ReadDocs, ReplaceCandidates,
              MirrorTakeaways, EndScan, Adopt, AdoptCandidate, Merge, DecideAdoption, Reconcile,
              Bind, EditTools, NextDay
  <2> QED
    BY <2>3, <2>4, <2>5, <2>6 DEF AdoptionNext, adoptionVars
<1> QED
  BY <1>1, <1>2, <1>3 DEF CountsOK

\* An object's key names it among all that one scan reads.
LEMMA KeysNameObjects ==
  ASSUME NEW tasksOf \in DOMAIN Snapshot, NEW pagesOf \in DOMAIN Snapshot, NEW readable
  PROVE  /\ \A a, b \in Objects(tasksOf, pagesOf, readable) : Key(a) = Key(b) => a = b
         /\ \A a, b \in ReadPages(pagesOf, readable) : a.id = b.id => a = b
<1> DEFINE tasks == Snapshot[tasksOf].tasks
           projects == Snapshot[tasksOf].projects
           sections == Snapshot[tasksOf].sections
           pages == {p \in Snapshot[pagesOf].pages : p.role \in readable}
<1>1. /\ \A a, b \in tasks : a.id = b.id => a = b
      /\ \A a, b \in projects : a.id = b.id => a = b
      /\ \A a, b \in pages : a.id = b.id => a = b
  <2>1. \A name \in DOMAIN Snapshot, what \in {"tasks", "projects", "pages"} :
           \A a, b \in Snapshot[name][what] : a.id = b.id => a = b
    BY SnapshotAssumption
  <2>2. \A name \in DOMAIN Snapshot : /\ \A a, b \in Snapshot[name]["tasks"] : a.id = b.id => a = b
                                      /\ \A a, b \in Snapshot[name]["projects"] : a.id = b.id => a = b
                                      /\ \A a, b \in Snapshot[name]["pages"] : a.id = b.id => a = b
    BY <2>1
  <2> QED
    BY <2>2
<1> HIDE DEF tasks, projects, sections, pages
<1>2. /\ \A o \in AdaptTasks(tasks) : o.kind = "task"
      /\ \A a, b \in AdaptTasks(tasks) : a.id = b.id => a = b
  <2> DEFINE made(t, area, children) ==
               [Plain EXCEPT !.kind = "task", !.id = t.id, !.title = t.title, !.closed = t.closed,
                   !.parent = t.parent, !.recurring = t.recurring, !.labels = t.labels,
                   !.area = area, !.children = children]
             area(t) == IF LabelPlaces(t.labels) THEN SignalsLabel.area
                        ELSE AreaOfLocation(t.project, t.section)
             children(t) == Cardinality({u \in tasks : u.parent = t.id})
  <2>1. AdaptTasks(tasks) = {made(t, area(t), children(t)) : t \in tasks}
    BY Zenon DEF AdaptTasks
  <2>2. \A x, y : \A t \in tasks : made(t, x, y).kind = "task" /\ made(t, x, y).id = t.id
    BY DEF Plain
  <2> HIDE DEF made, area, children
  <2> QED
    BY <1>1, <2>1, <2>2
<1>3. /\ \A o \in AdaptProjects(projects, sections) : o.kind = "project"
      /\ \A a, b \in AdaptProjects(projects, sections) : a.id = b.id => a = b
  <2> DEFINE Live(p) == {s \in sections : s.project = p.id /\ ~s.archived}
             Areas(p) == {AreaOfLocation(p.id, s.id) : s \in Live(p)} \ {Absent}
             made(p, area, live, spread) ==
               [Plain EXCEPT !.kind = "project", !.id = p.id, !.title = p.title, !.closed = p.archived,
                      !.area = area, !.sections = live, !.spread = spread]
             area(p) == AreaOfLocation(p.id, Absent)
             live(p) == Cardinality(Live(p))
             spread(p) == Cardinality(Areas(p))
  <2>1. AdaptProjects(projects, sections) = {made(p, area(p), live(p), spread(p)) : p \in projects}
    BY Zenon DEF AdaptProjects
  <2>2. \A x, y, z : \A p \in projects : made(p, x, y, z).kind = "project" /\ made(p, x, y, z).id = p.id
    BY DEF Plain
  <2> HIDE DEF made, area, live, spread
  <2> QED
    BY <1>1, <2>1, <2>2
<1>4. /\ \A o \in AdaptDocRecords(pages) : o.kind = "page"
      /\ \A a, b \in AdaptDocRecords(pages) : a.id = b.id => a = b
  <2> DEFINE End(q) == IF q.end = Absent THEN q.start ELSE q.end
             Backwards(q) == q.start # Absent /\ End(q) < q.start
             starts(q) == IF Backwards(q) THEN End(q) ELSE q.start
             ends(q) == IF q.start = Absent THEN Absent
                        ELSE IF Backwards(q) THEN q.start ELSE End(q)
             made(q, start, end) ==
                [Plain EXCEPT !.kind = "page", !.id = q.id, !.title = q.title, !.closed = q.archived,
                              !.role = q.role, !.type = q.type, !.mapped = q.mapped,
                              !.area = AreaOfRelation(q.related), !.starts = start, !.ends = end]
  <2>1. AdaptDocRecords(pages) = {made(q, starts(q), ends(q)) : q \in pages}
    BY Zenon DEF AdaptDocRecords
  <2>2. \A x, y : \A q \in pages : made(q, x, y).kind = "page" /\ made(q, x, y).id = q.id
    BY DEF Plain
  <2> HIDE DEF made, starts, ends
  <2> QED
    BY <1>1, <2>1, <2>2
<1>5. /\ Objects(tasksOf, pagesOf, readable) = AdaptTasks(tasks) \cup AdaptProjects(projects, sections)
                                               \cup AdaptDocRecords(pages)
      /\ ReadPages(pagesOf, readable) = AdaptDocRecords(pages)
  BY Zenon DEF Objects, ReadPages, tasks, projects, sections, pages
<1>6. \A a, b \in Objects(tasksOf, pagesOf, readable) : Key(a) = Key(b) => a.kind = b.kind /\ a.id = b.id
  BY DEF Key
<1> QED
  BY <1>2, <1>3, <1>4, <1>5, <1>6

\* A key finds one candidate, one takeaway and one page that was seen, whatever steps.
LEMMA OneRowStep ==
  ASSUME OneRowEach, TakeawayRows, AdoptionInv, [AdoptionNext]_adoptionVars
  PROVE  OneRowEach'
<1>0. ScanOK /\ tools \in DOMAIN Snapshot
  BY DEF AdoptionInv
<1>1. \A a, b \in candidate' : a.key = b.key => a = b
  <2>1. CASE ReplaceCandidates
    <3> SUFFICES ASSUME NEW a \in candidate', NEW b \in candidate', a.key = b.key PROVE a = b
      OBVIOUS
    <3> DEFINE read == Objects(scan.tasksOf, scan.pagesOf, scan.readable)
               row(o) == Candidate(o, Reading(o, scan.targets, scan.objectives))
    <3>1. PICK o \in read : a = row(o)
      BY <2>1 DEF ReplaceCandidates, Scanned
    <3>2. PICK u \in read : b = row(u)
      BY <2>1 DEF ReplaceCandidates, Scanned
    <3>3. a.key = Key(o) /\ b.key = Key(u)
      BY <3>1, <3>2 DEF Candidate
    <3>4. scan.tasksOf \in DOMAIN Snapshot /\ scan.pagesOf \in DOMAIN Snapshot
      BY <1>0, <2>1 DEF ReplaceCandidates, ScanOK
    <3>5. o = u
      BY <3>3, <3>4, KeysNameObjects
    <3> QED
      BY <3>1, <3>2, <3>5
  <2>2. CASE UNCHANGED candidate
    BY <2>2 DEF OneRowEach
  <2> QED
    BY <2>1, <2>2, QueueIsReplaced
<1>2. \A a, b \in takeaway' : a.id = b.id => a = b
  <2>1. CASE MirrorTakeaways
    <3>1. PICK seen : seen = scan.seen /\ \A t, u \in seen : t.id = u.id => t = u
      BY <2>1 DEF MirrorTakeaways, OneRowEach
    <3> DEFINE row(x) == [id |-> x.id, type |-> x.type,
                          promoted |-> \E t \in {u \in takeaway : u.id = x.id} : t.promoted]
    <3>2. takeaway' = {t \in takeaway : t.promoted /\ \A x \in seen : x.id # t.id}
                      \cup {row(x) : x \in seen}
      BY <2>1, <3>1, Zenon DEF MirrorTakeaways, Mirrored
    <3>3. \A x \in seen : row(x).id = x.id
      OBVIOUS
    <3> HIDE DEF row
    <3> QED
      BY <3>1, <3>2, <3>3 DEF OneRowEach
  <2>2. ASSUME NEW r, Write(r), r.op = "promote"
        PROVE  \A a, b \in takeaway' : a.id = b.id => a = b
    <3> DEFINE later(t) == IF <<"page", t.id>> = r.key THEN [t EXCEPT !.promoted = TRUE] ELSE t
    <3>1. takeaway' = {later(t) : t \in takeaway}
      BY <2>2 DEF Write
    <3>2. \A t \in takeaway : later(t).id = t.id
      BY DEF TakeawayRows
    <3> HIDE DEF later
    <3> QED
      BY <3>1, <3>2 DEF OneRowEach
  <2>3. CASE UNCHANGED takeaway
    BY <2>3 DEF OneRowEach
  <2>4. CASE Answer
    BY <2>2, <2>3, <2>4 DEF Answer, IgnoreEnded, Write, GiveUp
  <2>5. CASE AdoptionNext /\ ~Answer /\ ~MirrorTakeaways
    BY <2>3, <2>5 DEF AdoptionNext, BeginScan, ContinueScan, Load, ReadTasks, ReadDocs,
           ReplaceCandidates, EndScan, Adopt, AdoptCandidate, Merge, DecideAdoption, Ignore,
           IgnoreCandidate, ShowEnded, Tend, Promote, UpdateRitual, Reconcile, Bind, EditTools,
           NextDay
  <2> QED
    BY <2>1, <2>3, <2>4, <2>5 DEF adoptionVars
<1>3. /\ ~Unseen' => \A t, u \in scan'.seen : t.id = u.id => t = u
      /\ scan'.at = "mirror" => ~Unseen'
  <2>1. ASSUME scan'.seen = scan.seen, scan'.at = "mirror" => scan.at = "mirror" \/ ~Unseen
        PROVE  /\ ~Unseen' => \A t, u \in scan'.seen : t.id = u.id => t = u
               /\ scan'.at = "mirror" => ~Unseen'
    BY <2>1 DEF OneRowEach, Unseen
  <2>2. ASSUME scan' = Resting
        PROVE  Unseen' /\ scan'.at # "mirror"
    BY <2>2 DEF Unseen, Resting
  <2>3. CASE BeginScan
    BY <2>3 DEF BeginScan, Unseen, Resting
  <2>4. ASSUME NEW what, Load(what)
        PROVE  scan'.seen = scan.seen /\ scan'.at # "mirror"
    BY <1>0, <2>4 DEF Load, ScanOK, Resting
  <2>5. CASE ReadTasks
    <3>1. scan'.seen = scan.seen /\ scan'.at # "mirror"
      BY <1>0, <2>5 DEF ReadTasks, ScanOK, Resting
    <3> QED
      BY <2>1, <3>1
  <2>6. ASSUME NEW readable, ReadDocs(readable)
        PROVE  /\ scan'.at # "mirror"
               /\ ~Unseen' => \A t, u \in scan'.seen : t.id = u.id => t = u
    <3>1. PICK typed : typed = Typed(ReadPages(tools, readable))
      OBVIOUS
    <3>2. scan'.at # "mirror" /\ scan'.seen \in {typed, scan.seen}
      BY <1>0, <2>6, <3>1 DEF ReadDocs, ScanOK, Resting
    <3>3. \A t, u \in typed : t.id = u.id => t = u
      <4> SUFFICES ASSUME NEW t \in typed, NEW u \in typed, t.id = u.id PROVE t = u
        OBVIOUS
      <4>1. PICK o \in ReadPages(tools, readable) : t = [id |-> o.id, type |-> o.type]
        BY <3>1 DEF Typed
      <4>2. PICK q \in ReadPages(tools, readable) : u = [id |-> q.id, type |-> q.type]
        BY <3>1 DEF Typed
      <4>3. o = q
        BY <1>0, <4>1, <4>2, KeysNameObjects
      <4> QED
        BY <4>1, <4>2, <4>3
    <3> QED
      BY <3>2, <3>3 DEF OneRowEach, Unseen
  <2>7. CASE ReplaceCandidates /\ scan.seen # Absent
    <3>1. scan'.seen = scan.seen
      BY <2>7 DEF ReplaceCandidates, Resting
    <3> QED
      BY <2>1, <2>7, <3>1 DEF Unseen
  <2>8. CASE UNCHANGED scan
    BY <2>1, <2>8
  <2>9. CASE Adopt \/ Merge \/ Ignore \/ Tend \/ Answer \/ Reconcile \/ EditTools \/ NextDay
    BY <2>8, <2>9 DEF Adopt, AdoptCandidate, Merge, DecideAdoption, Ignore, IgnoreCandidate,
                ShowEnded, Tend, Promote, UpdateRitual, Answer, IgnoreEnded, Write, GiveUp,
                Reconcile, Bind, EditTools, NextDay
  <2>a. CASE MirrorTakeaways \/ EndScan \/ (ReplaceCandidates /\ scan.seen = Absent)
    BY <2>2, <2>a DEF MirrorTakeaways, EndScan, ReplaceCandidates
  <2> QED
    BY <2>1, <2>3, <2>4, <2>5, <2>6, <2>7, <2>8, <2>9, <2>a
       DEF AdoptionNext, ContinueScan, adoptionVars
<1> QED
  BY <1>1, <1>2, <1>3 DEF OneRowEach

\* AdoptionTypeOK: no two rows answer for one object, an object is bound once, and
\* the bounds are kept.
THEOREM AdoptionTypeCorrect == AdoptionSpec => []AdoptionTypeOK
<1> DEFINE Inv == CountsOK /\ OneRowEach /\ TakeawayRows
<1>1. AdoptionInit => Inv
  BY KnownAssumption, BoundsAssumption, FS_EmptySet
     DEF AdoptionInit, CountsOK, OneRowEach, TakeawayRows, Unseen, Resting
<1>2. AdoptionInv /\ Inv /\ [AdoptionNext]_adoptionVars => Inv'
  <2> SUFFICES ASSUME AdoptionInv, Inv, [AdoptionNext]_adoptionVars PROVE Inv'
    OBVIOUS
  <2>1. TakeawayRows'
    BY TakeawaysStay, MirrorRows
  <2> QED
    BY <2>1, CountsStep, OneRowStep DEF AdoptionInv
<1>3. AdoptionInv /\ Inv => AdoptionTypeOK
  BY DEF AdoptionInv, RowsOK, ScanOK, CountsOK, OneRowEach, AdoptionTypeOK
<1> QED
  BY <1>1, <1>2, <1>3, AdoptionInvHolds, PTL DEF AdoptionSpec

=============================================================================
