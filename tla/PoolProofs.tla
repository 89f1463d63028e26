---------------------------- MODULE PoolProofs ----------------------------
(***************************************************************************)
(* Proofs about Pool, for any number of tasks, submitters and workers, any *)
(* depth, and both modes of a full queue.                                  *)
(***************************************************************************)
EXTENDS Pool, FiniteSetTheorems, TLAPS

\* fillLocked returns a percentage.
LEMMA FillRange ==
    ASSUME NEW n \in Nat, n < Depth
    PROVE  (n * 100) \div Depth \in 0..100
<1>1. Depth \in Nat \ {0}
  BY PoolAssumption
<1> DEFINE q == (n * 100) \div Depth
<1>2. q \in Int /\ Depth * q <= n * 100
  BY <1>1, Z3
<1>3. q >= 0
  BY <1>1, Z3
<1>4. q <= 100
  <2>1. SUFFICES ASSUME q >= 101 PROVE FALSE
    BY <1>2
  <2>2. Depth * q >= Depth * 101
    BY <1>1, <1>2, <2>1, Z3
  <2> QED
    BY <1>1, <1>2, <2>2, Z3
<1> QED
  BY <1>2, <1>3, <1>4

\* The queue is a finite set, so its length is a number.
LEMMA QueueFinite ==
    ASSUME TypeOK
    PROVE  /\ IsFiniteSet(queued)
           /\ Cardinality(queued) \in Nat
BY PoolAssumption, FS_Subset, FS_CardinalityType DEF TypeOK

\* What fillLocked computes is a percentage.
LEMMA FillNowRange ==
    ASSUME TypeOK
    PROVE  FillNow \in 0..100
BY QueueFinite, FillRange, PoolAssumption DEF FillNow, IsFull

-----------------------------------------------------------------------------
(* Types and control.                                                      *)

\* The pool New returns is well typed.
LEMMA TypeInit == Init => TypeOK
<1> SUFFICES ASSUME Init PROVE TypeOK
  OBVIOUS
<1>1. pc \in [Procs -> SubmitterLabels \cup WorkerLabels \cup MainLabels]
  BY DEF Init, SubmitterLabels, WorkerLabels, MainLabels
<1>2. timedOut \in [Tasks -> BOOLEAN] /\ stopped \in BOOLEAN /\ closed \in BOOLEAN
  BY Zenon DEF Init
<1>3. status \in [Tasks -> {"new", "pending"} \cup Reasons]
  BY DEF Init
<1>4. timer \in [Tasks -> {"off", "armed", "firing"}]
  BY DEF Init
<1>5. fill \in [Tasks -> 0..100] /\ left \in [Tasks -> Int]
      /\ ticket \in [Tasks -> Nat] /\ calls \in [Tasks -> Nat]
  BY DEF Init
<1> QED
  BY <1>1, <1>2, <1>3, <1>4, <1>5 DEF Init, TypeOK

\* In a new pool every goroutine is at the start of its code, with empty hands.
LEMMA ControlInit == Init => ControlOK
BY PoolAssumption DEF Init, ControlOK, Procs, SubmitterLabels, WorkerLabels, MainLabels

\* Every step keeps the types.
LEMMA TypeStep ==
    ASSUME TypeOK, ControlOK, [Next]_vars
    PROVE  TypeOK'
<1> USE PoolAssumption DEF TypeOK, Procs, SubmitterLabels, WorkerLabels, MainLabels,
        Reasons, queueVars, timerVars, answerVars
<1>1. ASSUME NEW s \in Submitters, NEW t \in Tasks, NEW d \in Deadlines, Submit(s, t, d)
      PROVE  TypeOK'
  BY <1>1 DEF Submit, Goto
<1>2. ASSUME NEW s \in Submitters, Collect(s) PROVE TypeOK'
  BY <1>2 DEF Collect, TakeExpired, Overdue, Goto
<1>3. ASSUME NEW s \in Submitters, Admit(s) PROVE TypeOK'
  <2>1. cur[s] \in Tasks
    BY <1>3 DEF Admit, ControlOK
  <2>2. FillNow \in 0..100
    BY FillNowRange
  <2>3. CASE AdmitClosed(s)
    BY <1>3, <2>3 DEF Admit, AdmitClosed, Goto
  <2>4. CASE AdmitRoom(s)
    BY <1>3, <2>1, <2>2, <2>4 DEF Admit, AdmitRoom, Enqueue, Signal, Goto
  <2>5. CASE AdmitDrop(s)
    BY <1>3, <2>1, <2>2, <2>5 DEF Admit, AdmitDrop, Goto
  <2>6. CASE AdmitTooLate(s)
    BY <1>3, <2>1, <2>2, <2>6 DEF Admit, AdmitTooLate, Goto
  <2>7. CASE AdmitWait(s)
    BY <1>3, <2>1, <2>2, <2>7 DEF Admit, AdmitWait, AwaitRoom, TakeExpired, Overdue, Goto
  <2> QED
    BY <1>3, <2>3, <2>4, <2>5, <2>6, <2>7 DEF Admit
<1>4. ASSUME NEW s \in Submitters, Loop(s) PROVE TypeOK'
  <2>1. cur[s] \in Tasks
    BY <1>4 DEF Loop, ControlOK
  <2>2. CASE LoopAgain(s)
    BY <1>4, <2>1, <2>2 DEF Loop, LoopAgain, AwaitRoom, TakeExpired, Overdue
  <2>3. CASE LoopClosed(s)
    BY <1>4, <2>1, <2>3 DEF Loop, LoopClosed, StopTimer, Goto
  <2>4. CASE LoopRoom(s)
    BY <1>4, <2>1, <2>4 DEF Loop, LoopRoom, StopTimer, Enqueue, Signal, Goto
  <2>5. CASE LoopTimedOut(s)
    BY <1>4, <2>1, <2>5 DEF Loop, LoopTimedOut, StopTimer, Goto
  <2> QED
    BY <1>4, <2>2, <2>3, <2>4, <2>5 DEF Loop
<1>5. ASSUME NEW s \in Submitters, Expire(s) PROVE TypeOK'
  BY <1>5 DEF Expire, Answer, Goto, ControlOK
<1>6. ASSUME NEW s \in Submitters, ShedLimit(s) PROVE TypeOK'
  BY <1>6 DEF ShedLimit, Answer, Goto, ControlOK
<1>7. ASSUME NEW w \in Workers, Pop(w) PROVE TypeOK'
  <2>1. CASE PopTask(w)
    BY <1>7, <2>1 DEF Pop, PopTask, NextUp, Overdue, Goto
  <2>2. CASE PopClosed(w)
    BY <1>7, <2>2 DEF Pop, PopClosed, TakeExpired, Overdue, Goto
  <2>3. CASE PopDead(w)
    BY <1>7, <2>3 DEF Pop, PopDead, TakeExpired, Overdue
  <2>4. CASE PopWait(w)
    BY <1>7, <2>4 DEF Pop, PopWait
  <2> QED
    BY <1>7, <2>1, <2>2, <2>3, <2>4 DEF Pop
<1>8. ASSUME NEW w \in Workers, Start(w) PROVE TypeOK'
  BY <1>8 DEF Start, StartEngine, StartTooLate, Answer, Goto, ControlOK
<1>9. ASSUME NEW w \in Workers, Finish(w) PROVE TypeOK'
  BY <1>9 DEF Finish, Answer, Goto, ControlOK
<1>10. ASSUME NEW w \in Workers, Leave(w) PROVE TypeOK'
  BY <1>10 DEF Leave, Goto
<1>11. ASSUME NEW p \in Procs, ReplyDead(p) PROVE TypeOK'
  BY <1>11 DEF ReplyDead, Answer
<1>12. CASE Sweep
  BY <1>12 DEF Sweep, TakeExpired, Overdue
<1>13. CASE SweepExit
  BY <1>13 DEF SweepExit, Goto
<1>14. ASSUME NEW t \in Tasks, TimerDue(t) PROVE TypeOK'
  BY <1>14 DEF TimerDue
<1>15. ASSUME NEW t \in Tasks, TimerFire(t) PROVE TypeOK'
  BY <1>15 DEF TimerFire
<1>16. CASE CloseStop
  BY <1>16 DEF CloseStop, Goto
<1>17. CASE CloseFlag
  BY <1>17 DEF CloseFlag, Goto
<1>18. CASE CloseReturn
  BY <1>18 DEF CloseReturn, Goto
<1>19. CASE Tick
  BY <1>19 DEF Tick
<1>20. CASE UNCHANGED vars
  BY <1>20, SMTT(20) DEF vars
<1> QED
  BY <1>1, <1>2, <1>3, <1>4, <1>5, <1>6, <1>7, <1>8, <1>9, <1>10, <1>11, <1>12,
     <1>13, <1>14, <1>15, <1>16, <1>17, <1>18, <1>19, <1>20
     DEF Next, SubmitterStep, WorkerStep

\* Every step keeps each goroutine's hands and its place in the code in accord.
LEMMA ControlStep ==
    ASSUME TypeOK, ControlOK, [Next]_vars
    PROVE  ControlOK'
<1> USE PoolAssumption DEF TypeOK, ControlOK, Procs, SubmitterLabels, WorkerLabels,
        MainLabels, queueVars, timerVars, answerVars
<1>1. ASSUME NEW s \in Submitters, NEW t \in Tasks, NEW d \in Deadlines, Submit(s, t, d)
      PROVE  ControlOK'
  BY <1>1 DEF Submit, Goto
<1>2. ASSUME NEW s \in Submitters, Collect(s) PROVE ControlOK'
  BY <1>2 DEF Collect, TakeExpired, Overdue, Goto
<1>3. ASSUME NEW s \in Submitters, Admit(s) PROVE ControlOK'
  <2>3. CASE AdmitClosed(s)
    BY <1>3, <2>3 DEF Admit, AdmitClosed, Goto
  <2>4. CASE AdmitRoom(s)
    BY <1>3, <2>4 DEF Admit, AdmitRoom, Enqueue, Signal, Goto
  <2>5. CASE AdmitDrop(s)
    BY <1>3, <2>5 DEF Admit, AdmitDrop, Goto
  <2>6. CASE AdmitTooLate(s)
    BY <1>3, <2>6 DEF Admit, AdmitTooLate, Goto
  <2>7. CASE AdmitWait(s)
    BY <1>3, <2>7 DEF Admit, AdmitWait, AwaitRoom, TakeExpired, Overdue, Goto
  <2> QED
    BY <1>3, <2>3, <2>4, <2>5, <2>6, <2>7 DEF Admit
<1>4. ASSUME NEW s \in Submitters, Loop(s) PROVE ControlOK'
  <2>2. CASE LoopAgain(s)
    BY <1>4, <2>2 DEF Loop, LoopAgain, AwaitRoom, TakeExpired, Overdue
  <2>3. CASE LoopClosed(s)
    BY <1>4, <2>3 DEF Loop, LoopClosed, Goto
  <2>4. CASE LoopRoom(s)
    BY <1>4, <2>4 DEF Loop, LoopRoom, Enqueue, Signal, Goto
  <2>5. CASE LoopTimedOut(s)
    BY <1>4, <2>5 DEF Loop, LoopTimedOut, Goto
  <2> QED
    BY <1>4, <2>2, <2>3, <2>4, <2>5 DEF Loop
<1>5. ASSUME NEW s \in Submitters, Expire(s) PROVE ControlOK'
  BY <1>5 DEF Expire, Goto
<1>6. ASSUME NEW s \in Submitters, ShedLimit(s) PROVE ControlOK'
  BY <1>6 DEF ShedLimit, Goto
<1>7. ASSUME NEW w \in Workers, Pop(w) PROVE ControlOK'
  <2>1. CASE PopTask(w)
    BY <1>7, <2>1 DEF Pop, PopTask, NextUp, Overdue, Goto
  <2>2. CASE PopClosed(w)
    BY <1>7, <2>2 DEF Pop, PopClosed, TakeExpired, Overdue, Goto
  <2>3. CASE PopDead(w)
    BY <1>7, <2>3 DEF Pop, PopDead, TakeExpired, Overdue
  <2>4. CASE PopWait(w)
    BY <1>7, <2>4 DEF Pop, PopWait
  <2> QED
    BY <1>7, <2>1, <2>2, <2>3, <2>4 DEF Pop
<1>8. ASSUME NEW w \in Workers, Start(w) PROVE ControlOK'
  BY <1>8 DEF Start, StartEngine, StartTooLate, Goto
<1>9. ASSUME NEW w \in Workers, Finish(w) PROVE ControlOK'
  BY <1>9 DEF Finish, Goto
<1>10. ASSUME NEW w \in Workers, Leave(w) PROVE ControlOK'
  BY <1>10 DEF Leave, Goto
<1>11. ASSUME NEW p \in Procs, ReplyDead(p) PROVE ControlOK'
  BY <1>11 DEF ReplyDead
<1>12. CASE Sweep
  BY <1>12 DEF Sweep, TakeExpired, Overdue
<1>13. CASE SweepExit
  BY <1>13 DEF SweepExit, Goto
<1>14. ASSUME NEW t \in Tasks, TimerDue(t) PROVE ControlOK'
  BY <1>14 DEF TimerDue
<1>15. ASSUME NEW t \in Tasks, TimerFire(t) PROVE ControlOK'
  BY <1>15 DEF TimerFire
<1>16. CASE CloseStop
  BY <1>16 DEF CloseStop, Goto
<1>17. CASE CloseFlag
  BY <1>17 DEF CloseFlag, Goto
<1>18. CASE CloseReturn
  BY <1>18 DEF CloseReturn, Goto
<1>19. CASE Tick
  BY <1>19 DEF Tick
<1>20. CASE UNCHANGED vars
  BY <1>20 DEF vars
<1> QED
  BY <1>1, <1>2, <1>3, <1>4, <1>5, <1>6, <1>7, <1>8, <1>9, <1>10, <1>11, <1>12,
     <1>13, <1>14, <1>15, <1>16, <1>17, <1>18, <1>19, <1>20
     DEF Next, SubmitterStep, WorkerStep

\* The variables keep their types, and every goroutine holds a task exactly at
\* the places of the code where it has one to answer, to enqueue or to evaluate.
THEOREM TypeCorrect == Spec => [](TypeOK /\ ControlOK)
<1>1. Init => TypeOK /\ ControlOK
  BY TypeInit, ControlInit
<1>2. TypeOK /\ ControlOK /\ [Next]_vars => (TypeOK /\ ControlOK)'
  BY TypeStep, ControlStep
<1> QED
  BY <1>1, <1>2, PTL DEF Spec

-----------------------------------------------------------------------------
(* Ownership: one owner per task, one answer per message.                  *)

\* Before the first message nothing is owned and nothing answered.
LEMMA OwnerInit == Init => OneOwner /\ AnsweredOnce
BY PoolAssumption DEF Init, OneOwner, AnsweredOnce, Held, Procs, Reasons

\* Every step hands a task over, or answers it and lets it go.
LEMMA OwnerStep ==
    ASSUME TypeOK, ControlOK, OneOwner, AnsweredOnce, [Next]_vars
    PROVE  (OneOwner /\ AnsweredOnce)'
<1> DEFINE Owner == OneOwner /\ AnsweredOnce
<1> USE PoolAssumption DEF TypeOK, ControlOK, OneOwner, AnsweredOnce, Held, Procs,
        Reasons, queueVars, timerVars, answerVars
<1>1. ASSUME NEW s \in Submitters, NEW t \in Tasks, NEW d \in Deadlines, Submit(s, t, d)
       PROVE  Owner'
  BY <1>1, SMTT(20) DEF Submit, Goto
<1>2. ASSUME NEW s \in Submitters, Collect(s) PROVE Owner'
  BY <1>2 DEF Collect, TakeExpired, Overdue, Goto
<1>3. ASSUME NEW s \in Submitters, Admit(s) PROVE Owner'
  <2>1. CASE AdmitClosed(s)
    BY <1>3, <2>1 DEF Admit, AdmitClosed, Goto
  <2>2. CASE AdmitRoom(s)
    BY <1>3, <2>2, SMTT(20) DEF Admit, AdmitRoom, Enqueue, Signal, Goto
  <2>3. CASE AdmitDrop(s)
    BY <1>3, <2>3 DEF Admit, AdmitDrop, Goto
  <2>4. CASE AdmitTooLate(s)
    BY <1>3, <2>4 DEF Admit, AdmitTooLate, Goto
  <2>5. CASE AdmitWait(s)
    <3>1. cur' = cur /\ status' = status /\ calls' = calls /\ dead[s] = {}
      BY <1>3, <2>5 DEF Admit, AdmitWait
    <3>2. Overdue \subseteq queued
      BY DEF Overdue
    <3>3. CASE Overdue = {}
      BY <2>5, <3>1, <3>3 DEF AdmitWait, AwaitRoom
    <3>4. CASE Overdue # {}
      <4>1. queued' = queued \ Overdue /\ dead' = [dead EXCEPT ![s] = Overdue]
        BY <2>5, <3>4 DEF AdmitWait, AwaitRoom, TakeExpired
      <4> QED
        BY <3>1, <3>2, <4>1
    <3> QED
      BY <3>3, <3>4
  <2> QED
    BY <1>3, <2>1, <2>2, <2>3, <2>4, <2>5 DEF Admit
<1>4. ASSUME NEW s \in Submitters, Loop(s) PROVE Owner'
  <2>1. CASE LoopAgain(s)
    BY <1>4, <2>1 DEF Loop, LoopAgain, AwaitRoom, TakeExpired, Overdue
  <2>2. CASE LoopClosed(s)
    BY <1>4, <2>2 DEF Loop, LoopClosed, Goto
  <2>3. CASE LoopRoom(s)
    BY <1>4, <2>3 DEF Loop, LoopRoom, Enqueue, Signal, Goto
  <2>4. CASE LoopTimedOut(s)
    BY <1>4, <2>4 DEF Loop, LoopTimedOut, Goto
  <2> QED
    BY <1>4, <2>1, <2>2, <2>3, <2>4 DEF Loop
<1>5. ASSUME NEW s \in Submitters, Expire(s) PROVE Owner'
  BY <1>5 DEF Expire, Answer, Goto
<1>6. ASSUME NEW s \in Submitters, ShedLimit(s) PROVE Owner'
  BY <1>6, SMTT(20) DEF ShedLimit, Answer, Goto
<1>7. ASSUME NEW w \in Workers, Pop(w) PROVE Owner'
  <2>1. CASE PopTask(w)
    <3>1. PICK t \in Tasks : /\ t \in queued \ Overdue
                             /\ queued' = queued \ (Overdue \cup {t})
                             /\ cur' = [cur EXCEPT ![w] = t]
      BY <2>1 DEF PopTask, NextUp
    <3>2. dead' = [dead EXCEPT ![w] = Overdue] /\ status' = status /\ calls' = calls
      BY <1>7, <2>1 DEF Pop, PopTask
    <3>3. Overdue \subseteq queued /\ dead[w] = {} /\ cur[w] = NoTask
      BY <1>7 DEF Pop, Overdue
    <3> QED
      BY <3>1, <3>2, <3>3
  <2>2. CASE PopClosed(w)
    BY <1>7, <2>2 DEF Pop, PopClosed, TakeExpired, Overdue, Goto
  <2>3. CASE PopDead(w)
    BY <1>7, <2>3 DEF Pop, PopDead, TakeExpired, Overdue
  <2>4. CASE PopWait(w)
    BY <1>7, <2>4 DEF Pop, PopWait
  <2> QED
    BY <1>7, <2>1, <2>2, <2>3, <2>4 DEF Pop
<1>8. ASSUME NEW w \in Workers, Start(w) PROVE Owner'
  BY <1>8, SMTT(20) DEF Start, StartEngine, StartTooLate, Answer, Goto
<1>9. ASSUME NEW w \in Workers, Finish(w) PROVE Owner'
  BY <1>9 DEF Finish, Answer, Goto
<1>10. ASSUME NEW w \in Workers, Leave(w) PROVE Owner'
  BY <1>10 DEF Leave, Goto
<1>11. ASSUME NEW p \in Procs, ReplyDead(p) PROVE Owner'
  BY <1>11 DEF ReplyDead, Answer
<1>12. CASE Sweep
  BY <1>12 DEF Sweep, TakeExpired, Overdue
<1>13. CASE SweepExit
  BY <1>13 DEF SweepExit, Goto
<1>14. ASSUME NEW t \in Tasks, TimerDue(t) PROVE Owner'
  BY <1>14 DEF TimerDue
<1>15. ASSUME NEW t \in Tasks, TimerFire(t) PROVE Owner'
  BY <1>15 DEF TimerFire
<1>16. CASE CloseStop
  BY <1>16 DEF CloseStop, Goto
<1>17. CASE CloseFlag
  BY <1>17 DEF CloseFlag, Goto
<1>18. CASE CloseReturn
  BY <1>18 DEF CloseReturn, Goto
<1>19. CASE Tick
  BY <1>19 DEF Tick
<1>20. CASE UNCHANGED vars
  BY <1>20 DEF vars
<1> HIDE DEF OneOwner, AnsweredOnce, Held, TypeOK, ControlOK, Procs, queueVars,
         timerVars, answerVars
<1> QED
  BY <1>1, <1>2, <1>3, <1>4, <1>5, <1>6, <1>7, <1>8, <1>9, <1>10, <1>11, <1>12,
     <1>13, <1>14, <1>15, <1>16, <1>17, <1>18, <1>19, <1>20
     DEF Next, SubmitterStep, WorkerStep

\* No message is answered twice and none is forgotten: until its one answer a
\* task is in the queue or in the hands of exactly one goroutine.
THEOREM OneAnswer == Spec => []TaskOwned
<1>1. Init => TaskOwned
  BY OwnerInit DEF TaskOwned
<1>2. TypeOK /\ ControlOK /\ TaskOwned /\ [Next]_vars => TaskOwned'
  BY OwnerStep DEF TaskOwned
<1> QED
  BY <1>1, <1>2, TypeCorrect, PTL DEF Spec

-----------------------------------------------------------------------------
(* The condition variable: who may be parked, and who is awake.            *)

\* Adding a task makes the queue at most one longer; removing some, no longer.
LEMMA QueueGrows ==
    ASSUME TypeOK, NEW t \in Tasks, queued' = queued \cup {t}
    PROVE  Cardinality(queued') <= Cardinality(queued) + 1
BY QueueFinite, FS_AddElement

\* Taking tasks out leaves the queue no longer than it was.
LEMMA QueueShrinks ==
    ASSUME TypeOK, queued' \subseteq queued
    PROVE  Cardinality(queued') <= Cardinality(queued)
BY QueueFinite, FS_Subset

\* The queue stays within its depth.
LEMMA BoundStep ==
    ASSUME TypeOK, ControlOK, QueueBounded, [Next]_vars
    PROVE  QueueBounded'
<1> USE PoolAssumption DEF QueueBounded, queueVars
<1>0. Cardinality(queued) \in Nat /\ Cardinality(queued') \in Nat
  <2>1. TypeOK'
    BY TypeStep
  <2>2. IsFiniteSet(queued')
    BY <2>1, FS_Subset DEF TypeOK
  <2> QED
    BY <2>2, QueueFinite, FS_CardinalityType
<1>1. CASE queued' \subseteq queued
  BY <1>0, <1>1, QueueShrinks
<1>2. ASSUME NEW t \in Tasks, ~IsFull, queued' = queued \cup {t} PROVE QueueBounded'
  <2>1. Cardinality(queued') <= Cardinality(queued) + 1
    BY <1>2, QueueGrows
  <2> QED
    BY <1>0, <1>2, <2>1 DEF IsFull
<1>3. ASSUME NEW s \in Submitters, Admit(s) PROVE QueueBounded'
  BY <1>3, <1>1, <1>2 DEF Admit, AdmitClosed, AdmitRoom, AdmitDrop, AdmitTooLate,
     AdmitWait, AwaitRoom, TakeExpired, Enqueue, ControlOK, TypeOK, Procs
<1>4. ASSUME NEW s \in Submitters, Loop(s) PROVE QueueBounded'
  BY <1>4, <1>1, <1>2 DEF Loop, LoopAgain, LoopClosed, LoopRoom, LoopTimedOut,
     AwaitRoom, TakeExpired, Enqueue, ControlOK, TypeOK, Procs
<1>5. ASSUME NEW w \in Workers, WorkerStep(w) PROVE QueueBounded'
  BY <1>5, <1>1 DEF WorkerStep, Pop, PopTask, NextUp, PopClosed, PopDead, PopWait,
     TakeExpired, Start, Finish, Leave
<1>6. CASE UNCHANGED vars
  BY <1>6, <1>1 DEF vars
<1> QED
  BY <1>1, <1>3, <1>4, <1>5, <1>6 DEF Next, SubmitterStep, Submit, Collect, Expire,
     ShedLimit, TakeExpired, ReplyDead, Sweep, SweepExit, TimerDue, TimerFire,
     CloseStop, CloseFlag, CloseReturn, Tick

\* Whatever makes room in the queue wakes the parked submitters, and nothing
\* is parked or enqueued in a closed pool.
LEMMA ParkStep ==
    ASSUME TypeOK, ControlOK, ParkedMeansFull, ClosedDrains, [Next]_vars
    PROVE  (ParkedMeansFull /\ ClosedDrains)'
<1> DEFINE Parking == ParkedMeansFull /\ ClosedDrains
<1> USE PoolAssumption DEF TypeOK, ControlOK, ParkedMeansFull, ClosedDrains, IsFull,
        Procs, SubmitterLabels, WorkerLabels, MainLabels, queueVars, timerVars,
        answerVars
<1>1. ASSUME NEW s \in Submitters, NEW t \in Tasks, NEW d \in Deadlines, Submit(s, t, d)
       PROVE  Parking'
  BY <1>1 DEF Submit, Goto
<1>2. ASSUME NEW s \in Submitters, Collect(s) PROVE Parking'
  <2>1. waiters' = {} \/ (waiters' = waiters /\ queued' = queued)
    BY <1>2 DEF Collect, TakeExpired
  <2>2. queued = {} => queued' = {}
    BY <1>2 DEF Collect, TakeExpired
  <2> QED
    BY <1>2, <2>1, <2>2 DEF Collect, Goto
<1>3. ASSUME NEW s \in Submitters, Admit(s) PROVE Parking'
  <2>1. CASE AdmitClosed(s)
    BY <1>3, <2>1 DEF Admit, AdmitClosed, Goto
  <2>2. CASE AdmitRoom(s)
    BY <1>3, <2>2 DEF Admit, AdmitRoom, Enqueue, Signal, Goto
  <2>3. CASE AdmitDrop(s)
    BY <1>3, <2>3 DEF Admit, AdmitDrop, Goto
  <2>4. CASE AdmitTooLate(s)
    BY <1>3, <2>4 DEF Admit, AdmitTooLate, Goto
  <2>5. CASE AdmitWait(s)
    BY <1>3, <2>5 DEF Admit, AdmitWait, AwaitRoom, TakeExpired, Overdue, Goto
  <2> QED
    BY <1>3, <2>1, <2>2, <2>3, <2>4, <2>5 DEF Admit
<1>4. ASSUME NEW s \in Submitters, Loop(s) PROVE Parking'
  <2>1. CASE LoopAgain(s)
    BY <1>4, <2>1 DEF Loop, LoopAgain, AwaitRoom, TakeExpired, Overdue
  <2>2. CASE LoopClosed(s)
    BY <1>4, <2>2 DEF Loop, LoopClosed, Goto
  <2>3. CASE LoopRoom(s)
    BY <1>4, <2>3 DEF Loop, LoopRoom, Enqueue, Signal, Goto
  <2>4. CASE LoopTimedOut(s)
    BY <1>4, <2>4 DEF Loop, LoopTimedOut, Goto
  <2> QED
    BY <1>4, <2>1, <2>2, <2>3, <2>4 DEF Loop
<1>5. ASSUME NEW s \in Submitters, Expire(s) PROVE Parking'
  BY <1>5 DEF Expire, Answer, Goto
<1>6. ASSUME NEW s \in Submitters, ShedLimit(s) PROVE Parking'
  BY <1>6 DEF ShedLimit, Answer, Goto
<1>7. ASSUME NEW w \in Workers, Pop(w) PROVE Parking'
  <2>1. CASE PopTask(w)
    BY <1>7, <2>1 DEF Pop, PopTask, NextUp, Overdue, Goto
  <2>2. CASE PopClosed(w)
    BY <1>7, <2>2 DEF Pop, PopClosed, TakeExpired, Overdue, Goto
  <2>3. CASE PopDead(w)
    BY <1>7, <2>3 DEF Pop, PopDead, TakeExpired, Overdue
  <2>4. CASE PopWait(w)
    BY <1>7, <2>4 DEF Pop, PopWait
  <2> QED
    BY <1>7, <2>1, <2>2, <2>3, <2>4 DEF Pop
<1>8. ASSUME NEW w \in Workers, Start(w) PROVE Parking'
  BY <1>8 DEF Start, StartEngine, StartTooLate, Answer, Goto
<1>9. ASSUME NEW w \in Workers, Finish(w) PROVE Parking'
  BY <1>9 DEF Finish, Answer, Goto
<1>10. ASSUME NEW w \in Workers, Leave(w) PROVE Parking'
  BY <1>10 DEF Leave, Goto
<1>11. ASSUME NEW p \in Procs, ReplyDead(p) PROVE Parking'
  BY <1>11 DEF ReplyDead, Answer
<1>12. CASE Sweep
  <2>1. waiters' = {} \/ (waiters' = waiters /\ queued' = queued)
    BY <1>12 DEF Sweep, TakeExpired
  <2>2. queued = {} => queued' = {}
    BY <1>12 DEF Sweep, TakeExpired
  <2> QED
    BY <1>12, <2>1, <2>2 DEF Sweep
<1>13. CASE SweepExit
  BY <1>13 DEF SweepExit, Goto
<1>14. ASSUME NEW t \in Tasks, TimerDue(t) PROVE Parking'
  BY <1>14 DEF TimerDue
<1>15. ASSUME NEW t \in Tasks, TimerFire(t) PROVE Parking'
  BY <1>15 DEF TimerFire
<1>16. CASE CloseStop
  BY <1>16 DEF CloseStop, Goto
<1>17. CASE CloseFlag
  BY <1>17 DEF CloseFlag, Goto
<1>18. CASE CloseReturn
  BY <1>18 DEF CloseReturn, Goto
<1>19. CASE Tick
  BY <1>19 DEF Tick
<1>20. CASE UNCHANGED vars
  BY <1>20 DEF vars
<1> QED
  BY <1>1, <1>2, <1>3, <1>4, <1>5, <1>6, <1>7, <1>8, <1>9, <1>10, <1>11, <1>12,
     <1>13, <1>14, <1>15, <1>16, <1>17, <1>18, <1>19, <1>20
     DEF Next, SubmitterStep, WorkerStep

\* One Signal per enqueue keeps an awake worker for every queued task.
LEMMA WakeStep ==
    ASSUME TypeOK, ControlOK, ParkedMeansFull, ClosedDrains, NoLostWakeup, [Next]_vars
    PROVE  NoLostWakeup'
<1> USE PoolAssumption
<1>0. /\ IsFiniteSet(Awake) /\ IsFiniteSet(Awake')
      /\ Cardinality(Awake) \in Nat /\ Cardinality(Awake') \in Nat
      /\ IsFiniteSet(queued) /\ IsFiniteSet(queued')
      /\ Cardinality(queued) \in Nat /\ Cardinality(queued') \in Nat
  <2>1. TypeOK'
    BY TypeStep
  <2>2. IsFiniteSet(queued')
    BY <2>1, FS_Subset DEF TypeOK
  <2>3. IsFiniteSet(Awake) /\ IsFiniteSet(Awake')
    BY FS_Subset DEF Awake
  <2> QED
    BY <2>2, <2>3, QueueFinite, FS_CardinalityType
<1>1. ASSUME queued' \subseteq queued, Awake \subseteq Awake',
             waiters' \cap Workers \subseteq waiters
      PROVE  NoLostWakeup'
  <2>1. Cardinality(queued') <= Cardinality(queued)
    BY <1>0, <1>1, FS_Subset
  <2>2. Cardinality(Awake) <= Cardinality(Awake')
    BY <1>0, <1>1, FS_Subset
  <2> QED
    BY <1>0, <1>1, <2>1, <2>2 DEF NoLostWakeup
<1>2. ASSUME waiters' = {} PROVE NoLostWakeup'
  BY <1>2 DEF NoLostWakeup
<1>3. ASSUME queued' = {} PROVE NoLostWakeup'
  BY <1>0, <1>3, FS_EmptySet DEF NoLostWakeup
<1>4. ASSUME NEW t \in Tasks, ~IsFull, queued' = queued \cup {t}, Signal,
             \A w \in Workers : pc'[w] = pc[w]
      PROVE  NoLostWakeup'
  <2>1. CASE waiters = {}
    BY <1>4, <2>1, <1>2 DEF Signal
  <2>2. ASSUME NEW p \in waiters, waiters' = waiters \ {p} PROVE NoLostWakeup'
    <3>1. p \in Workers /\ pc[p] = "pop" /\ p \notin Awake
      BY <1>4, <2>2 DEF ParkedMeansFull, ControlOK, TypeOK, Awake
    <3>2. Awake' = Awake \cup {p}
      BY <1>4, <2>2, <3>1 DEF Awake
    <3>3. Cardinality(Awake') = Cardinality(Awake) + 1
      BY <1>0, <3>1, <3>2, FS_AddElement
    <3>4. Cardinality(queued') <= Cardinality(queued) + 1
      BY <1>4, QueueGrows
    <3>5. Cardinality(queued) <= Cardinality(Awake)
      BY <2>2, <3>1 DEF NoLostWakeup
    <3> QED
      BY <1>0, <3>3, <3>4, <3>5 DEF NoLostWakeup
  <2> QED
    BY <1>4, <2>1, <2>2 DEF Signal
<1>5. ASSUME NEW p \in Procs, TakeExpired(p), \A w \in Workers : pc'[w] = pc[w]
      PROVE  NoLostWakeup'
  BY <1>5, <1>1, <1>2 DEF TakeExpired, Awake
<1>6. ASSUME NEW s \in Submitters, Admit(s) PROVE NoLostWakeup'
  <2>1. s \in Procs /\ cur[s] \in Tasks
    BY <1>6 DEF Admit, ControlOK, TypeOK, Procs
  <2>2. \A w \in Workers : pc'[w] = pc[w]
    BY <1>6 DEF Admit, AdmitClosed, AdmitRoom, AdmitDrop, AdmitTooLate, AdmitWait,
       Goto, TypeOK, Procs
  <2>3. CASE AdmitRoom(s)
    BY <2>1, <2>2, <2>3, <1>4 DEF AdmitRoom, Enqueue
  <2>4. CASE AdmitWait(s)
    <3>1. CASE TakeExpired(s)
      BY <2>1, <2>2, <3>1, <1>5
    <3>2. CASE waiters' = waiters \cup {s} /\ UNCHANGED queued
      BY <2>2, <3>2, <1>1 DEF Awake
    <3> QED
      BY <2>4, <3>1, <3>2 DEF AdmitWait, AwaitRoom
  <2>5. CASE queued' = queued /\ waiters' = waiters
    BY <2>2, <2>5, <1>1 DEF Awake
  <2> QED
    BY <1>6, <2>3, <2>4, <2>5 DEF Admit, AdmitClosed, AdmitDrop, AdmitTooLate, queueVars
<1>7. ASSUME NEW s \in Submitters, Loop(s) PROVE NoLostWakeup'
  <2>1. s \in Procs /\ cur[s] \in Tasks
    BY <1>7 DEF Loop, ControlOK, TypeOK, Procs
  <2>2. \A w \in Workers : pc'[w] = pc[w]
    BY <1>7 DEF Loop, LoopAgain, LoopClosed, LoopRoom, LoopTimedOut, Goto, TypeOK,
       Procs
  <2>3. CASE LoopRoom(s)
    BY <2>1, <2>2, <2>3, <1>4 DEF LoopRoom, Enqueue
  <2>4. CASE LoopAgain(s)
    <3>1. CASE TakeExpired(s)
      BY <2>1, <2>2, <3>1, <1>5
    <3>2. CASE waiters' = waiters \cup {s} /\ UNCHANGED queued
      BY <2>2, <3>2, <1>1 DEF Awake
    <3> QED
      BY <2>4, <3>1, <3>2 DEF LoopAgain, AwaitRoom
  <2>5. CASE queued' = queued /\ waiters' = waiters
    BY <2>2, <2>5, <1>1 DEF Awake
  <2> QED
    BY <1>7, <2>3, <2>4, <2>5 DEF Loop, LoopClosed, LoopTimedOut, queueVars
<1>8. ASSUME NEW w \in Workers, Pop(w) PROVE NoLostWakeup'
  <2>1. CASE PopTask(w)
    BY <2>1, <1>2 DEF PopTask, NextUp
  <2>2. CASE PopClosed(w)
    BY <2>2, <1>2 DEF PopClosed, TakeExpired, ClosedDrains
  <2>3. CASE PopDead(w)
    BY <2>3, <1>2 DEF PopDead, TakeExpired
  <2>4. CASE PopWait(w)
    BY <2>4, <1>3 DEF PopWait
  <2> QED
    BY <1>8, <2>1, <2>2, <2>3, <2>4 DEF Pop
<1>9. ASSUME NEW w \in Workers, Start(w) \/ Finish(w) \/ Leave(w) PROVE NoLostWakeup'
  BY <1>9, <1>1 DEF Start, StartEngine, StartTooLate, Finish, Leave, Goto, Awake,
     queueVars, TypeOK, Procs
<1>10. ASSUME NEW s \in Submitters, Collect(s) PROVE NoLostWakeup'
  BY <1>10, <1>5 DEF Collect, Goto, TypeOK, Procs
<1>11. CASE Sweep
  BY <1>11, <1>5 DEF Sweep, Procs
<1>12. ASSUME queued' = queued, waiters' = waiters, \A w \in Workers : pc'[w] = pc[w]
       PROVE  NoLostWakeup'
  BY <1>12, <1>1 DEF Awake
<1>13. ASSUME NEW s \in Submitters,
              \/ Expire(s) \/ ShedLimit(s)
              \/ \E t \in Tasks, d \in Deadlines : Submit(s, t, d)
       PROVE  NoLostWakeup'
  BY <1>12, <1>13 DEF Submit, Expire, ShedLimit, Goto, queueVars, TypeOK,
     Procs
<1>14. CASE \/ SweepExit \/ CloseStop \/ CloseReturn \/ Tick
            \/ (\E p \in Procs : ReplyDead(p)) \/ (\E t \in Tasks : TimerDue(t))
            \/ UNCHANGED vars
  BY <1>12, <1>14 DEF SweepExit, CloseStop, CloseReturn, Tick, ReplyDead, TimerDue,
     Goto, queueVars, vars, TypeOK, Procs
<1>15. CASE CloseFlag \/ \E t \in Tasks : TimerFire(t)
  BY <1>2, <1>15 DEF CloseFlag, TimerFire
<1> QED
  BY <1>6, <1>7, <1>8, <1>9, <1>10, <1>11, <1>13, <1>14, <1>15
     DEF Next, SubmitterStep, WorkerStep

\* The condition variable loses no wake-up and the queue keeps its bound: a
\* parked submitter faces a full queue, a parked worker leaves an awake one for
\* every queued task, and workers leave only an empty, closed pool.
THEOREM NoWakeupLost == Spec => []WakeProtocol
<1>1. Init => WakeProtocol
  BY PoolAssumption, FS_EmptySet
     DEF Init, WakeProtocol, QueueBounded, ParkedMeansFull, ClosedDrains,
         NoLostWakeup, Procs
<1>2. TypeOK /\ ControlOK /\ WakeProtocol /\ [Next]_vars => WakeProtocol'
  BY BoundStep, ParkStep, WakeStep DEF WakeProtocol
<1> QED
  BY <1>1, <1>2, TypeCorrect, PTL DEF Spec

\* Close drains: when it has returned the queue is empty and every message that
\* is still unanswered is in the hands of a goroutine inside Submit.
THEOREM CloseDrains == Spec => []ClosedLeavesOnlySubmitters
<1>1. TypeOK /\ ControlOK /\ TaskOwned /\ WakeProtocol => ClosedLeavesOnlySubmitters
  BY PoolAssumption DEF ControlOK, TaskOwned, AnsweredOnce, WakeProtocol, ClosedDrains,
     ClosedLeavesOnlySubmitters, Held, Procs, WorkerLabels
<1> QED
  BY <1>1, TypeCorrect, OneAnswer, NoWakeupLost, PTL
=============================================================================
