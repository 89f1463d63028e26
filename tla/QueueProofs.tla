---------------------------- MODULE QueueProofs ----------------------------
(***************************************************************************)
(* More about Pool, for any number of tasks, submitters and workers: the   *)
(* counters, Task.Fill, the arrival order of the queue, and that Pool      *)
(* implements the abstract Answering.                                      *)
(***************************************************************************)
EXTENDS PoolProofs

-----------------------------------------------------------------------------
(* What a step may change.                                                 *)

\* Submitter s puts its task into the queue, there being room.
Enters(s) ==
    /\ pc[s] \in {"admit", "loop"}
    /\ ~IsFull
    /\ cur[s] \in Tasks
    /\ queued' = queued \cup {cur[s]}
    /\ accepted' = accepted + 1
    /\ ticket' = [ticket EXCEPT ![cur[s]] = accepted + 1]
    /\ cur' = [cur EXCEPT ![s] = NoTask]
    /\ pc[s] = "admit" => fill' = [fill EXCEPT ![cur[s]] = FillNow]
    /\ pc[s] = "loop" => fill' = fill

\* A task leaves the queue because it is overdue, or as the next one.
Leaves(t) == TooLate(t) \/ (NextUp(t) /\ queued' = queued \ (Overdue \cup {t}))

\* Tickets are given by the submitters that enter the queue, and tasks leave it
\* in no other way than these two.
LEMMA QueueChange ==
    ASSUME TypeOK, ControlOK, [Next]_vars
    PROVE  \/ \E s \in Submitters : Enters(s)
           \/ /\ ticket' = ticket /\ accepted' = accepted
              /\ queued' \subseteq queued
              /\ \A t \in queued \ queued' : Leaves(t)
<1> DEFINE Stays == /\ ticket' = ticket /\ accepted' = accepted
                    /\ queued' \subseteq queued
                    /\ \A t \in queued \ queued' : Leaves(t)
<1> USE PoolAssumption DEF queueVars
<1>1. ASSUME NEW p \in Procs, TakeExpired(p), ticket' = ticket, accepted' = accepted PROVE Stays
  BY <1>1 DEF TakeExpired, Overdue, Leaves
<1>2. ASSUME queued' = queued, ticket' = ticket, accepted' = accepted PROVE Stays
  BY <1>2
<1>3. ASSUME NEW s \in Submitters, Admit(s) PROVE (\E u \in Submitters : Enters(u)) \/ Stays
  <2>1. s \in Procs /\ (pc[s] = "admit" => cur[s] \in Tasks)
    BY DEF Procs, ControlOK, TypeOK
  <2>2. CASE AdmitRoom(s)
    <3>1. Enters(s)
      BY <1>3, <2>1, <2>2 DEF Admit, AdmitRoom, Enqueue, Enters
    <3> QED
      BY <3>1
  <2>3. CASE AdmitWait(s)
    BY <1>1, <1>2, <2>1, <2>3 DEF AdmitWait, AwaitRoom
  <2>4. CASE AdmitClosed(s) \/ AdmitDrop(s) \/ AdmitTooLate(s)
    BY <1>2, <2>4 DEF AdmitClosed, AdmitDrop, AdmitTooLate
  <2> QED
    BY <1>3, <2>2, <2>3, <2>4 DEF Admit
<1>4. ASSUME NEW s \in Submitters, Loop(s) PROVE (\E u \in Submitters : Enters(u)) \/ Stays
  <2>1. s \in Procs /\ (pc[s] = "loop" => cur[s] \in Tasks)
    BY DEF Procs, ControlOK, TypeOK
  <2>2. CASE LoopRoom(s)
    <3>1. Enters(s)
      BY <1>4, <2>1, <2>2 DEF Loop, LoopRoom, Enqueue, Enters
    <3> QED
      BY <3>1
  <2>3. CASE LoopAgain(s)
    BY <1>1, <1>2, <2>1, <2>3 DEF LoopAgain, AwaitRoom
  <2>4. CASE LoopClosed(s) \/ LoopTimedOut(s)
    BY <1>2, <2>4 DEF LoopClosed, LoopTimedOut
  <2> QED
    BY <1>4, <2>2, <2>3, <2>4 DEF Loop
<1>5. ASSUME NEW w \in Workers, Pop(w) PROVE Stays
  <2>1. w \in Procs
    BY DEF Procs
  <2>2. CASE PopTask(w)
    BY <1>5, <2>2 DEF Pop, PopTask, Overdue, Leaves, NextUp
  <2>3. CASE PopClosed(w) \/ PopDead(w)
    BY <1>1, <1>5, <2>1, <2>3 DEF Pop, PopClosed, PopDead
  <2>4. CASE PopWait(w)
    BY <1>2, <1>5, <2>4 DEF Pop, PopWait
  <2> QED
    BY <1>5, <2>2, <2>3, <2>4 DEF Pop
<1>6. ASSUME NEW s \in Submitters, Collect(s) PROVE Stays
  BY <1>1, <1>6 DEF Collect, Procs
<1>7. CASE Sweep
  BY <1>1, <1>7 DEF Sweep, Procs
<1> QED
  BY <1>2, <1>3, <1>4, <1>5, <1>6, <1>7
     DEF Next, vars, SubmitterStep, WorkerStep, Submit, Expire, ShedLimit, Start, Finish,
         Leave, ReplyDead, SweepExit, TimerDue, TimerFire, CloseStop, CloseFlag,
         CloseReturn, Tick

\* The handler is called for a pending task t, which gets its last status, and
\* the counter of that status.
Answers(t, why) ==
    /\ status[t] = "pending"
    /\ status' = [status EXCEPT ![t] = why]
    /\ shed' = shed + (IF why = "limit" THEN 1 ELSE 0)
    /\ expired' = expired + (IF why = "deadline" THEN 1 ELSE 0)

\* A task becomes pending, or is answered and counted, or nothing happens to any.
LEMMA StatusChange ==
    ASSUME TypeOK, ControlOK, TaskOwned, [Next]_vars
    PROVE  \/ UNCHANGED <<status, shed, expired>>
           \/ \E t \in Tasks :
                 /\ status[t] = "new" /\ status' = [status EXCEPT ![t] = "pending"]
                 /\ UNCHANGED <<shed, expired, ticket, fill>>
           \/ \E t \in Tasks : \E why \in {"deadline", "evaluated"} : Answers(t, why)
           \/ \E s \in Submitters : pc[s] = "limit" /\ cur[s] \in Tasks /\ Answers(cur[s], "limit")
<1> USE DEF answerVars
<1>1. ASSUME NEW p \in Procs, NEW t \in Held(p) PROVE t \in Tasks /\ status[t] = "pending"
  BY <1>1 DEF TaskOwned, AnsweredOnce, Held, TypeOK
<1>2. ASSUME NEW p \in Procs, cur[p] # NoTask PROVE cur[p] \in Held(p)
  BY <1>2 DEF Held
<1>3. ASSUME NEW s \in Submitters, NEW t \in Tasks, NEW d \in Deadlines, Submit(s, t, d)
      PROVE  /\ status[t] = "new" /\ status' = [status EXCEPT ![t] = "pending"]
             /\ UNCHANGED <<shed, expired, ticket, fill>>
  BY <1>3 DEF Submit, queueVars
<1>4. ASSUME NEW p \in Procs, ReplyDead(p) PROVE \E t \in Tasks : Answers(t, "deadline")
  <2>1. PICK t \in dead[p] : Answer(t, "deadline")
    BY <1>4 DEF ReplyDead
  <2>2. t \in Tasks /\ status[t] = "pending"
    <3>1. t \in Held(p)
      BY DEF Held
    <3> QED
      BY <1>1, <1>4, <3>1
  <2>3. expired' = expired + 1 /\ shed' = shed /\ shed \in Nat
    BY <1>4 DEF ReplyDead, TypeOK
  <2>4. Answers(t, "deadline")
    BY <2>1, <2>2, <2>3 DEF Answer, Answers
  <2> QED
    BY <2>2, <2>4
<1>5. ASSUME NEW s \in Submitters, Expire(s) \/ ShedLimit(s)
      PROVE  \/ \E t \in Tasks : Answers(t, "deadline")
             \/ pc[s] = "limit" /\ cur[s] \in Tasks /\ Answers(cur[s], "limit")
  <2>1. s \in Procs /\ cur[s] # NoTask
    BY <1>5 DEF Expire, ShedLimit, ControlOK, Procs
  <2>2. cur[s] \in Tasks /\ status[cur[s]] = "pending"
    BY <1>1, <1>2, <2>1
  <2> QED
    BY <1>5, <2>2 DEF Expire, ShedLimit, Answer, Answers, TypeOK
<1>6. ASSUME NEW w \in Workers, Start(w) \/ Finish(w)
      PROVE  \/ UNCHANGED <<status, shed, expired>>
             \/ \E t \in Tasks : \E why \in {"deadline", "evaluated"} : Answers(t, why)
  <2>1. w \in Procs /\ cur[w] # NoTask
    BY <1>6 DEF Start, Finish, ControlOK, Procs
  <2>2. cur[w] \in Tasks /\ status[cur[w]] = "pending"
    BY <1>1, <1>2, <2>1
  <2> QED
    BY <1>6, <2>2 DEF Start, StartEngine, StartTooLate, Finish, Answer, Answers, TypeOK
<1> QED
  BY <1>3, <1>4, <1>5, <1>6
     DEF Next, vars, SubmitterStep, WorkerStep, Collect, Admit, Loop, Pop, Leave, Sweep,
         SweepExit, TimerDue, TimerFire, CloseStop, CloseFlag, CloseReturn, Tick

-----------------------------------------------------------------------------
(* Tickets. A task gets one when it enters the queue and never another, no *)
(* two tasks have the same, and Accepted is the last one given.            *)

Tickets ==
    /\ \A t \in Tasks : ticket[t] <= accepted
    /\ \A t \in Tasks : status[t] = "new" => ticket[t] = 0
    /\ \A s \in Submitters : cur[s] # NoTask => ticket[cur[s]] = 0
    /\ \A t \in queued : ticket[t] > 0
    /\ \A t, u \in Tasks : ticket[t] > 0 /\ ticket[t] = ticket[u] => t = u

\* A submitter gets a task by Submit, which takes a new one, and has it until it
\* is queued or answered.
LEMMA SubmitterTask ==
    ASSUME TypeOK, ControlOK, [Next]_vars, NEW s \in Submitters
    PROVE  cur'[s] = cur[s] \/ cur'[s] = NoTask \/ (cur'[s] \in Tasks /\ status[cur'[s]] = "new")
<1> USE PoolAssumption DEF TypeOK, Procs
<1>1. ASSUME NEW r \in Submitters, NEW t \in Tasks, NEW d \in Deadlines, Submit(r, t, d)
      PROVE  cur'[s] = cur[s] \/ (cur'[s] \in Tasks /\ status[cur'[s]] = "new")
  BY <1>1 DEF Submit
<1>2. ASSUME NEW r \in Submitters, SubmitterStep(r) PROVE cur'[s] = cur[s] \/ cur'[s] = NoTask
  BY <1>2 DEF SubmitterStep, Collect, Admit, AdmitClosed, AdmitRoom, AdmitDrop, AdmitTooLate,
              AdmitWait, Loop, LoopAgain, LoopClosed, LoopRoom, LoopTimedOut, Expire, ShedLimit
<1>3. ASSUME NEW w \in Workers, WorkerStep(w) PROVE cur'[s] = cur[s]
  <2>1. s # w
    BY <1>3
  <2>2. cur' = cur \/ \E x : cur' = [cur EXCEPT ![w] = x]
    BY <1>3 DEF WorkerStep, Pop, PopTask, PopClosed, PopDead, PopWait, Start, StartEngine,
                StartTooLate, Finish, Leave
  <2> QED
    BY <2>1, <2>2
<1> QED
  BY <1>1, <1>2, <1>3
     DEF Next, vars, ReplyDead, Sweep, SweepExit, TimerDue, TimerFire, CloseStop, CloseFlag,
         CloseReturn, Tick

\* A new task was new before.
LEMMA NewStays ==
    ASSUME TypeOK, ControlOK, TaskOwned, [Next]_vars, NEW t \in Tasks, status'[t] = "new"
    PROVE  status[t] = "new"
BY StatusChange DEF TypeOK, Answers

\* Every step keeps the tickets in order.
LEMMA TicketStep ==
    ASSUME TypeOK, ControlOK, TaskOwned, Tickets, [Next]_vars
    PROVE  Tickets'
<1>1. \A t \in Tasks : status'[t] = "new" => status[t] = "new"
  BY NewStays
<1>2. \A s \in Submitters :
         cur'[s] = cur[s] \/ cur'[s] = NoTask \/ (cur'[s] \in Tasks /\ status[cur'[s]] = "new")
  BY SubmitterTask
<1>3. ASSUME NEW s \in Submitters, Enters(s) PROVE Tickets'
  <2>1. PICK t \in Tasks : t = cur[s]
    BY <1>3 DEF Enters
  <2>2. /\ ticket[t] = 0 /\ accepted' = accepted + 1 /\ queued' = queued \cup {t}
        /\ ticket'[t] = accepted + 1 /\ \A u \in Tasks : u # t => ticket'[u] = ticket[u]
    BY <1>3, <2>1, PoolAssumption DEF Enters, TypeOK, Tickets
  <2>3. accepted \in Nat /\ \A u \in Tasks : ticket[u] \in Nat /\ ticket[u] <= accepted
    BY DEF TypeOK, Tickets
  <2>4. \A u \in Tasks : ticket'[u] <= accepted'
    BY <2>2, <2>3
  <2>5. status[t] = "pending"
    BY <1>3, <2>1, PoolAssumption DEF TaskOwned, AnsweredOnce, Held, Procs
  <2>6. \A u \in Tasks : status'[u] = "new" => ticket'[u] = 0
    BY <1>1, <2>2, <2>5 DEF Tickets
  <2>7. ASSUME NEW r \in Submitters, cur'[r] # NoTask PROVE ticket'[cur'[r]] = 0
    <3>1. r # s /\ cur'[r] = cur[r]
      BY <1>3, <2>7 DEF Enters, TypeOK, Procs
    <3>2. cur[r] \in Tasks /\ cur[r] # t
      BY <2>1, <2>7, <3>1, PoolAssumption DEF TaskOwned, OneOwner, Held, TypeOK, Procs
    <3> QED
      BY <2>2, <2>7, <3>1, <3>2 DEF Tickets
  <2>8. \A u \in queued' : ticket'[u] > 0
    BY <2>2, <2>3 DEF Tickets, TypeOK
  <2>9. ASSUME NEW u \in Tasks, NEW v \in Tasks, ticket'[u] > 0, ticket'[u] = ticket'[v]
        PROVE  u = v
    <3>1. CASE u # t /\ v # t
      BY <2>2, <2>9, <3>1 DEF Tickets
    <3>2. CASE u = t \/ v = t
      BY <2>2, <2>3, <2>9, <3>2
    <3> QED
      BY <3>1, <3>2
  <2> QED
    BY <2>4, <2>6, <2>7, <2>8, <2>9 DEF Tickets
<1>4. CASE ticket' = ticket /\ accepted' = accepted /\ queued' \subseteq queued
  BY <1>1, <1>2, <1>4 DEF Tickets
<1> QED
  BY <1>3, <1>4, QueueChange

\* Tickets hold in every state.
LEMMA TicketInvariant == Spec => []Tickets
<1>1. Init => Tickets
  BY PoolAssumption DEF Init, Tickets, Procs
<1> QED
  BY <1>1, TicketStep, TypeCorrect, OneAnswer, PTL DEF Spec

\* First in, first out: a task enters the queue behind every other, keeps its
\* ticket, and is popped in good time only before everything still queued.
THEOREM FirstInFirstOut == Spec => ArrivalOrder
<1>1. TypeOK /\ ControlOK /\ Tickets /\ [Next]_vars =>
        [\A t \in Tasks :
           /\ t \in queued' \ queued => \A u \in Tasks \ {t} : ticket'[u] < ticket'[t]
           /\ ticket[t] > 0 => ticket'[t] = ticket[t]
           /\ t \in queued \ queued' /\ ~TooLate(t) =>
                 \A u \in queued' : ticket[t] < ticket'[u]]_vars
  <2> SUFFICES ASSUME TypeOK, ControlOK, Tickets, [Next]_vars, NEW t \in Tasks
               PROVE  /\ t \in queued' \ queued => \A u \in Tasks \ {t} : ticket'[u] < ticket'[t]
                      /\ ticket[t] > 0 => ticket'[t] = ticket[t]
                      /\ t \in queued \ queued' /\ ~TooLate(t) =>
                            \A u \in queued' : ticket[t] < ticket'[u]
    OBVIOUS
  <2>1. accepted \in Nat /\ \A u \in Tasks : ticket[u] \in Nat /\ ticket[u] <= accepted
    BY DEF TypeOK, Tickets
  <2>2. ASSUME NEW s \in Submitters, Enters(s)
        PROVE  /\ t \in queued' \ queued => \A u \in Tasks \ {t} : ticket'[u] < ticket'[t]
               /\ ticket[t] > 0 => ticket'[t] = ticket[t]
               /\ t \notin queued \ queued'
    <3>1. PICK x \in Tasks : x = cur[s]
      BY <2>2 DEF Enters
    <3>2. /\ ticket[x] = 0 /\ queued' = queued \cup {x}
          /\ ticket'[x] = accepted + 1 /\ \A u \in Tasks : u # x => ticket'[u] = ticket[u]
      BY <2>2, <3>1, PoolAssumption DEF Enters, TypeOK, Tickets
    <3> QED
      BY <2>1, <3>2
  <2>3. ASSUME ticket' = ticket, queued' \subseteq queued, t \in queued \ queued', ~TooLate(t),
               Leaves(t), NEW u \in queued'
        PROVE  ticket[t] < ticket'[u]
    <3>1. u \in queued \ Overdue /\ u # t /\ ticket[t] <= ticket[u]
      BY <2>3 DEF Leaves, NextUp
    <3>2. t \in Tasks /\ u \in Tasks /\ ticket[t] > 0 /\ ticket[u] \in Nat /\ ticket[t] \in Nat
      BY <2>3, <3>1 DEF TypeOK, Tickets
    <3>3. ticket[t] # ticket[u]
      BY <3>1, <3>2 DEF Tickets
    <3> QED
      BY <2>3, <3>1, <3>2, <3>3
  <2>4. CASE /\ ticket' = ticket /\ queued' \subseteq queued
             /\ \A u \in queued \ queued' : Leaves(u)
    BY <2>3, <2>4
  <2> QED
    BY <2>2, <2>4, QueueChange
<1> QED
  BY <1>1, TypeCorrect, TicketInvariant, PTL DEF Spec, ArrivalOrder

-----------------------------------------------------------------------------
(* The counters.                                                           *)

\* One more of the tasks: one more.
LEMMA OneMore ==
    ASSUME NEW S \in SUBSET Tasks, NEW t \in Tasks, t \notin S
    PROVE  Cardinality(S \cup {t}) = Cardinality(S) + 1
BY PoolAssumption, FS_Subset, FS_AddElement

\* The tasks with status why, and the tasks with a ticket.
Having(why) == {t \in Tasks : status[t] = why}
Ticketed == {t \in Tasks : ticket[t] > 0}

\* A step that gives one task status why, or that leaves the tasks with that
\* status alone.
LEMMA HavingChange ==
    ASSUME TypeOK, NEW why, NEW t \in Tasks, NEW to,
           status[t] # why, status' = [status EXCEPT ![t] = to]
    PROVE  Cardinality(Having(why)') = Cardinality(Having(why)) + (IF to = why THEN 1 ELSE 0)
<1>1. CASE to = why
  <2>1. Having(why)' = Having(why) \cup {t} /\ t \notin Having(why)
    BY <1>1 DEF Having, TypeOK
  <2> QED
    BY <1>1, <2>1, OneMore DEF Having
<1>2. CASE to # why
  <2>1. Having(why)' = Having(why)
    BY <1>2 DEF Having, TypeOK
  <2>2. Cardinality(Having(why)) \in Nat
    BY PoolAssumption, FS_Subset, FS_CardinalityType DEF Having
  <2> QED
    BY <1>2, <2>1, <2>2
<1> QED
  BY <1>1, <1>2

\* The counters the process reports agree with what happened to the tasks: every
\* answered task is in one of Shed, Expired and the evaluated ones, and Accepted
\* counts the ones that were queued, once each.
THEOREM CountersExact == Spec => []CountersAgree
<1>1. Init => CountersAgree
  <2> SUFFICES ASSUME Init PROVE CountersAgree
    OBVIOUS
  <2>1. /\ {t \in Tasks : status[t] = "limit"} = {} /\ {t \in Tasks : status[t] = "deadline"} = {}
        /\ {t \in Tasks : ticket[t] > 0} = {}
    BY DEF Init
  <2> QED
    BY <2>1, FS_EmptySet DEF Init, CountersAgree
<1>2. TypeOK /\ ControlOK /\ TaskOwned /\ Tickets /\ CountersAgree /\ [Next]_vars => CountersAgree'
  <2> SUFFICES ASSUME TypeOK, ControlOK, TaskOwned, Tickets, CountersAgree, [Next]_vars
               PROVE  CountersAgree'
    OBVIOUS
  <2>1. /\ shed = Cardinality(Having("limit")) /\ expired = Cardinality(Having("deadline"))
        /\ accepted = Cardinality(Ticketed)
    BY DEF CountersAgree, Having, Ticketed
  <2>2. shed' = Cardinality(Having("limit")') /\ expired' = Cardinality(Having("deadline")')
    <3>1. CASE UNCHANGED <<status, shed, expired>>
      BY <2>1, <3>1 DEF Having
    <3>2. ASSUME NEW t \in Tasks, status[t] = "new", status' = [status EXCEPT ![t] = "pending"],
                 UNCHANGED <<shed, expired>>
          PROVE  shed' = Cardinality(Having("limit")') /\ expired' = Cardinality(Having("deadline")')
      <4>1. /\ Cardinality(Having("limit")') = Cardinality(Having("limit")) + 0
            /\ Cardinality(Having("deadline")') = Cardinality(Having("deadline")) + 0
        BY <3>2, HavingChange
      <4> QED
        BY <2>1, <3>2, <4>1 DEF TypeOK
    <3>3. ASSUME NEW t \in Tasks, NEW why \in Reasons, Answers(t, why)
          PROVE  shed' = Cardinality(Having("limit")') /\ expired' = Cardinality(Having("deadline")')
      BY <2>1, <3>3, HavingChange DEF Answers
    <3> QED
      BY <3>1, <3>2, <3>3, StatusChange DEF Reasons
  <2>3. accepted' = Cardinality(Ticketed')
    <3>1. CASE ticket' = ticket /\ accepted' = accepted
      BY <2>1, <3>1 DEF Ticketed
    <3>2. ASSUME NEW s \in Submitters, Enters(s) PROVE accepted' = Cardinality(Ticketed')
      <4>1. PICK t \in Tasks : t = cur[s]
        BY <3>2 DEF Enters
      <4>2. ticket[t] = 0 /\ ticket'[t] = accepted + 1 /\ \A u \in Tasks : u # t => ticket'[u] = ticket[u]
        BY <3>2, <4>1, PoolAssumption DEF Enters, TypeOK, Tickets
      <4>3. accepted \in Nat /\ accepted' = accepted + 1
        BY <3>2 DEF Enters, TypeOK
      <4>4. Ticketed' = Ticketed \cup {t} /\ t \notin Ticketed
        BY <4>2, <4>3 DEF Ticketed
      <4> QED
        BY <2>1, <4>3, <4>4, OneMore DEF Ticketed
    <3> QED
      BY <3>1, <3>2, QueueChange
  <2> QED
    BY <2>2, <2>3 DEF CountersAgree, Having, Ticketed
<1> QED
  BY <1>1, <1>2, TypeCorrect, OneAnswer, TicketInvariant, PTL DEF Spec

-----------------------------------------------------------------------------
(* Task.Fill.                                                              *)

\* A task is about to be shed because the queue was full, and a queue that drops
\* keeps nobody waiting.
Filled ==
    /\ \A s \in Submitters : pc[s] = "limit" => fill[cur[s]] = 100
    /\ \A s \in Submitters : pc[s] = "loop" => Full = "wait"

\* With room, the queue is less than full.
LEMMA RoomIsBelow100 ==
    ASSUME TypeOK, ~IsFull
    PROVE  FillNow < 100
<1>1. PICK n \in Nat : n = Cardinality(queued)
  BY QueueFinite
<1>2. n < Depth /\ Depth \in Nat \ {0}
  BY <1>1, PoolAssumption DEF IsFull
<1>3. FillNow = (n * 100) \div Depth
  BY <1>1 DEF FillNow
<1>4. ASSUME NEW q \in Int, q >= 100 PROVE Depth * q >= Depth * 100
  BY <1>2, <1>4
<1>5. (n * 100) \div Depth \in Int /\ Depth * ((n * 100) \div Depth) <= n * 100
  BY <1>2
<1>6. n * 100 < Depth * 100
  BY <1>2
<1>7. PICK q \in Int : q = (n * 100) \div Depth
  BY <1>5
<1>8. Depth * q <= n * 100
  BY <1>5, <1>7
<1>9. Depth * q \in Int
  BY <1>2
<1> QED
  BY <1>2, <1>3, <1>4, <1>6, <1>7, <1>8, <1>9

\* What changes Task.Fill: a submitter that finds its task no place, or one.
LEMMA FillChange ==
    ASSUME TypeOK, ControlOK, [Next]_vars
    PROVE  fill' = fill \/ \E s \in Submitters :
              pc[s] = "admit" /\ cur[s] \in Tasks /\ fill' = [fill EXCEPT ![cur[s]] = FillNow]
<1>1. ASSUME NEW s \in Submitters, Admit(s)
      PROVE  \/ fill' = fill
             \/ pc[s] = "admit" /\ cur[s] \in Tasks /\ fill' = [fill EXCEPT ![cur[s]] = FillNow]
  BY <1>1 DEF Admit, AdmitClosed, AdmitRoom, AdmitDrop, AdmitTooLate, AdmitWait, ControlOK,
              TypeOK, Procs
<1> QED
  BY <1>1
     DEF Next, vars, SubmitterStep, WorkerStep, Submit, Collect, Loop, Expire, ShedLimit, Pop,
         Start, Finish, Leave, ReplyDead, Sweep, SweepExit, TimerDue, TimerFire, CloseStop,
         CloseFlag, CloseReturn, Tick

\* How a submitter gets to where it sheds or waits.
LEMMA LimitOrLoop ==
    ASSUME TypeOK, ControlOK, [Next]_vars, NEW s \in Submitters
    PROVE  \/ pc'[s] \notin {"limit", "loop"}
           \/ pc'[s] = pc[s] /\ cur'[s] = cur[s]
           \/ /\ pc[s] = "admit" /\ pc'[s] = "limit" /\ cur'[s] = cur[s] /\ cur[s] \in Tasks
              /\ fill' = [fill EXCEPT ![cur[s]] = 100]
           \/ pc'[s] = "loop" /\ Full = "wait"
<1> USE PoolAssumption DEF TypeOK, Procs, Goto
<1>1. s # Main /\ s # Sweeper /\ s \in Procs /\ \A w \in Workers : w # s
  OBVIOUS
<1>2. ASSUME NEW r \in Submitters, NEW t \in Tasks, NEW d \in Deadlines, Submit(r, t, d)
      PROVE  pc'[s] \notin {"limit", "loop"} \/ (pc'[s] = pc[s] /\ cur'[s] = cur[s])
  BY <1>2 DEF Submit
<1>3. ASSUME NEW r \in Submitters, r # s, SubmitterStep(r)
      PROVE  pc'[s] = pc[s] /\ cur'[s] = cur[s]
  BY <1>3 DEF SubmitterStep, Collect, Admit, AdmitClosed, AdmitRoom, AdmitDrop, AdmitTooLate,
              AdmitWait, Loop, LoopAgain, LoopClosed, LoopRoom, LoopTimedOut, Expire, ShedLimit
<1>4. CASE Admit(s)
  <2>1. cur[s] \in Tasks
    BY <1>4 DEF Admit, ControlOK
  <2>2. CASE AdmitDrop(s)
    BY <1>1, <1>4, <2>1, <2>2 DEF Admit, AdmitDrop, FillNow
  <2> QED
    BY <1>1, <1>4, <2>2 DEF Admit, AdmitClosed, AdmitRoom, AdmitTooLate, AdmitWait
<1>5. CASE Collect(s) \/ Loop(s) \/ Expire(s) \/ ShedLimit(s)
  BY <1>5 DEF Collect, Loop, LoopAgain, LoopClosed, LoopRoom, LoopTimedOut, Expire, ShedLimit
<1>6. ASSUME NEW w \in Workers, WorkerStep(w) PROVE pc'[s] = pc[s] /\ cur'[s] = cur[s]
  BY <1>1, <1>6 DEF WorkerStep, Pop, PopTask, PopClosed, PopDead, PopWait, Start, StartEngine,
                    StartTooLate, Finish, Leave
<1>7. CASE SweepExit \/ CloseStop \/ CloseFlag \/ CloseReturn
  BY <1>1, <1>7 DEF SweepExit, CloseStop, CloseFlag, CloseReturn
<1> QED
  BY <1>2, <1>3, <1>4, <1>5, <1>6, <1>7
     DEF Next, vars, SubmitterStep, ReplyDead, Sweep, TimerDue, TimerFire, Tick

\* Task.Fill, from which overload rules decide, tells the truth: a task turned
\* away for lack of room saw a full queue, and in drop mode one that was let in
\* never did.
THEOREM FillTellsTheTruth == Spec => []FillIsHonest
<1> DEFINE Honest == Filled /\ FillIsHonest
<1>1. Init => Honest
  BY PoolAssumption DEF Init, Filled, FillIsHonest, Procs
<1>2. TypeOK /\ ControlOK /\ TaskOwned /\ Tickets /\ Honest /\ [Next]_vars => Honest'
  <2> SUFFICES ASSUME TypeOK, ControlOK, TaskOwned, Tickets, Honest, [Next]_vars PROVE Honest'
    OBVIOUS
  <2>1. ASSUME NEW s \in Submitters, cur[s] # NoTask
        PROVE  cur[s] \in Tasks /\ status[cur[s]] = "pending" /\ ticket[cur[s]] = 0
    BY <2>1 DEF TaskOwned, AnsweredOnce, Held, Tickets, TypeOK, Procs
  <2>2. ASSUME NEW t \in Tasks, \A s \in Submitters : pc[s] = "admit" => cur[s] # t
        PROVE  fill'[t] = fill[t]
    BY <2>2, FillChange DEF TypeOK
  <2>3. ASSUME NEW s \in Submitters, pc'[s] = "limit" PROVE fill'[cur'[s]] = 100
    <3>1. CASE pc'[s] = pc[s] /\ cur'[s] = cur[s]
      <4>1. cur[s] # NoTask /\ cur[s] \in Tasks
        BY <2>3, <3>1 DEF ControlOK, TypeOK, Procs
      <4>2. \A r \in Submitters : pc[r] = "admit" => cur[r] # cur[s]
        BY <2>3, <3>1, <4>1 DEF TaskOwned, OneOwner, Held, Procs
      <4> QED
        BY <2>2, <2>3, <3>1, <4>1, <4>2 DEF Filled
    <3> QED
      BY <2>3, <3>1, LimitOrLoop DEF TypeOK
  <2>4. \A s \in Submitters : pc'[s] = "loop" => Full = "wait"
    BY LimitOrLoop DEF Filled
  <2>5. ASSUME NEW t \in Tasks, status'[t] = "limit" PROVE fill'[t] = 100
    <3>1. CASE status[t] = "limit"
      <4>1. \A s \in Submitters : pc[s] = "admit" => cur[s] # t
        BY <2>1, <3>1, PoolAssumption
      <4> QED
        BY <2>2, <3>1, <4>1 DEF FillIsHonest
    <3>2. CASE status[t] # "limit"
      <4>1. PICK s \in Submitters : pc[s] = "limit" /\ cur[s] = t
        BY <2>5, <3>2, StatusChange DEF Answers, TypeOK
      <4>2. \A r \in Submitters : pc[r] = "admit" => cur[r] # t
        BY <4>1, PoolAssumption DEF TaskOwned, OneOwner, Held, Procs
      <4> QED
        BY <2>2, <4>1, <4>2 DEF Filled
    <3> QED
      BY <3>1, <3>2
  <2>6. ASSUME NEW t \in Tasks, Full = "drop", ticket'[t] > 0 PROVE fill'[t] < 100
    <3>1. CASE ticket[t] > 0
      <4>1. \A s \in Submitters : pc[s] = "admit" => cur[s] # t
        BY <2>1, <3>1, PoolAssumption
      <4> QED
        BY <2>2, <2>6, <3>1, <4>1 DEF FillIsHonest
    <3>2. CASE ~(ticket[t] > 0)
      <4>1. PICK s \in Submitters : Enters(s)
        BY <2>6, <3>2, QueueChange
      <4>2. cur[s] = t
        BY <2>6, <3>2, <4>1 DEF Enters, TypeOK
      <4>3. pc[s] = "admit"
        BY <2>6, <4>1 DEF Enters, Filled
      <4> QED
        BY <4>1, <4>2, <4>3, RoomIsBelow100 DEF Enters, TypeOK
    <3> QED
      BY <3>1, <3>2
  <2> QED
    BY <2>3, <2>4, <2>5, <2>6 DEF Filled, FillIsHonest
<1>3. Honest => FillIsHonest
  OBVIOUS
<1> QED
  BY <1>1, <1>2, <1>3, TypeCorrect, OneAnswer, TicketInvariant, PTL DEF Spec

-----------------------------------------------------------------------------
(* Pool implements Answering.                                              *)

\* Where a submitter's, and a worker's, task is, from the label.
SubmitterPlace(label) ==
    IF label = "expire" THEN "late" ELSE IF label = "limit" THEN "refused" ELSE "waiting"
WorkerPlace(label) == IF label = "run" THEN "running" ELSE "taken"

\* Where a task is follows from its one owner.
PlaceOK ==
    \A t \in Tasks :
        /\ status[t] # "pending" => Place(t) = status[t]
        /\ t \in queued => Place(t) = "queued"
        /\ \A p \in Procs : t \in dead[p] => Place(t) = "late"
        /\ \A s \in Submitters : cur[s] = t => Place(t) = SubmitterPlace(pc[s])
        /\ \A w \in Workers : cur[w] = t => Place(t) = WorkerPlace(pc[w])

\* One owner, one place.
LEMMA PlaceDetermined == TypeOK /\ ControlOK /\ TaskOwned => PlaceOK
<1> SUFFICES ASSUME TypeOK, ControlOK, TaskOwned, NEW t \in Tasks
             PROVE  /\ status[t] # "pending" => Place(t) = status[t]
                    /\ t \in queued => Place(t) = "queued"
                    /\ \A p \in Procs : t \in dead[p] => Place(t) = "late"
                    /\ \A s \in Submitters : cur[s] = t => Place(t) = SubmitterPlace(pc[s])
                    /\ \A w \in Workers : cur[w] = t => Place(t) = WorkerPlace(pc[w])
  BY DEF PlaceOK
<1> USE PoolAssumption DEF TaskOwned, OneOwner, AnsweredOnce, Held
<1>1. status[t] # "pending" => Place(t) = status[t]
  BY DEF Place
<1>2. t \in queued => Place(t) = "queued"
  BY DEF Place, OwnedAs
<1>3. ASSUME NEW p \in Procs, t \in dead[p] PROVE Place(t) = "late"
  BY <1>3 DEF Place, OwnedAs
<1>4. ASSUME NEW s \in Submitters, cur[s] = t PROVE Place(t) = SubmitterPlace(pc[s])
  <2>1. s \in Procs /\ \A r \in Submitters : r \in Procs
    BY DEF Procs
  <2>2. status[t] = "pending" /\ t \notin queued /\ \A p \in Procs : t \notin dead[p]
    BY <1>4, <2>1
  <2>3. \A r \in Submitters : cur[r] = t => r = s
    BY <1>4, <2>1
  <2> QED
    BY <1>4, <2>2, <2>3 DEF Place, OwnedAs, SubmitterPlace
<1>5. ASSUME NEW w \in Workers, cur[w] = t PROVE Place(t) = WorkerPlace(pc[w])
  <2>1. w \in Procs /\ (\A r \in Workers : r \in Procs) /\ \A s \in Submitters : s \in Procs /\ s # w
    BY DEF Procs
  <2>2. status[t] = "pending" /\ t \notin queued /\ \A p \in Procs : t \notin dead[p]
    BY <1>5, <2>1
  <2>3. (\A r \in Workers : cur[r] = t => r = w) /\ \A s \in Submitters : cur[s] # t
    BY <1>5, <2>1
  <2> QED
    BY <1>5, <2>2, <2>3 DEF Place, OwnedAs, WorkerPlace
<1> QED
  BY <1>1, <1>2, <1>3, <1>4, <1>5

\* Everything that is known of a state, and of the places in it.
Known == TypeOK /\ ControlOK /\ TaskOwned /\ WakeProtocol /\ PlaceOK

\* A pending task has an owner.
LEMMA Owners ==
    ASSUME Known, NEW t \in Tasks, status[t] = "pending"
    PROVE  \/ t \in queued
           \/ \E p \in Procs : t \in dead[p]
           \/ \E s \in Submitters : cur[s] = t
           \/ \E w \in Workers : cur[w] = t
BY PoolAssumption DEF Known, TaskOwned, AnsweredOnce, Held, ControlOK, Procs

\* The tasks that are queued, taken and running.
LEMMA AtPlaces ==
    ASSUME Known
    PROVE  /\ Promise!At("queued") = queued
           /\ \A t \in Promise!At("taken") \cup Promise!At("running") :
                 \E w \in Workers : cur[w] = t
<1>1. ASSUME NEW t \in Tasks
      PROVE  /\ Place(t) = "queued" <=> t \in queued
             /\ Place(t) \in {"taken", "running"} => \E w \in Workers : cur[w] = t
  <2>1. CASE status[t] # "pending"
    <3>1. Place(t) = status[t] /\ status[t] \in {"new"} \cup Reasons /\ t \notin queued
      BY <2>1 DEF Known, PlaceOK, TypeOK, TaskOwned, AnsweredOnce
    <3> QED
      BY <3>1 DEF Reasons
  <2>2. ASSUME NEW p \in Procs, t \in dead[p] PROVE Place(t) = "late"
    BY <2>2 DEF Known, PlaceOK
  <2>3. ASSUME NEW s \in Submitters, cur[s] = t PROVE Place(t) \in {"late", "refused", "waiting"}
    BY <2>3 DEF Known, PlaceOK, SubmitterPlace
  <2>4. ASSUME NEW w \in Workers, cur[w] = t PROVE Place(t) \in {"taken", "running"}
    BY <2>4 DEF Known, PlaceOK, WorkerPlace
  <2>5. t \in queued => Place(t) = "queued"
    BY DEF Known, PlaceOK
  <2> QED
    BY <2>1, <2>2, <2>3, <2>4, <2>5, Owners
<1> QED
  BY <1>1 DEF Promise!At, Known, TypeOK

\* A task that keeps its owner keeps its place.
LEMMA SamePlace ==
    ASSUME Known, Known', NEW t \in Tasks, status'[t] = status[t],
           t \in queued => t \in queued',
           \A p \in Procs : t \in dead[p] => t \in dead'[p],
           \A p \in Procs : cur[p] = t =>
              /\ cur'[p] = t
              /\ \/ pc'[p] = pc[p]
                 \/ /\ p \in Submitters /\ pc[p] \notin {"expire", "limit"}
                    /\ pc'[p] \notin {"expire", "limit"}
    PROVE  Place(t)' = Place(t)
<1>1. PlaceOK /\ PlaceOK' /\ (\A s \in Submitters : s \in Procs) /\ \A w \in Workers : w \in Procs /\ w \notin Submitters
  BY PoolAssumption DEF Known, Procs
<1>2. CASE status[t] # "pending"
  BY <1>1, <1>2 DEF PlaceOK
<1>3. ASSUME t \in queued PROVE Place(t)' = Place(t)
  BY <1>1, <1>3 DEF PlaceOK
<1>4. ASSUME NEW p \in Procs, t \in dead[p] PROVE Place(t)' = Place(t)
  <2>1. Place(t) = "late" /\ t \in dead'[p]
    BY <1>1, <1>4 DEF PlaceOK
  <2> QED
    BY <1>1, <2>1 DEF PlaceOK
<1>5. ASSUME NEW s \in Submitters, cur[s] = t PROVE Place(t)' = Place(t)
  <2>1. Place(t) = SubmitterPlace(pc[s])
    BY <1>1, <1>5 DEF PlaceOK
  <2>2. Place(t)' = SubmitterPlace(pc'[s])
    BY <1>1, <1>5 DEF PlaceOK
  <2>3. SubmitterPlace(pc'[s]) = SubmitterPlace(pc[s])
    BY <1>1, <1>5 DEF SubmitterPlace
  <2> QED
    BY <2>1, <2>2, <2>3
<1>6. ASSUME NEW w \in Workers, cur[w] = t PROVE Place(t)' = Place(t)
  <2>1. Place(t) = WorkerPlace(pc[w])
    BY <1>1, <1>6 DEF PlaceOK
  <2>2. Place(t)' = WorkerPlace(pc'[w]) /\ pc'[w] = pc[w]
    BY <1>1, <1>6 DEF PlaceOK
  <2> QED
    BY <2>1, <2>2
<1> QED
  BY <1>2, <1>3, <1>4, <1>5, <1>6, Owners

\* Main and the flag of Close stay where they are.
Untouched == closed' = closed /\ pc'[Main] = pc[Main]

\* A step that moves no task is nothing to the promise.
LEMMA Quiet ==
    ASSUME Untouched, \A t \in Tasks : Place(t)' = Place(t)
    PROVE  UNCHANGED Promise!vars
BY DEF Untouched, Promise!vars

\* One task moves, the others stay.
LEMMA OneMoves ==
    ASSUME NEW x \in Tasks, NEW to, Place(x)' = to, \A y \in Tasks \ {x} : Place(y)' = Place(y)
    PROVE  Promise!Move({x}, to)
BY DEF Promise!Move

\* The handler is called for a task that is where it may be.
LEMMA AnswerMoves ==
    ASSUME Known, Known', Untouched, NEW x \in Tasks, NEW why \in Reasons,
           status' = [status EXCEPT ![x] = why], queued' = queued,
           \A p \in Procs : dead[p] \ {x} \subseteq dead'[p],
           \A p \in Procs : cur[p] # x => cur'[p] = cur[p] /\ pc'[p] = pc[p],
           \/ Place(x) = "running" /\ why = "evaluated"
           \/ Place(x) = "refused" /\ why = "limit"
           \/ Place(x) \in {"late", "taken"} /\ why = "deadline"
    PROVE  Promise!Next
<1>1. ASSUME NEW y \in Tasks \ {x} PROVE Place(y)' = Place(y)
  <2>1. status'[y] = status[y]
    BY <1>1 DEF Known, TypeOK
  <2> QED
    BY <1>1, <2>1, SamePlace
<1>2. Place(x)' = why
  <2>1. status'[x] = why /\ why # "pending"
    BY DEF Known, TypeOK, Reasons
  <2> QED
    BY <2>1 DEF Known, PlaceOK
<1>3. Promise!Move({x}, why)
  BY <1>1, <1>2, OneMoves
<1>4. Promise!Answer(x)
  BY <1>3 DEF Promise!Answer
<1>5. Promise!Step
  BY <1>4 DEF Promise!Step, Untouched
<1> QED
  BY <1>5 DEF Promise!Next

\* The goroutines but p, and the tasks in their hands, are left alone.
OthersKeep(p) ==
    \A q \in Procs : q # p => dead'[q] = dead[q] /\ cur'[q] = cur[q] /\ pc'[q] = pc[q]

\* Whoever takes the overdue tasks gives them up.
LEMMA TakesGiveUp ==
    ASSUME Known, Known', Untouched, NEW p \in Procs, TakeExpired(p), dead[p] = {},
           status' = status, cur' = cur, OthersKeep(p),
           \/ pc'[p] = pc[p]
           \/ cur[p] = NoTask
           \/ p \in Submitters /\ pc[p] \notin {"expire", "limit"} /\ pc'[p] \notin {"expire", "limit"}
    PROVE  Promise!Next \/ UNCHANGED Promise!vars
<1>1. PICK K \in SUBSET Tasks : K = Overdue
  BY DEF Known, TypeOK, Overdue
<1>2. K \subseteq queued /\ queued' = queued \ K /\ dead'[p] = K
  BY <1>1 DEF TakeExpired, Overdue, Known, TypeOK
<1>3. ASSUME NEW y \in Tasks, y \notin K PROVE Place(y)' = Place(y)
  <2>1. \A q \in Procs : y \in dead[q] => y \in dead'[q]
    BY DEF OthersKeep
  <2>2. \A q \in Procs : cur[q] = y =>
           /\ cur'[q] = y
           /\ \/ pc'[q] = pc[q]
              \/ /\ q \in Submitters /\ pc[q] \notin {"expire", "limit"}
                 /\ pc'[q] \notin {"expire", "limit"}
    BY PoolAssumption DEF OthersKeep
  <2> QED
    BY <1>2, <1>3, <2>1, <2>2, SamePlace
<1>4. ASSUME NEW y \in Tasks, y \in K PROVE Place(y)' = "late"
  BY <1>2, <1>4 DEF Known, PlaceOK
<1>5. CASE K = {}
  BY <1>3, <1>5, Quiet
<1>6. CASE K # {}
  <2>1. Promise!Move(K, "late")
    BY <1>3, <1>4 DEF Promise!Move
  <2>2. K \subseteq Promise!At("queued")
    BY <1>2, AtPlaces
  <2>3. Promise!GiveUp(K)
    BY <1>6, <2>1, <2>2 DEF Promise!GiveUp
  <2>4. Promise!Step
    BY <2>3 DEF Promise!Step, Untouched
  <2> QED
    BY <2>4 DEF Promise!Next
<1> QED
  BY <1>5, <1>6

\* A waiting submitter gives its task up.
LEMMA SubmitterGivesUp ==
    ASSUME Known, Known', Untouched, NEW s \in Submitters, pc[s] \in {"admit", "loop"},
           pc' = [pc EXCEPT ![s] = "expire"], UNCHANGED <<queued, dead, cur, status>>
    PROVE  Promise!Next
<1>1. PICK x \in Tasks : x = cur[s] /\ s \in Procs
  BY DEF Known, ControlOK, TypeOK, Procs
<1>2. pc'[s] = "expire" /\ \A q \in Procs : q # s => pc'[q] = pc[q]
  BY <1>1 DEF Known, TypeOK
<1>3. Place(x) = "waiting" /\ Place(x)' = "late"
  <2>1. Place(x) = SubmitterPlace(pc[s]) /\ Place(x)' = SubmitterPlace(pc'[s])
    BY <1>1 DEF Known, PlaceOK
  <2> QED
    BY <1>2, <2>1 DEF SubmitterPlace
<1>4. ASSUME NEW y \in Tasks \ {x} PROVE Place(y)' = Place(y)
  BY <1>1, <1>2, <1>4, SamePlace
<1>5. Promise!Move({x}, "late")
  BY <1>3, <1>4, OneMoves
<1>6. x \in Promise!At("waiting")
  BY <1>3 DEF Promise!At
<1>7. Promise!GiveUp({x})
  BY <1>5, <1>6 DEF Promise!GiveUp
<1>8. Promise!Step
  BY <1>7 DEF Promise!Step, Untouched
<1> QED
  BY <1>8 DEF Promise!Next

\* The queue's length is what the promise counts.
LEMMA RoomAgrees ==
    ASSUME Known
    PROVE  Promise!Cardinality(Promise!At("queued")) = Cardinality(queued)
BY AtPlaces DEF Promise!Cardinality, Cardinality, Promise!IsFiniteSet, IsFiniteSet

\* A submitter puts its task into the queue.
LEMMA EnterLetsIn ==
    ASSUME Known, Known', Untouched, NEW s \in Submitters, Enters(s), ~closed,
           pc' = [pc EXCEPT ![s] = "idle"], UNCHANGED <<dead, status>>
    PROVE  Promise!Next
<1>1. PICK x \in Tasks : x = cur[s] /\ s \in Procs
  BY DEF Known, ControlOK, TypeOK, Procs, Enters
<1>2. \A q \in Procs : q # s => pc'[q] = pc[q] /\ cur'[q] = cur[q]
  BY DEF Known, TypeOK, Enters
<1>3. Place(x) = "waiting" /\ Place(x)' = "queued"
  <2>1. Place(x) = SubmitterPlace(pc[s])
    BY <1>1 DEF Known, PlaceOK
  <2>2. x \in queued'
    BY <1>1 DEF Enters
  <2> QED
    BY <2>1, <2>2 DEF SubmitterPlace, Enters, Known, PlaceOK
<1>4. ASSUME NEW y \in Tasks \ {x} PROVE Place(y)' = Place(y)
  <2>1. y \in queued => y \in queued'
    BY DEF Enters
  <2> QED
    BY <1>1, <1>2, <1>4, <2>1, SamePlace
<1>5. Promise!Move({x}, "queued")
  BY <1>3, <1>4, OneMoves
<1>6. Promise!Cardinality(Promise!At("queued")) < Depth
  BY RoomAgrees, QueueFinite, PoolAssumption DEF Known, Enters, IsFull
<1>7. Promise!LetIn(x)
  BY <1>3, <1>5, <1>6 DEF Promise!LetIn
<1>8. Promise!Step
  BY <1>7 DEF Promise!Step, Untouched
<1> QED
  BY <1>8 DEF Promise!Next

\* Submit's entry: a message arrives, in time or not.
LEMMA SubmitImplements ==
    ASSUME Known, Known', NEW s \in Submitters, NEW x \in Tasks, NEW d \in Deadlines,
           Submit(s, x, d)
    PROVE  Promise!Next
<1> USE DEF Submit
<1>1. s \in Procs /\ s # Main /\ cur[s] = NoTask
  BY PoolAssumption DEF Known, ControlOK, Procs
<1>2. cur'[s] = x /\ pc'[s] \in {"expire", "collect"}
      /\ \A q \in Procs : q # s => pc'[q] = pc[q] /\ cur'[q] = cur[q]
  BY <1>1 DEF Goto, Known, TypeOK
<1>3. Untouched
  BY <1>1, <1>2 DEF Untouched, Procs
<1>4. Place(x) = "new" /\ Place(x)' \in {"waiting", "late"}
  <2>1. Place(x)' = SubmitterPlace(pc'[s])
    <3>1. PlaceOK' /\ cur'[s] = x
      BY <1>2 DEF Known
    <3> HIDE DEF Submit
    <3> QED
      BY <3>1, Zenon DEF PlaceOK
  <2>2. Place(x) = "new"
    <3>1. PlaceOK /\ status[x] = "new"
      BY DEF Known
    <3> HIDE DEF Submit
    <3> QED
      BY <3>1 DEF PlaceOK
  <2> QED
    BY <1>2, <2>1, <2>2 DEF SubmitterPlace
<1>5. ASSUME NEW y \in Tasks \ {x} PROVE Place(y)' = Place(y)
  <2>1. status'[y] = status[y]
    BY <1>5 DEF Known, TypeOK
  <2>2. \A q \in Procs : cur[q] = y => cur'[q] = y /\ pc'[q] = pc[q]
    BY <1>1, <1>2, PoolAssumption
  <2> QED
    BY <2>1, <2>2, SamePlace DEF queueVars
<1>6. Promise!Move({x}, "waiting") \/ Promise!Move({x}, "late")
  BY <1>4, <1>5, OneMoves
<1>7. Promise!Arrive(x)
  BY <1>4, <1>6 DEF Promise!Arrive
<1>8. Promise!Step
  BY <1>3, <1>7 DEF Promise!Step, Untouched
<1> QED
  BY <1>8 DEF Promise!Next

\* A waiting submitter goes round again: it takes what is overdue, or parks.
LEMMA AwaitImplements ==
    ASSUME Known, Known', Untouched, NEW s \in Submitters, pc[s] \in {"admit", "loop"},
           dead[s] = {}, AwaitRoom(s), status' = status, cur' = cur,
           pc' = [pc EXCEPT ![s] = "loop"]
    PROVE  Promise!Next \/ UNCHANGED Promise!vars
<1>1. s \in Procs /\ pc'[s] = "loop" /\ \A q \in Procs : q # s => pc'[q] = pc[q]
  BY DEF Procs, Known, TypeOK
<1>2. CASE TakeExpired(s)
  <2>1. OthersKeep(s)
    BY <1>1, <1>2 DEF OthersKeep, TakeExpired, Known, TypeOK
  <2> QED
    BY <1>1, <1>2, <2>1, TakesGiveUp
<1>3. CASE UNCHANGED <<queued, dead>>
  <2>1. \A y \in Tasks : Place(y)' = Place(y)
    BY <1>1, <1>3, SamePlace
  <2> QED
    BY <2>1, Quiet
<1> QED
  BY <1>2, <1>3 DEF AwaitRoom

\* The locked part of Submit.
LEMMA AdmitImplements ==
    ASSUME Known, Known', NEW s \in Submitters, Admit(s)
    PROVE  Promise!Next \/ UNCHANGED Promise!vars
<1> USE DEF Admit, answerVars, queueVars
<1>1. s \in Procs /\ s # Main /\ Main \in Procs /\ cur[s] \in Tasks
  BY PoolAssumption DEF Known, ControlOK, Procs, TypeOK
<1>2. Untouched
  <2>1. pc' = [pc EXCEPT ![s] = pc'[s]]
    BY <1>1 DEF AdmitClosed, AdmitRoom, AdmitDrop, AdmitTooLate, AdmitWait, Goto, Known, TypeOK
  <2>2. Main \in DOMAIN pc /\ closed' = closed
    BY <1>1 DEF Known, TypeOK
  <2> QED
    BY <1>1, <2>1, <2>2, Zenon DEF Untouched
<1>3. CASE AdmitClosed(s) \/ AdmitTooLate(s)
  BY <1>2, <1>3, SubmitterGivesUp DEF AdmitClosed, AdmitTooLate, Goto
<1>4. CASE AdmitRoom(s)
  <2>1. Enters(s)
    BY <1>1, <1>4 DEF AdmitRoom, Enqueue, Enters
  <2> QED
    BY <1>2, <1>4, <2>1, EnterLetsIn DEF AdmitRoom, Goto
<1>5. CASE AdmitWait(s)
  BY <1>2, <1>5, AwaitImplements DEF AdmitWait, Goto
<1>6. CASE AdmitDrop(s)
  <2>1. PICK x \in Tasks : x = cur[s]
    BY <1>1
  <2>2. pc'[s] = "limit" /\ \A q \in Procs : q # s => pc'[q] = pc[q]
    BY <1>1, <1>6 DEF AdmitDrop, Goto, Known, TypeOK
  <2>3. UNCHANGED <<queued, dead, cur, status>>
    BY <1>6 DEF AdmitDrop
  <2>4. Place(x) = "waiting" /\ Place(x)' = "refused"
    <3>1. Place(x) = SubmitterPlace(pc[s])
      BY <2>1 DEF Known, PlaceOK
    <3>2. Place(x)' = SubmitterPlace(pc'[s])
      BY <2>1, <2>3 DEF Known, PlaceOK
    <3> QED
      BY <2>2, <3>1, <3>2 DEF SubmitterPlace
  <2>5. ASSUME NEW y \in Tasks \ {x} PROVE Place(y)' = Place(y)
    BY <2>1, <2>2, <2>3, <2>5, SamePlace
  <2>6. Promise!Move({x}, "refused")
    BY <2>4, <2>5, OneMoves
  <2>7. Promise!Cardinality(Promise!At("queued")) >= Depth /\ Full = "drop"
    BY <1>6, RoomAgrees DEF AdmitDrop, IsFull
  <2>8. Promise!Refuse(x)
    BY <2>4, <2>6, <2>7 DEF Promise!Refuse
  <2>9. Promise!Step
    BY <1>2, <2>8 DEF Promise!Step, Untouched
  <2> QED
    BY <2>9 DEF Promise!Next
<1> QED
  BY <1>3, <1>4, <1>5, <1>6

\* The waiting loop of Submit.
LEMMA LoopImplements ==
    ASSUME Known, Known', NEW s \in Submitters, Loop(s)
    PROVE  Promise!Next \/ UNCHANGED Promise!vars
<1> USE DEF Loop, answerVars, queueVars
<1>1. s \in Procs /\ s # Main /\ Main \in Procs /\ cur[s] \in Tasks
  BY PoolAssumption DEF Known, ControlOK, Procs, TypeOK
<1>2. Untouched
  <2>1. pc' = [pc EXCEPT ![s] = pc'[s]]
    BY <1>1 DEF LoopAgain, LoopClosed, LoopRoom, LoopTimedOut, Goto, Known, TypeOK
  <2>2. Main \in DOMAIN pc /\ closed' = closed
    BY <1>1 DEF Known, TypeOK
  <2> QED
    BY <1>1, <2>1, <2>2, Zenon DEF Untouched
<1>3. CASE LoopClosed(s) \/ LoopTimedOut(s)
  BY <1>2, <1>3, SubmitterGivesUp DEF LoopClosed, LoopTimedOut, Goto
<1>4. CASE LoopRoom(s)
  <2>1. Enters(s)
    BY <1>1, <1>4 DEF LoopRoom, Enqueue, Enters
  <2> QED
    BY <1>2, <1>4, <2>1, EnterLetsIn DEF LoopRoom, Goto
<1>5. CASE LoopAgain(s)
  <2>1. pc' = [pc EXCEPT ![s] = "loop"]
    BY <1>5 DEF LoopAgain, Known, TypeOK
  <2> QED
    BY <1>2, <1>5, <2>1, AwaitImplements DEF LoopAgain
<1> QED
  BY <1>3, <1>4, <1>5

\* The ways a task is answered by the goroutine that has it in hand.
LEMMA HandAnswers ==
    ASSUME Known, Known', NEW p \in Procs, NEW why \in Reasons, NEW label, p # Main,
           cur[p] # NoTask, Answer(cur[p], why), cur' = [cur EXCEPT ![p] = NoTask],
           pc' = [pc EXCEPT ![p] = label], UNCHANGED <<queued, closed, dead>>,
           \/ p \in Workers /\ pc[p] = "run" /\ why = "evaluated"
           \/ p \in Workers /\ pc[p] # "run" /\ why = "deadline"
           \/ p \in Submitters /\ pc[p] = "limit" /\ why = "limit"
           \/ p \in Submitters /\ pc[p] = "expire" /\ why = "deadline"
    PROVE  Promise!Next
<1>1. PICK x \in Tasks : x = cur[p]
  BY DEF Known, TypeOK
<1>2. \A q \in Procs : q # p => cur'[q] = cur[q] /\ pc'[q] = pc[q]
  BY DEF Known, TypeOK
<1>3. Untouched
  BY <1>2 DEF Untouched, Procs
<1>4. \/ p \in Workers /\ Place(x) = WorkerPlace(pc[p])
      \/ p \in Submitters /\ Place(x) = SubmitterPlace(pc[p])
  BY <1>1 DEF Known, PlaceOK
<1>5. \/ Place(x) = "running" /\ why = "evaluated"
      \/ Place(x) = "refused" /\ why = "limit"
      \/ Place(x) \in {"late", "taken"} /\ why = "deadline"
  BY <1>4, PoolAssumption DEF WorkerPlace, SubmitterPlace
<1>6. status' = [status EXCEPT ![x] = why]
  BY <1>1 DEF Answer
<1>7. \A q \in Procs : cur[q] # x => cur'[q] = cur[q] /\ pc'[q] = pc[q]
  BY <1>1, <1>2
<1> QED
  BY <1>3, <1>5, <1>6, <1>7, AnswerMoves

\* Submit gives its task up, or sheds it.
LEMMA ShedImplements ==
    ASSUME Known, Known', NEW s \in Submitters, Expire(s) \/ ShedLimit(s)
    PROVE  Promise!Next
<1>1. s \in Procs /\ s # Main /\ cur[s] # NoTask
  BY PoolAssumption DEF Known, ControlOK, Procs, Expire, ShedLimit
<1> QED
  BY <1>1, HandAnswers DEF Expire, ShedLimit, Goto, Reasons, queueVars

\* A worker takes the oldest task that is in time, and what is overdue.
LEMMA PopImplements ==
    ASSUME Known, Known', NEW w \in Workers, Pop(w)
    PROVE  Promise!Next \/ UNCHANGED Promise!vars
<1> USE DEF Pop, answerVars
<1>1. w \in Procs /\ w # Main /\ Main \in Procs /\ cur[w] = NoTask /\ dead[w] = {}
  BY PoolAssumption DEF Known, ControlOK, Procs
<1>2. Untouched
  <2>1. pc' = [pc EXCEPT ![w] = pc'[w]]
    BY <1>1 DEF PopTask, PopClosed, PopDead, PopWait, Goto, Known, TypeOK
  <2>2. Main \in DOMAIN pc /\ closed' = closed
    BY <1>1 DEF Known, TypeOK
  <2> QED
    BY <1>1, <2>1, <2>2, Zenon DEF Untouched
<1>3. CASE PopClosed(w) \/ PopDead(w)
  <2>1. TakeExpired(w) /\ cur' = cur /\ status' = status
    BY <1>3 DEF PopClosed, PopDead
  <2>2. OthersKeep(w)
    BY <1>1, <1>3, <2>1 DEF OthersKeep, PopClosed, PopDead, TakeExpired, Goto, Known, TypeOK
  <2> QED
    BY <1>1, <1>2, <2>1, <2>2, TakesGiveUp
<1>4. CASE PopWait(w)
  <2>1. \A y \in Tasks : Place(y)' = Place(y)
    BY <1>4, SamePlace DEF PopWait
  <2> QED
    BY <1>2, <2>1, Quiet
<1>5. CASE PopTask(w)
  <2>1. PICK x \in Tasks : NextUp(x) /\ queued' = queued \ (Overdue \cup {x})
                           /\ cur' = [cur EXCEPT ![w] = x]
    BY <1>5 DEF PopTask
  <2>2. PICK K \in SUBSET Tasks : K = Overdue
    BY DEF Known, TypeOK, Overdue
  <2>3. x \in queued /\ x \notin K /\ K \subseteq queued /\ queued' = queued \ (K \cup {x})
    BY <2>1, <2>2 DEF NextUp, Overdue
  <2>4. /\ cur'[w] = x /\ pc'[w] = "start" /\ dead'[w] = K
        /\ \A q \in Procs : q # w => cur'[q] = cur[q] /\ pc'[q] = pc[q] /\ dead'[q] = dead[q]
    BY <1>1, <1>5, <2>1, <2>2 DEF PopTask, Goto, Known, TypeOK
  <2>5. PlaceOK /\ PlaceOK' /\ status' = status
    BY DEF Known
  <2> HIDE DEF Pop
  <2>6. Place(x) = "queued" /\ Place(x)' = "taken"
    <3>1. Place(x)' = WorkerPlace(pc'[w])
      BY <2>4, <2>5 DEF PlaceOK
    <3>2. Place(x) = "queued"
      BY <2>3, <2>5 DEF PlaceOK
    <3> QED
      BY <2>4, <3>1, <3>2 DEF WorkerPlace
  <2>7. ASSUME NEW y \in K PROVE Place(y)' = "late"
    BY <1>1, <2>4, <2>5, <2>7 DEF PlaceOK
  <2>8. ASSUME NEW y \in Tasks \ {x}, y \notin K PROVE Place(y)' = Place(y)
    <3>1. y \in queued => y \in queued'
      BY <2>3, <2>8
    <3>2. \A q \in Procs : y \in dead[q] => y \in dead'[q]
      BY <1>1, <2>4
    <3>3. \A q \in Procs : cur[q] = y => cur'[q] = y /\ pc'[q] = pc[q]
      BY <1>1, <2>4, PoolAssumption
    <3> QED
      BY <2>5, <3>1, <3>2, <3>3, SamePlace
  <2>9. [t \in Tasks |-> Place(t)]'
          = [u \in Tasks |-> IF u = x THEN "taken"
                             ELSE IF u \in K THEN "late" ELSE [t \in Tasks |-> Place(t)][u]]
    BY <2>6, <2>7, <2>8
  <2>10. K \subseteq Promise!At("queued") \ {x}
    BY <2>3, AtPlaces
  <2>11. Promise!Take(x, K)
    BY <2>6, <2>9, <2>10 DEF Promise!Take
  <2>12. Promise!Step
    BY <1>2, <2>11 DEF Promise!Step, Untouched
  <2> QED
    BY <2>12 DEF Promise!Next
<1> QED
  BY <1>3, <1>4, <1>5

\* The last check before the engine, and the end of an evaluation.
LEMMA RunImplements ==
    ASSUME Known, Known', NEW w \in Workers, Start(w) \/ Finish(w)
    PROVE  Promise!Next
<1>1. w \in Procs /\ w # Main /\ Main \in Procs /\ cur[w] # NoTask
  BY PoolAssumption DEF Known, ControlOK, Procs, Start, Finish
<1>2. CASE (Start(w) /\ StartTooLate(w)) \/ Finish(w)
  BY <1>1, <1>2, HandAnswers DEF Start, StartTooLate, Finish, Goto, Reasons, queueVars
<1>3. CASE Start(w) /\ StartEngine(w)
  <2>1. PICK x \in Tasks : x = cur[w]
    BY <1>1 DEF Known, TypeOK
  <2>2. pc[w] = "start" /\ pc'[w] = "run" /\ \A q \in Procs : q # w => pc'[q] = pc[q]
    BY <1>1, <1>3 DEF Start, StartEngine, Goto, Known, TypeOK
  <2>3. UNCHANGED <<queued, dead, cur, status, closed>>
    BY <1>3 DEF Start, StartEngine, answerVars, queueVars
  <2>4. Untouched
    BY <1>1, <2>2, <2>3 DEF Untouched
  <2>5. Place(x) = "taken" /\ Place(x)' = "running"
    <3>1. Place(x) = WorkerPlace(pc[w]) /\ Place(x)' = WorkerPlace(pc'[w])
      BY <2>1, <2>3 DEF Known, PlaceOK
    <3> QED
      BY <2>2, <3>1 DEF WorkerPlace
  <2>6. ASSUME NEW y \in Tasks \ {x} PROVE Place(y)' = Place(y)
    BY <2>1, <2>2, <2>3, <2>6, SamePlace
  <2>7. Promise!Move({x}, "running")
    BY <2>5, <2>6, OneMoves
  <2>8. Promise!Run(x)
    BY <2>5, <2>7 DEF Promise!Run
  <2>9. Promise!Step
    BY <2>4, <2>8 DEF Promise!Step, Untouched
  <2> QED
    BY <2>9 DEF Promise!Next
<1> QED
  BY <1>2, <1>3 DEF Start

\* An overdue task is answered outside the lock.
LEMMA ReplyImplements ==
    ASSUME Known, Known', NEW p \in Procs, ReplyDead(p)
    PROVE  Promise!Next
<1>1. PICK x \in dead[p] : dead' = [dead EXCEPT ![p] = @ \ {x}] /\ Answer(x, "deadline")
  BY DEF ReplyDead
<1>2. x \in Tasks /\ Place(x) = "late"
  BY DEF Known, TypeOK, PlaceOK
<1>3. \A q \in Procs : dead[q] \ {x} \subseteq dead'[q]
  BY <1>1 DEF Known, TypeOK
<1>4. status' = [status EXCEPT ![x] = "deadline"]
  BY <1>1 DEF Answer
<1>5. Untouched /\ queued' = queued /\ cur' = cur /\ pc' = pc
  BY DEF ReplyDead, Untouched, queueVars
<1> QED
  BY <1>2, <1>3, <1>4, <1>5, AnswerMoves DEF Reasons

\* Every step of Pool is a step of Answering, or none.
LEMMA StepImplements ==
    ASSUME Known, Known', [Next]_vars
    PROVE  Promise!Next \/ UNCHANGED Promise!vars
<1>0. Main \in Procs /\ Sweeper \in Procs /\ Main # Sweeper /\ \A w \in Workers : w # Main /\ w \in Procs
  BY PoolAssumption DEF Procs
<1>1. ASSUME NEW s \in Submitters, Collect(s) PROVE Promise!Next \/ UNCHANGED Promise!vars
  <2>1. s \in Procs /\ s # Main /\ dead[s] = {}
    BY <1>1, PoolAssumption DEF Known, ControlOK, Procs, Collect
  <2>2. /\ pc[s] = "collect" /\ pc'[s] = "admit" /\ OthersKeep(s) /\ TakeExpired(s)
        /\ cur' = cur /\ status' = status /\ closed' = closed
    BY <1>1, <2>1 DEF Collect, OthersKeep, TakeExpired, Goto, answerVars, Known, TypeOK
  <2>3. Untouched
    BY <1>0, <2>1, <2>2 DEF Untouched, OthersKeep
  <2> QED
    BY <1>1, <2>1, <2>2, <2>3, TakesGiveUp
<1>2. CASE Sweep
  <2>1. OthersKeep(Sweeper) /\ Untouched /\ cur' = cur /\ status' = status /\ pc' = pc
    BY <1>2 DEF Sweep, OthersKeep, TakeExpired, Untouched, answerVars, Known, TypeOK
  <2> QED
    BY <1>0, <1>2, <2>1, TakesGiveUp DEF Sweep
<1>3. ASSUME NEW w \in Workers, Leave(w) PROVE UNCHANGED Promise!vars
  <2>1. cur[w] = NoTask /\ UNCHANGED <<queued, dead, cur, status>>
    BY <1>3 DEF Leave, answerVars, queueVars, Known, ControlOK
  <2>2. Untouched /\ \A q \in Procs : q # w => pc'[q] = pc[q]
    BY <1>0, <1>3 DEF Leave, Goto, Untouched, Known, TypeOK
  <2>3. \A y \in Tasks : Place(y)' = Place(y)
    BY <2>1, <2>2, SamePlace, PoolAssumption
  <2> QED
    BY <2>2, <2>3, Quiet
<1>4. CASE SweepExit \/ CloseStop
  <2>1. cur[Main] = NoTask /\ cur[Sweeper] = NoTask /\ UNCHANGED <<queued, dead, cur, status>>
    BY <1>4 DEF SweepExit, CloseStop, answerVars, queueVars, Known, ControlOK
  <2>2. Untouched \/ (closed' = closed /\ pc[Main] = "serving" /\ pc'[Main] = "closing")
    BY <1>0, <1>4 DEF SweepExit, CloseStop, Goto, Untouched, Known, TypeOK
  <2>3. \A q \in Procs : q \notin {Main, Sweeper} => pc'[q] = pc[q]
    BY <1>4 DEF SweepExit, CloseStop, Goto, Known, TypeOK
  <2>4. \A y \in Tasks : Place(y)' = Place(y)
    BY <2>1, <2>3, SamePlace, PoolAssumption
  <2> QED
    BY <2>2, <2>4 DEF Untouched, Promise!vars
<1>5. CASE CloseFlag \/ CloseReturn
  <2>1. cur[Main] = NoTask /\ UNCHANGED <<queued, dead, cur, status>>
    BY <1>5 DEF CloseFlag, CloseReturn, answerVars, queueVars, Known, ControlOK
  <2>2. \A q \in Procs : q # Main => pc'[q] = pc[q]
    BY <1>5 DEF CloseFlag, CloseReturn, Goto, Known, TypeOK
  <2>3. \A y \in Tasks : Place(y)' = Place(y)
    BY <2>1, <2>2, SamePlace, PoolAssumption
  <2>4. CASE CloseFlag
    <3>1. closed' = TRUE /\ ~closed /\ pc[Main] = "closing" /\ pc'[Main] = "waiting"
      BY <1>0, <2>4 DEF CloseFlag, Goto, Known, ControlOK, TypeOK
    <3>2. Promise!Close
      BY <2>3, <3>1 DEF Promise!Close
    <3> QED
      BY <3>2 DEF Promise!Next
  <2>5. CASE CloseReturn
    <3>1. closed /\ closed' = closed /\ pc'[Main] = "closed"
      BY <1>0, <2>5 DEF CloseReturn, Goto, Known, ControlOK, TypeOK
    <3>2. \A w \in Workers : pc[w] = "exit" /\ cur[w] = NoTask
      BY <2>5 DEF CloseReturn, Known, ControlOK
    <3>3. queued = {}
      BY <3>2, PoolAssumption DEF Known, WakeProtocol, ClosedDrains
    <3>4. Promise!At("queued") = {} /\ Promise!At("taken") = {} /\ Promise!At("running") = {}
      <4>1. \A t \in Promise!At("taken") \cup Promise!At("running") : t \in Tasks
        BY DEF Promise!At
      <4> QED
        BY <3>2, <3>3, <4>1, AtPlaces, PoolAssumption
    <3>5. Promise!Leave
      BY <2>3, <3>1, <3>4 DEF Promise!Leave
    <3> QED
      BY <3>5 DEF Promise!Next
  <2> QED
    BY <1>5, <2>4, <2>5
<1>6. CASE Tick \/ UNCHANGED vars \/ \E t \in Tasks : TimerDue(t) \/ TimerFire(t)
  <2>1. UNCHANGED <<queued, dead, cur, status, pc, closed>>
    BY <1>6 DEF Tick, TimerDue, TimerFire, vars, answerVars, queueVars
  <2>2. \A y \in Tasks : Place(y)' = Place(y)
    BY <2>1, SamePlace
  <2> QED
    BY <2>1, <2>2, Quiet DEF Untouched
<1> QED
  BY <1>1, <1>2, <1>3, <1>4, <1>5, <1>6, SubmitImplements, AdmitImplements, LoopImplements,
     ShedImplements, PopImplements, RunImplements, ReplyImplements
     DEF Next, SubmitterStep, WorkerStep

\* The pool with its mutex, condition variable, timers, sweeper and Close does
\* what Answering allows and nothing else: every message is let in while there is
\* room or refused, goes to the engine or is given up, and is answered once; and
\* a pool that is shut down has nothing left to evaluate.
THEOREM PoolImplementsAnswering == Spec => KeepsPromise
<1>1. Init => Promise!Init
  <2> SUFFICES ASSUME Init PROVE Promise!Init
    OBVIOUS
  <2>1. \A t \in Tasks : Place(t) = "new"
    BY DEF Init, Place
  <2>2. ~closed /\ pc[Main] = "serving"
    BY PoolAssumption DEF Init, Procs
  <2> QED
    BY <2>1, <2>2 DEF Promise!Init
<1>2. TypeOK /\ ControlOK /\ TaskOwned /\ WakeProtocol => Known
  BY PlaceDetermined DEF Known
<1>3. Spec => []Known
  BY <1>2, TypeCorrect, OneAnswer, NoWakeupLost, PTL
<1>4. Known /\ Known' /\ [Next]_vars => [Promise!Next]_(Promise!vars)
  BY StepImplements
<1> QED
  BY <1>1, <1>3, <1>4, PTL DEF Spec, KeepsPromise, Promise!Spec
=============================================================================
