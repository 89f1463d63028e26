-------------------------------- MODULE Pool --------------------------------
(***************************************************************************)
(* The local work queue of the inspector (internal/queue/queue.go): a      *)
(* bounded FIFO of tasks behind one mutex and one condition variable,      *)
(* drained by worker goroutines, cleaned of expired tasks by a sweeper and *)
(* by whoever takes the lock, and filled by the goroutines that deliver    *)
(* bus messages (one Submit at a time per subscription).                   *)
(*                                                                         *)
(* Every section the code runs under p.mu is one atomic step; replies to   *)
(* expired tasks are given after the unlock, so the tasks a goroutine has  *)
(* taken out of the queue and not answered yet are its own state (dead).   *)
(* The queue is the set of queued tasks; a task's position in it is its    *)
(* ticket, the value Pool.Accepted had when the task was appended.         *)
(***************************************************************************)
EXTENDS Integers, FiniteSets

CONSTANTS
    Tasks,        \* the messages that reach Submit
    Submitters,   \* goroutines that call Submit (bus subscriptions)
    Workers,      \* goroutines in work()
    Sweeper,      \* the goroutine in sweep()
    Main,         \* the goroutine that calls Close
    NoTask,       \* a nil *Task
    Depth,        \* Pool.depth
    Full,         \* Pool.full: "drop" or "wait"
    Deadlines,    \* the values of Request.DeadlineMS
    Reserve,      \* Pool.reserve
    MinBudget     \* Pool.minBudget

Procs == Submitters \cup Workers \cup {Sweeper, Main}

ASSUME PoolAssumption ==
    /\ IsFiniteSet(Tasks)
    /\ IsFiniteSet(Workers)
    /\ NoTask \notin Tasks
    /\ Submitters \cap Workers = {}
    /\ Sweeper \notin Submitters \cup Workers
    /\ Main \notin Submitters \cup Workers \cup {Sweeper}
    /\ Workers # {}
    /\ Depth \in Nat \ {0}
    /\ Full \in {"drop", "wait"}
    /\ Deadlines \subseteq Int
    /\ Reserve \in Nat
    /\ MinBudget \in Nat

VARIABLES
    queued,     \* Pool.q, as a set
    ticket,     \* a task's position in arrival order, 0 if never accepted
    accepted,   \* Pool.Accepted
    shed,       \* Pool.Shed
    expired,    \* Pool.Expired
    fill,       \* Task.Fill, percent
    left,       \* what waitLeft(t) returns now, while t is in flight
    timer,      \* the AfterFunc timer of a waiting Submit
    timedOut,   \* the flag its callback sets
    waiters,    \* goroutines parked in p.cond.Wait
    stopped,    \* Pool.stop is closed
    closed,     \* Pool.closed
    pc,         \* where each goroutine is
    cur,        \* the task a goroutine works on
    dead,       \* expired tasks a goroutine took and has not answered yet
    status,     \* how the handler was last called for a task
    calls       \* how many times the handler was called for a task

queueVars == <<queued, ticket, accepted, waiters>>
timerVars == <<timer, timedOut>>
answerVars == <<status, calls, shed, expired>>
vars == <<queued, ticket, accepted, shed, expired, fill, left, timer, timedOut,
          waiters, stopped, closed, pc, cur, dead, status, calls>>

Init ==
    /\ queued = {}
    /\ ticket = [t \in Tasks |-> 0]
    /\ accepted = 0
    /\ shed = 0
    /\ expired = 0
    /\ fill = [t \in Tasks |-> 0]
    /\ left = [t \in Tasks |-> 0]
    /\ timer = [t \in Tasks |-> "off"]
    /\ timedOut = [t \in Tasks |-> FALSE]
    /\ waiters = {}
    /\ stopped = FALSE
    /\ closed = FALSE
    /\ pc = [p \in Procs |-> IF p \in Workers THEN "pop"
                             ELSE IF p = Main THEN "serving" ELSE "idle"]
    /\ cur = [p \in Procs |-> NoTask]
    /\ dead = [p \in Procs |-> {}]
    /\ status = [t \in Tasks |-> "new"]
    /\ calls = [t \in Tasks |-> 0]

-----------------------------------------------------------------------------
(* Helpers.                                                                *)

IsFull == Cardinality(queued) >= Depth

\* leftAt(t, now) < minBudget
TooLate(t) == left[t] < MinBudget

\* What takeExpiredLocked moves out of the queue.
Overdue == {t \in queued : TooLate(t)}

\* Mutant of FillNow: counts the task that is being submitted.
FillWithSelf == ((Cardinality(queued) + 1) * 100) \div Depth

\* fillLocked
FillNow == IF IsFull THEN 100 ELSE (Cardinality(queued) * 100) \div Depth

\* Mutant of TakeExpired: nobody owns the overdue tasks.
TakeExpiredForgets(p) ==
    /\ queued' = queued \ Overdue
    /\ waiters' = IF Overdue = {} THEN waiters ELSE {}
    /\ UNCHANGED dead

\* takeExpiredLocked, called by p: p owns the overdue tasks, and everybody
\* parked on the condition variable is woken if there were any.
TakeExpired(p) ==
    /\ queued' = queued \ Overdue
    /\ dead' = [dead EXCEPT ![p] = Overdue]
    /\ waiters' = IF Overdue = {} THEN waiters ELSE {}

\* cond.Signal: one parked goroutine, whichever it is.
Signal ==
    IF waiters = {} THEN waiters' = waiters
                    ELSE \E p \in waiters : waiters' = waiters \ {p}

\* enqueueLocked
Enqueue(t) ==
    /\ queued' = queued \cup {t}
    /\ accepted' = accepted + 1
    /\ ticket' = [ticket EXCEPT ![t] = accepted + 1]
    /\ Signal

Goto(p, label) == pc' = [pc EXCEPT ![p] = label]

\* The handler is called for t; why is "evaluated", or the shed reason. Nobody
\* looks at the clock of t after that.
Answer(t, why) ==
    /\ status' = [status EXCEPT ![t] = why]
    /\ calls' = [calls EXCEPT ![t] = @ + 1]
    /\ left' = [left EXCEPT ![t] = 0]

\* timer.Stop: a callback that has already started is not stopped.
StopTimer(t) ==
    timer' = [timer EXCEPT ![t] = IF @ = "armed" THEN "off" ELSE @]

-----------------------------------------------------------------------------
(* Submit, run by a subscription's goroutine.                              *)

\* Entry: the clock of the task starts here; a task that cannot make it is
\* expired without touching the queue.
Submit(s, t, deadline) ==
    /\ pc[s] = "idle"
    /\ status[t] = "new"
    /\ status' = [status EXCEPT ![t] = "pending"]
    /\ left' = [left EXCEPT ![t] = deadline - Reserve]
    /\ cur' = [cur EXCEPT ![s] = t]
    /\ Goto(s, IF deadline - Reserve < MinBudget THEN "expire" ELSE "collect")
    /\ UNCHANGED <<queueVars, timerVars, shed, expired, fill, stopped, closed,
                   dead, calls>>

\* p.collectExpired()
Collect(s) ==
    /\ pc[s] = "collect"
    /\ TakeExpired(s)
    /\ Goto(s, "admit")
    /\ UNCHANGED <<ticket, accepted, answerVars, fill, left, timerVars,
                   stopped, closed, cur>>

\* p.replyDead: one expired task at a time, outside the lock.
ReplyDead(p) ==
    /\ \E t \in dead[p] :
        /\ dead' = [dead EXCEPT ![p] = @ \ {t}]
        /\ Answer(t, "deadline")
    /\ expired' = expired + 1
    /\ UNCHANGED <<queueVars, timerVars, shed, fill, stopped, closed, pc, cur>>

\* The locked part of Submit, entered when the expired tasks are answered.
AdmitClosed(s) ==
    /\ closed
    /\ Goto(s, "expire")
    /\ UNCHANGED <<queueVars, timerVars, fill, cur, dead>>

\* Mutant of AdmitRoom: the fill is read after the task went in.
AdmitRoomLateFill(s) ==
    /\ ~closed /\ ~IsFull
    /\ fill' = [fill EXCEPT ![cur[s]] = ((Cardinality(queued) + 1) * 100) \div Depth]
    /\ Enqueue(cur[s])
    /\ cur' = [cur EXCEPT ![s] = NoTask]
    /\ Goto(s, "idle")
    /\ UNCHANGED <<timerVars, dead>>

AdmitRoom(s) ==
    /\ ~closed /\ ~IsFull
    /\ fill' = [fill EXCEPT ![cur[s]] = FillNow]
    /\ Enqueue(cur[s])
    /\ cur' = [cur EXCEPT ![s] = NoTask]
    /\ Goto(s, "idle")
    /\ UNCHANGED <<timerVars, dead>>

\* Mutant of AdmitDrop: the last place is never given away.
AdmitDropEarly(s) ==
    /\ ~closed /\ Cardinality(queued) >= Depth - 1 /\ Full = "drop"
    /\ fill' = [fill EXCEPT ![cur[s]] = FillNow]
    /\ Goto(s, "limit")
    /\ UNCHANGED <<queueVars, timerVars, cur, dead>>

AdmitDrop(s) ==
    /\ ~closed /\ IsFull /\ Full = "drop"
    /\ fill' = [fill EXCEPT ![cur[s]] = FillNow]
    /\ Goto(s, "limit")
    /\ UNCHANGED <<queueVars, timerVars, cur, dead>>

\* submitWaitLocked refuses a task whose time ran out since the entry check.
AdmitTooLate(s) ==
    /\ ~closed /\ IsFull /\ Full = "wait" /\ TooLate(cur[s])
    /\ fill' = [fill EXCEPT ![cur[s]] = FillNow]
    /\ Goto(s, "expire")
    /\ UNCHANGED <<queueVars, timerVars, cur, dead>>

\* The body of the waiting loop: take the expired tasks and go round again
\* after answering them, or park.
AwaitRoom(s) ==
    \/ /\ Overdue # {}
       /\ TakeExpired(s)
    \/ /\ Overdue = {}
       /\ waiters' = waiters \cup {s}
       /\ UNCHANGED <<queued, dead>>

AdmitWait(s) ==
    /\ ~closed /\ IsFull /\ Full = "wait" /\ ~TooLate(cur[s])
    /\ fill' = [fill EXCEPT ![cur[s]] = FillNow]
    /\ timer' = [timer EXCEPT ![cur[s]] = "armed"]
    /\ AwaitRoom(s)
    /\ Goto(s, "loop")
    /\ UNCHANGED <<ticket, accepted, timedOut, cur>>

Admit(s) ==
    /\ pc[s] = "admit"
    /\ dead[s] = {}
    /\ \/ AdmitClosed(s)
       \/ AdmitRoom(s)
       \/ AdmitDrop(s)
       \/ AdmitTooLate(s)
       \/ AdmitWait(s)
    /\ UNCHANGED <<answerVars, left, stopped, closed>>

\* A waiting Submit that is awake again re-checks the loop condition.
LoopAgain(s) ==
    /\ IsFull /\ ~timedOut[cur[s]] /\ ~closed
    /\ AwaitRoom(s)
    /\ UNCHANGED <<ticket, accepted, timer, pc, cur>>

LoopClosed(s) ==
    /\ closed
    /\ StopTimer(cur[s])
    /\ Goto(s, "expire")
    /\ UNCHANGED <<queueVars, cur, dead>>

LoopRoom(s) ==
    /\ ~closed /\ ~IsFull
    /\ StopTimer(cur[s])
    /\ Enqueue(cur[s])
    /\ cur' = [cur EXCEPT ![s] = NoTask]
    /\ Goto(s, "idle")
    /\ UNCHANGED dead

LoopTimedOut(s) ==
    /\ ~closed /\ IsFull /\ timedOut[cur[s]]
    /\ StopTimer(cur[s])
    /\ Goto(s, "expire")
    /\ UNCHANGED <<queueVars, cur, dead>>

Loop(s) ==
    /\ pc[s] = "loop"
    /\ s \notin waiters
    /\ dead[s] = {}
    /\ \/ LoopAgain(s)
       \/ LoopClosed(s)
       \/ LoopRoom(s)
       \/ LoopTimedOut(s)
    /\ UNCHANGED <<answerVars, fill, left, timedOut, stopped, closed>>

\* p.expire(t, _) by the goroutine that could not submit t.
Expire(s) ==
    /\ pc[s] = "expire"
    /\ Answer(cur[s], "deadline")
    /\ expired' = expired + 1
    /\ cur' = [cur EXCEPT ![s] = NoTask]
    /\ Goto(s, "idle")
    /\ UNCHANGED <<queueVars, timerVars, shed, fill, stopped, closed, dead>>

\* p.shedLimit(t)
ShedLimit(s) ==
    /\ pc[s] = "limit"
    /\ Answer(cur[s], "limit")
    /\ shed' = shed + 1
    /\ cur' = [cur EXCEPT ![s] = NoTask]
    /\ Goto(s, "idle")
    /\ UNCHANGED <<queueVars, timerVars, expired, fill, stopped, closed, dead>>

-----------------------------------------------------------------------------
(* Workers: work() and pop().                                              *)

\* Mutant of NextUp: the newest task goes first.
NewestUp(t) ==
    t \in queued \ Overdue /\ \A u \in queued \ Overdue : ticket[t] >= ticket[u]

\* The oldest task that is still in time.
NextUp(t) ==
    t \in queued \ Overdue /\ \A u \in queued \ Overdue : ticket[t] <= ticket[u]

\* Mutant of PopTask: one goroutine is woken instead of all.
PopTaskSignals(w) ==
    /\ \E t \in Tasks :
        /\ NextUp(t)
        /\ queued' = queued \ (Overdue \cup {t})
        /\ cur' = [cur EXCEPT ![w] = t]
    /\ dead' = [dead EXCEPT ![w] = Overdue]
    /\ Signal
    /\ Goto(w, "start")

\* The worker takes it, and the overdue ones before and behind it.
PopTask(w) ==
    /\ \E t \in Tasks :
        /\ NextUp(t)
        /\ queued' = queued \ (Overdue \cup {t})
        /\ cur' = [cur EXCEPT ![w] = t]
    /\ dead' = [dead EXCEPT ![w] = Overdue]
    /\ waiters' = {}
    /\ Goto(w, "start")

\* Mutant of PopClosed: a closed pool is left with tasks still in it.
PopClosedEarly(w) ==
    /\ closed
    /\ TakeExpired(w)
    /\ Goto(w, "leave")
    /\ UNCHANGED cur

PopClosed(w) ==
    /\ queued = Overdue /\ closed
    /\ TakeExpired(w)
    /\ Goto(w, "leave")
    /\ UNCHANGED cur

PopDead(w) ==
    /\ queued = Overdue /\ ~closed /\ Overdue # {}
    /\ TakeExpired(w)
    /\ UNCHANGED <<pc, cur>>

PopWait(w) ==
    /\ queued = {} /\ ~closed
    /\ waiters' = waiters \cup {w}
    /\ UNCHANGED <<queued, pc, cur, dead>>

Pop(w) ==
    /\ pc[w] = "pop"
    /\ w \notin waiters
    /\ dead[w] = {}
    /\ \/ PopTask(w)
       \/ PopClosed(w)
       \/ PopDead(w)
       \/ PopWait(w)
    /\ UNCHANGED <<ticket, accepted, answerVars, fill, left, timerVars,
                   stopped, closed>>

\* budget(t): the last check before the engine. The popped task is looked at
\* only after the expired ones it was popped with have been answered.
StartEngine(w) ==
    /\ ~TooLate(cur[w])
    /\ Goto(w, "run")
    /\ UNCHANGED <<answerVars, left, cur>>

\* Mutant of StartTooLate: the task is not counted as expired.
StartTooLateUncounted(w) ==
    /\ TooLate(cur[w])
    /\ Answer(cur[w], "deadline")
    /\ cur' = [cur EXCEPT ![w] = NoTask]
    /\ Goto(w, "pop")
    /\ UNCHANGED <<shed, expired>>

StartTooLate(w) ==
    /\ TooLate(cur[w])
    /\ Answer(cur[w], "deadline")
    /\ expired' = expired + 1
    /\ cur' = [cur EXCEPT ![w] = NoTask]
    /\ Goto(w, "pop")
    /\ UNCHANGED shed

Start(w) ==
    /\ pc[w] = "start"
    /\ dead[w] = {}
    /\ \/ StartEngine(w)
       \/ StartTooLate(w)
    /\ UNCHANGED <<queueVars, timerVars, fill, stopped, closed, dead>>

\* The handler returns.
Finish(w) ==
    /\ pc[w] = "run"
    /\ Answer(cur[w], "evaluated")
    /\ cur' = [cur EXCEPT ![w] = NoTask]
    /\ Goto(w, "pop")
    /\ UNCHANGED <<queueVars, timerVars, shed, expired, fill, stopped, closed,
                   dead>>

Leave(w) ==
    /\ pc[w] = "leave"
    /\ dead[w] = {}
    /\ Goto(w, "exit")
    /\ UNCHANGED <<queueVars, timerVars, answerVars, fill, left, stopped,
                   closed, cur, dead>>

-----------------------------------------------------------------------------
(* sweep(), the timer callbacks, Close() and the passage of time.          *)

\* Mutant of Sweep: wakes up and takes nothing.
SweepNothing ==
    /\ pc[Sweeper] = "idle"
    /\ dead[Sweeper] = {}
    /\ UNCHANGED vars

Sweep ==
    /\ pc[Sweeper] = "idle"
    /\ dead[Sweeper] = {}
    /\ TakeExpired(Sweeper)
    /\ UNCHANGED <<ticket, accepted, answerVars, fill, left, timerVars,
                   stopped, closed, pc, cur>>

SweepExit ==
    /\ pc[Sweeper] = "idle"
    /\ dead[Sweeper] = {}
    /\ stopped
    /\ Goto(Sweeper, "exit")
    /\ UNCHANGED <<queueVars, timerVars, answerVars, fill, left, stopped,
                   closed, cur, dead>>

\* The timer goes off: its callback starts, and from here on Stop is too late.
TimerDue(t) ==
    /\ timer[t] = "armed"
    /\ left[t] <= 0
    /\ timer' = [timer EXCEPT ![t] = "firing"]
    /\ UNCHANGED <<queueVars, timedOut, answerVars, fill, left, stopped,
                   closed, pc, cur, dead>>

\* Mutant of TimerFire: sets the flag and wakes nobody.
TimerFireSilent(t) ==
    /\ timer[t] = "firing"
    /\ timer' = [timer EXCEPT ![t] = "off"]
    /\ timedOut' = [timedOut EXCEPT ![t] = TRUE]
    /\ UNCHANGED <<queueVars, answerVars, fill, left, stopped, closed, pc, cur, dead>>

\* The callback gets the lock.
TimerFire(t) ==
    /\ timer[t] = "firing"
    /\ timer' = [timer EXCEPT ![t] = "off"]
    /\ timedOut' = [timedOut EXCEPT ![t] = TRUE]
    /\ waiters' = {}
    /\ UNCHANGED <<queued, ticket, accepted, answerVars, fill, left, stopped,
                   closed, pc, cur, dead>>

\* Close(): the stop channel first, then the flag under the lock, then Wait.
CloseStop ==
    /\ pc[Main] = "serving"
    /\ stopped' = TRUE
    /\ Goto(Main, "closing")
    /\ UNCHANGED <<queueVars, timerVars, answerVars, fill, left, closed, cur,
                   dead>>

\* Mutant of CloseFlag: nobody is woken.
CloseFlagSilent ==
    /\ pc[Main] = "closing"
    /\ closed' = TRUE
    /\ Goto(Main, "waiting")
    /\ UNCHANGED <<queueVars, timerVars, answerVars, fill, left, stopped, cur, dead>>

CloseFlag ==
    /\ pc[Main] = "closing"
    /\ closed' = TRUE
    /\ waiters' = {}
    /\ Goto(Main, "waiting")
    /\ UNCHANGED <<queued, ticket, accepted, timerVars, answerVars, fill, left,
                   stopped, cur, dead>>

\* Mutant of CloseReturn: does not wait for the sweeper.
CloseReturnEarly ==
    /\ pc[Main] = "waiting"
    /\ \A p \in Workers : pc[p] = "exit"
    /\ Goto(Main, "closed")
    /\ UNCHANGED <<queueVars, timerVars, answerVars, fill, left, stopped,
                   closed, cur, dead>>

CloseReturn ==
    /\ pc[Main] = "waiting"
    /\ \A p \in Workers \cup {Sweeper} : pc[p] = "exit"
    /\ Goto(Main, "closed")
    /\ UNCHANGED <<queueVars, timerVars, answerVars, fill, left, stopped,
                   closed, cur, dead>>

\* One unit of time for every task in flight. Nothing tells two values below
\* zero apart, so the countdown stops there.
Tick ==
    /\ left' = [t \in Tasks |-> IF status[t] = "pending" /\ left[t] >= 0
                                THEN left[t] - 1 ELSE left[t]]
    /\ left' # left
    /\ UNCHANGED <<queueVars, timerVars, answerVars, fill, stopped, closed, pc,
                   cur, dead>>

SubmitterStep(s) == Collect(s) \/ Admit(s) \/ Loop(s) \/ Expire(s) \/ ShedLimit(s)
WorkerStep(w) == Pop(w) \/ Start(w) \/ Finish(w) \/ Leave(w)

Next ==
    \/ \E s \in Submitters, t \in Tasks, d \in Deadlines : Submit(s, t, d)
    \/ \E s \in Submitters : SubmitterStep(s)
    \/ \E w \in Workers : WorkerStep(w)
    \/ \E p \in Procs : ReplyDead(p)
    \/ Sweep
    \/ SweepExit
    \/ \E t \in Tasks : TimerDue(t) \/ TimerFire(t)
    \/ CloseStop
    \/ CloseFlag
    \/ CloseReturn
    \/ Tick

Spec == Init /\ [][Next]_vars

(***************************************************************************)
(* Fairness. Go schedules every runnable goroutine and its mutexes and     *)
(* tickers do not starve anybody, time passes, and nothing obliges anybody *)
(* to call Submit or CloseStop. How long a handler takes is another        *)
(* matter: workers may hang in the rule engine, and they and the sweeper   *)
(* may hang where they publish a reply.                                    *)
(***************************************************************************)
\* Only what a Submit itself relies on: its goroutine, its timer and time.
Submitting ==
    /\ \A s \in Submitters : WF_vars(SubmitterStep(s)) /\ WF_vars(ReplyDead(s))
    /\ \A t \in Tasks : WF_vars(TimerDue(t)) /\ WF_vars(TimerFire(t))
    /\ WF_vars(Tick)

\* Everybody else but the engine.
Scheduling ==
    /\ \A w \in Workers : WF_vars(Pop(w) \/ Start(w) \/ Leave(w))
    /\ \A p \in Procs : WF_vars(ReplyDead(p))
    /\ WF_vars(Sweep)
    /\ WF_vars(SweepExit)
    /\ WF_vars(CloseFlag \/ CloseReturn)

\* The engine returns.
Evaluating == \A w \in Workers : WF_vars(Finish(w))

\* Workers and sweeper may hang for ever.
SubmitSpec == Spec /\ Submitting

\* The engine may hang in any evaluation, for ever.
HungEngineSpec == Spec /\ Submitting /\ Scheduling

-----------------------------------------------------------------------------
(* Properties.                                                             *)

Reasons == {"deadline", "limit", "evaluated"}

\* The tasks goroutine p has taken and must still answer or enqueue.
Held(p) == dead[p] \cup ({cur[p]} \ {NoTask})

SubmitterLabels == {"idle", "collect", "admit", "loop", "expire", "limit"}
WorkerLabels == {"pop", "start", "run", "leave", "exit"}
MainLabels == {"serving", "closing", "waiting", "closed"}

TypeOK ==
    /\ queued \subseteq Tasks
    /\ ticket \in [Tasks -> Nat]
    /\ accepted \in Nat /\ shed \in Nat /\ expired \in Nat
    /\ fill \in [Tasks -> 0..100]
    /\ left \in [Tasks -> Int]
    /\ timer \in [Tasks -> {"off", "armed", "firing"}]
    /\ timedOut \in [Tasks -> BOOLEAN]
    /\ waiters \subseteq Submitters \cup Workers
    /\ stopped \in BOOLEAN
    /\ closed \in BOOLEAN
    /\ pc \in [Procs -> SubmitterLabels \cup WorkerLabels \cup MainLabels]
    /\ cur \in [Procs -> Tasks \cup {NoTask}]
    /\ dead \in [Procs -> SUBSET Tasks]
    /\ status \in [Tasks -> {"new", "pending"} \cup Reasons]
    /\ calls \in [Tasks -> Nat]

\* What each label means: who has a task in hand at which place, who may be
\* parked where, and how far Close has come.
ControlOK ==
    /\ \A s \in Submitters :
        /\ pc[s] \in SubmitterLabels
        /\ cur[s] = NoTask <=> pc[s] = "idle"
        /\ dead[s] # {} => pc[s] \in {"admit", "loop"}
        /\ s \in waiters => pc[s] = "loop" /\ dead[s] = {}
    /\ \A w \in Workers :
        /\ pc[w] \in WorkerLabels
        /\ cur[w] # NoTask <=> pc[w] \in {"start", "run"}
        /\ dead[w] # {} => pc[w] \in {"pop", "start", "leave"}
        /\ w \in waiters => pc[w] = "pop" /\ dead[w] = {}
    /\ pc[Sweeper] \in {"idle", "exit"}
    /\ cur[Sweeper] = NoTask
    /\ dead[Sweeper] # {} => pc[Sweeper] = "idle"
    /\ pc[Main] \in MainLabels
    /\ cur[Main] = NoTask
    /\ dead[Main] = {}
    /\ closed <=> pc[Main] \in {"waiting", "closed"}
    /\ pc[Main] = "closed" => \A p \in Workers \cup {Sweeper} : pc[p] = "exit"

\* The queue never outgrows its depth, whatever mix of entering and woken
\* submitters races for the last place.
QueueBounded == Cardinality(queued) <= Depth

\* A task has one owner at a time: it is in the queue, or in the hands of one
\* goroutine, although expired tasks are collected by everybody and answered
\* outside the lock.
OneOwner ==
    /\ \A p \in Procs : Held(p) \cap queued = {}
    /\ \A p \in Procs : cur[p] \notin dead[p]
    /\ \A p, q \in Procs : p # q => Held(p) \cap Held(q) = {}

\* The handler is called at most once for a task, and as long as it has not
\* been called the task is in the queue or in somebody's hands: no message is
\* answered twice and none is forgotten.
AnsweredOnce ==
    \A t \in Tasks :
        /\ calls[t] = IF status[t] \in Reasons THEN 1 ELSE 0
        /\ status[t] = "pending" <=>
              t \in queued \/ \E p \in Procs : t \in Held(p)

\* No message is answered twice and none is forgotten, whoever collects it and
\* whenever the pool is closed.
TaskOwned == OneOwner /\ AnsweredOnce

\* Submitters are parked only while the queue is full: whatever makes room
\* wakes them, and the one Signal of enqueueLocked never goes to a submitter.
ParkedMeansFull == waiters \cap Submitters # {} => IsFull

\* The workers that are on their way to the head of the queue.
Awake == {w \in Workers \ waiters : pc[w] = "pop"}

\* No worker is parked while a queued task has no awake worker of its own on
\* the way to pop: one Signal per enqueue is enough.
NoLostWakeup ==
    waiters \cap Workers # {} => Cardinality(queued) <= Cardinality(Awake)

\* Nobody parks, and nothing is enqueued, once the pool is closed: a worker
\* leaves only a closed and empty pool, so nothing is queued behind it.
ClosedDrains ==
    /\ closed => waiters = {}
    /\ \A w \in Workers : pc[w] \in {"leave", "exit"} => closed /\ queued = {}

\* The protocol of the mutex and its one condition variable: the queue keeps its
\* bound, no wake-up is lost on either side, and a closed pool empties.
WakeProtocol == QueueBounded /\ ParkedMeansFull /\ ClosedDrains /\ NoLostWakeup

\* When Close has returned, every message that is not answered is in the hands
\* of a goroutine that is still inside Submit.
ClosedLeavesOnlySubmitters ==
    pc[Main] = "closed" =>
        \A t \in Tasks : status[t] = "pending" =>
            \E s \in Submitters : t \in Held(s)

\* The counters the process reports: every answered task is in exactly one of
\* Shed, Expired and the evaluated ones, and Accepted counts what was queued.
CountersAgree ==
    /\ shed = Cardinality({t \in Tasks : status[t] = "limit"})
    /\ expired = Cardinality({t \in Tasks : status[t] = "deadline"})
    /\ accepted = Cardinality({t \in Tasks : ticket[t] > 0})

\* Task.Fill, from which overload rules decide: a task turned away for lack of
\* room saw a full queue, and in drop mode an accepted one never did.
FillIsHonest ==
    \A t \in Tasks :
        /\ status[t] = "limit" => fill[t] = 100
        /\ Full = "drop" /\ ticket[t] > 0 => fill[t] < 100

\* FIFO: whoever enqueues, a new task goes behind every other one, keeps its
\* place, and is popped in good time only before everything still queued.
ArrivalOrder ==
    [][\A t \in Tasks :
         /\ t \in queued' \ queued =>
               \A u \in Tasks \ {t} : ticket'[u] < ticket'[t]
         /\ ticket[t] > 0 => ticket'[t] = ticket[t]
         /\ t \in queued \ queued' /\ ~TooLate(t) =>
               \A u \in queued' : ticket[t] < ticket'[u]]_vars

\* What inspector.conf says of the queue, read at the moment Close returns: by
\* then every message the pool accepted has been answered.
EveryPathAnswered ==
    pc[Main] = "closed" =>
        \A t \in Tasks : ticket[t] > 0 => status[t] \in Reasons

\* Every message is answered (its handler called) if goroutines are scheduled
\* and the engine returns, in every mode and whenever the pool is closed.
Answered ==
    Scheduling /\ Evaluating =>
        \A t \in Tasks : status[t] = "pending" ~> status[t] \in Reasons

\* Submit returns even if the workers and the sweeper hang, so a subscription
\* never stops delivering: its own timer is enough.
SubmitReturns == \A s \in Submitters : pc[s] # "idle" ~> pc[s] = "idle"

\* With every worker hung a queued message is still taken out of the queue when
\* its time is up, as long as the sweeper has not been stopped.
LeavesQueue == \A t \in Tasks : t \in queued ~> t \notin queued \/ stopped

\* Close returns if the engine does.
CloseReturns == Scheduling /\ Evaluating => (stopped ~> pc[Main] = "closed")

-----------------------------------------------------------------------------
(* What the pool promises of a message: Answering.                         *)

\* Where a message is: a pending one, from its owner.
OwnedAs(t) ==
    IF t \in queued THEN "queued"
    ELSE IF \E p \in Procs : t \in dead[p] THEN "late"
    ELSE IF \E s \in Submitters : cur[s] = t /\ pc[s] = "expire" THEN "late"
    ELSE IF \E s \in Submitters : cur[s] = t /\ pc[s] = "limit" THEN "refused"
    ELSE IF \E s \in Submitters : cur[s] = t THEN "waiting"
    ELSE IF \E w \in Workers : cur[w] = t /\ pc[w] = "run" THEN "running"
    ELSE "taken"

Place(t) == IF status[t] = "pending" THEN OwnedAs(t) ELSE status[t]

Promise == INSTANCE Answering WITH place <- [t \in Tasks |-> Place(t)],
                                   open <- ~closed, gone <- pc[Main] = "closed"

\* The pool with its mutex, condition variable, timers, sweeper and Close
\* implements the abstract queue of Answering.
KeepsPromise == Promise!Spec
=============================================================================
