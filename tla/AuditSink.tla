------------------------------ MODULE AuditSink ------------------------------
(***************************************************************************)
(* The audit sink of the inspector (internal/audit/sink.go): events are    *)
(* appended to a bounded buffer by whoever answers a call, and one         *)
(* goroutine takes them out in batches and publishes one message per       *)
(* subject of a batch. The order in which main stops the pool and the sink *)
(* is part of the module: pool.Close waits for the workers, nobody waits   *)
(* for the goroutines of the subscriptions, which answer calls, too.       *)
(*                                                                         *)
(* An event is its number in the order of the appends. A section under     *)
(* Sink.mu is one step; the wake-up and the publishing come after it. A    *)
(* call whose request names no audit subject, or was not parsed, adds      *)
(* nothing and is no step here.                                            *)
(***************************************************************************)
EXTENDS Integers, Sequences, FiniteSets, FiniteSetsExt

CONSTANTS
    Workers,     \* goroutines of the pool
    Receivers,   \* goroutines of the subscriptions
    Subjects,    \* audit subjects
    Sizes,       \* what an event may add to Sink.size: len(body) + 2
    MaxItems,    \* maxItems
    MaxSize,     \* maxSize
    MaxPending,  \* maxPending
    MaxEvents    \* bound on the events of a behaviour

Adders == Workers \cup Receivers

ASSUME SinkAssumption ==
    /\ IsFiniteSet(Workers) /\ IsFiniteSet(Receivers)
    /\ Workers \cap Receivers = {}
    /\ Sizes \subseteq Nat \ {0, 1}
    /\ MaxItems \in Nat \ {0}
    /\ MaxPending \in Nat \ {0}
    /\ MaxSize \in Nat \ {0}
    /\ MaxEvents \in Nat

VARIABLES
    events,    \* every event so far: its subject, its size, who added it
    pending,   \* Sink.pending
    size,      \* Sink.size
    dropped,   \* Sink.dropped
    wake,      \* the one place of the channel Sink.wake is taken
    batch,     \* what the loop took and has not sent yet
    out,       \* events handed to the bus, whether it took them or not
    pc,        \* where the goroutine in loop is
    last,      \* its flush is the one after the stop
    adder,     \* where each adder is
    stage      \* of the shutdown in main

vars == <<events, pending, size, dropped, wake, batch, out, pc, last,
          adder, stage>>

Init ==
    /\ events = << >>
    /\ pending = {}
    /\ size = 0
    /\ dropped = 0
    /\ wake = FALSE
    /\ batch = {}
    /\ out = {}
    /\ pc = "select"
    /\ last = FALSE
    /\ adder = [a \in Adders |-> "idle"]
    /\ stage = "serving"

-----------------------------------------------------------------------------
(* Helpers.                                                                *)

\* The first n of a set of events, in the order of the appends.
Oldest(S, n) == {i \in S : Cardinality({j \in S : j < i}) < n}

\* sizeOf, given the events it looks up: the bytes of the events are counted.
Bytes(S, evs) == UNION {{i} \X (1..evs[i].size) : i \in S}
SizeOf(S, evs) == Cardinality(Bytes(S, evs))

IsFull(S, bytes) == Cardinality(S) >= MaxItems \/ bytes >= MaxSize

-----------------------------------------------------------------------------
(* Add, by the goroutine that has just answered a call.                    *)

\* Mutant of Store: the size is not taken back with what is cut.
StoreStaleSize(grown, evs) ==
    LET cut == Cardinality(grown) - MaxPending
    IN  /\ pending' = grown \ Oldest(grown, cut)
        /\ dropped' = dropped + (IF cut > 0 THEN cut ELSE 0)
        /\ size' = size + evs[Len(evs)].size

\* The oldest events make room at the limit.
Store(grown, evs) ==
    LET cut == Cardinality(grown) - MaxPending
    IN  IF cut > 0
        THEN /\ pending' = grown \ Oldest(grown, cut)
             /\ dropped' = dropped + cut
             /\ size' = SizeOf(pending', evs)
        ELSE /\ pending' = grown
             /\ size' = size + evs[Len(evs)].size
             /\ UNCHANGED dropped

Add(a, subject, bytes) ==
    /\ adder[a] = "idle"
    /\ Len(events) < MaxEvents
    /\ events' = Append(events, [subject |-> subject, size |-> bytes, by |-> a])
    /\ Store(pending \cup {Len(events) + 1}, events')
    /\ adder' = [adder EXCEPT ![a] = IF IsFull(pending', size') THEN "kick" ELSE "idle"]
    /\ UNCHANGED <<wake, batch, out, pc, last, stage>>

\* kick: the channel holds one wake-up, a second one is not needed.
Kick(a) ==
    /\ adder[a] = "kick"
    /\ wake' = TRUE
    /\ adder' = [adder EXCEPT ![a] = "idle"]
    /\ UNCHANGED <<events, pending, size, dropped, batch, out, pc,
                   last, stage>>

-----------------------------------------------------------------------------
(* loop and flush.                                                         *)

\* Mutant of OnTick: the loop waits for a full buffer.
OnTickNever == FALSE /\ UNCHANGED <<wake, last>>

\* select: among the cases that are ready any one is taken; the ticker may be
\* ready at any time.
OnWake == wake /\ wake' = FALSE /\ UNCHANGED last
OnTick == UNCHANGED <<wake, last>>
OnStop == stage = "stopping" /\ last' = TRUE /\ UNCHANGED wake

Select ==
    /\ pc = "select"
    /\ OnWake \/ OnTick \/ OnStop
    /\ pc' = "flush"
    /\ UNCHANGED <<events, pending, size, dropped, batch, out, adder,
                   stage>>

\* Mutant of Taken: everything at once.
TakenAll == pending

\* What flush takes out of the buffer at a time.
Taken == Oldest(pending, MaxItems)

Take ==
    /\ pc = "flush"
    /\ pending # {}
    /\ batch' = Taken
    /\ pending' = pending \ Taken
    /\ size' = SizeOf(pending', events)
    /\ pc' = "publish"
    /\ UNCHANGED <<events, dropped, wake, out, last, adder, stage>>

\* flush returns when it finds the buffer empty; loop ends after the last one.
Flushed ==
    /\ pc = "flush"
    /\ pending = {}
    /\ pc' = IF last THEN "exit" ELSE "select"
    /\ UNCHANGED <<events, pending, size, dropped, wake, batch, out,
                   last, adder, stage>>

\* groupBySubject: the next message has the subject of the first event left,
\* and every event of that subject.
Group ==
    LET first == Min(batch)
    IN  {i \in batch : events[i].subject = events[first].subject}

\* send: the message is published, or the failure is logged; either way its
\* events are gone, and after the last group flush looks at the buffer again.
Send ==
    /\ pc = "publish"
    /\ batch' = batch \ Group
    /\ out' = out \cup Group
    /\ pc' = IF batch' = {} THEN "flush" ELSE "publish"
    /\ UNCHANGED <<events, pending, size, dropped, wake, last, adder, stage>>

-----------------------------------------------------------------------------
(* main: pool.Close, then Sink.Close, which waits for the loop.            *)

Terminate ==
    /\ stage = "serving"
    /\ stage' = "draining"
    /\ UNCHANGED <<events, pending, size, dropped, wake, batch, out,
                   pc, last, adder>>

\* A worker leaves the closed pool between two calls.
WorkerExit(w) ==
    /\ stage = "draining"
    /\ adder[w] = "idle"
    /\ adder' = [adder EXCEPT ![w] = "exit"]
    /\ UNCHANGED <<events, pending, size, dropped, wake, batch, out,
                   pc, last, stage>>

\* Mutant of CloseSink: the sink is closed before the pool.
CloseSinkFirst ==
    /\ stage = "draining"
    /\ stage' = "stopping"
    /\ UNCHANGED <<events, pending, size, dropped, wake, batch, out,
                   pc, last, adder>>

CloseSink ==
    /\ stage = "draining"
    /\ \A w \in Workers : adder[w] = "exit"
    /\ stage' = "stopping"
    /\ UNCHANGED <<events, pending, size, dropped, wake, batch, out,
                   pc, last, adder>>

CloseReturns ==
    /\ stage = "stopping"
    /\ pc = "exit"
    /\ stage' = "closed"
    /\ UNCHANGED <<events, pending, size, dropped, wake, batch, out,
                   pc, last, adder>>

LoopStep == Select \/ Take \/ Flushed \/ Send

Next ==
    \/ \E a \in Adders, s \in Subjects, b \in Sizes : Add(a, s, b)
    \/ \E a \in Adders : Kick(a)
    \/ LoopStep
    \/ Terminate
    \/ \E w \in Workers : WorkerExit(w)
    \/ CloseSink
    \/ CloseReturns

Spec == Init /\ [][Next]_vars

(***************************************************************************)
(* Goroutines are scheduled and the ticker ticks; nobody is obliged to     *)
(* answer a call or to stop the process. A loop that is told to stop sees  *)
(* it in the end, because select chooses at random among what is ready.    *)
(***************************************************************************)
FairSpec ==
    /\ Spec
    /\ WF_vars(LoopStep)
    /\ SF_vars(Select /\ OnStop)
    /\ \A a \in Adders : WF_vars(Kick(a))
    /\ \A w \in Workers : WF_vars(WorkerExit(w))
    /\ WF_vars(CloseSink)
    /\ WF_vars(CloseReturns)

-----------------------------------------------------------------------------
(* Properties.                                                             *)

Numbers == DOMAIN events

Events == [subject : Subjects, size : Sizes, by : Adders]

TypeOK ==
    /\ events \in Seq(Events)
    /\ pending \subseteq Numbers /\ batch \subseteq Numbers
    /\ out \subseteq Numbers
    /\ size \in Nat /\ dropped \in Nat
    /\ wake \in BOOLEAN /\ last \in BOOLEAN
    /\ pc \in {"select", "flush", "publish", "exit"}
    /\ adder \in [Adders -> {"idle", "kick", "exit"}]
    /\ stage \in {"serving", "draining", "stopping", "closed"}
    /\ Cardinality(pending) <= MaxPending
    /\ Cardinality(batch) <= MaxItems

OnePlace == pending \cap batch = {} /\ (pending \cup batch) \cap out = {}

LossCounted == dropped = Cardinality(Numbers \ (pending \cup batch \cup out))

SubjectOrder ==
    \A i, j \in Numbers :
        i < j /\ events[i].subject = events[j].subject /\ j \in out =>
            i \notin pending \cup batch

\* No event is lost without a trace, and a reader of one subject sees the events
\* in the order of the calls, whatever is grouped, cut and batched: an event is
\* buffered, about to be sent or handed to the bus, in one of these places only,
\* or counted in Sink.dropped; none is out before an earlier one of its subject
\* that is still to come. And the size the buffer believes it has, kept by
\* addition in Add and by recounting in flush, is the size of what it holds.
Conserved ==
    /\ OnePlace
    /\ LossCounted
    /\ SubjectOrder
    /\ size = SizeOf(pending, events)

\* Nothing is left to chance. A full buffer does not wait for the ticker: the
\* loop is at it, or a wake-up is in the channel or on its way, although the
\* kick comes after the unlock and is dropped when the channel is full. And when
\* Close has returned, the events of every call that a worker evaluated have
\* been handed to the bus: what is still in the buffer was added by a
\* subscription's goroutine, and nobody will send it.
Flushes ==
    /\ Cardinality(pending) >= MaxItems \/ size >= MaxSize =>
          \/ wake
          \/ \E a \in Adders : adder[a] = "kick"
          \/ pc # "select"
    /\ stage = "closed" =>
          batch = {} /\ \A i \in pending : events[i].by \in Receivers

\* Every event leaves the buffer, as long as the loop has not been stopped, and
\* Close comes to its end.
Drains ==
    /\ \A i \in 1..MaxEvents : i \in pending ~> i \notin pending \/ pc = "exit"
    /\ stage = "draining" ~> stage = "closed"
=============================================================================
