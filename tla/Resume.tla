------------------------------- MODULE Resume -------------------------------
(***************************************************************************)
(* The life of an engine transaction between the request call that keeps   *)
(* it and the response call that resumes it: the registry of parked        *)
(* transactions (internal/sticky), the request and the response handlers   *)
(* (cmd/modsec: inspect, inspectResponse, offerContinue, resumeState), the *)
(* release messages, the registry's janitor and the shutdown of main.      *)
(*                                                                         *)
(* Worker goroutines evaluate calls, one subscription goroutine serves the *)
(* releases, the janitor sweeps. A section under Registry.mu is one step;  *)
(* what the code discards after the unlock is the goroutine's own list     *)
(* (todo). Every evaluation opens at most one transaction, so a call names *)
(* the transaction it opened. What the rule engine, the body store and the *)
(* geo service answer is a choice, and the handler may panic at any point. *)
(***************************************************************************)
EXTENDS Integers, FiniteSets

CONSTANTS
    Calls,      \* the inspection calls, and the transactions they open
    Tokens,     \* resume tokens
    Workers,    \* goroutines of the pool
    Receiver,   \* the goroutine of the release subscription
    Janitor,    \* the goroutine in Registry.Run
    None,       \* no call, no transaction, no token
    Max,        \* Registry.max (WAF_MODSEC_RESUME_MAX); 0 switches resume off
    TTL         \* Registry.ttl, in ticks

Procs == Workers \cup {Receiver, Janitor}

ASSUME ResumeAssumption ==
    /\ None \notin Calls \cup Tokens
    /\ IsFiniteSet(Tokens)
    /\ Receiver \notin Workers
    /\ Janitor \notin Workers \cup {Receiver}
    /\ Max \in Nat
    /\ TTL \in Nat

VARIABLES
    call,      \* what each call asks for
    reply,     \* its answer
    item,      \* Registry.items: the transaction parked under a token
    life,      \* how long it still has; below zero it is expired
    tx,        \* the state of each transaction
    closes,    \* how many times it was closed
    resumed,   \* the transaction a response call was evaluated on
    pc,        \* where each goroutine is
    job,       \* the call a worker evaluates
    live,      \* the transaction it owns
    verdict,   \* the verdict of its reply so far
    todo,      \* what it still discards after leaving the registry's lock
    stage      \* of the shutdown in main

regVars == <<item, life>>
txVars == <<tx, closes>>
workVars == <<pc, job, live, verdict>>
vars == <<call, reply, item, life, tx, closes, resumed, pc, job, live, verdict,
          todo, stage>>

NoCall == [phase |-> "none", token |-> None, flag |-> FALSE]
NoReply == [verdict |-> "none", cont |-> FALSE]

\* flag is resume.want of a request and resume.require of a response.
CallForms == [phase : {"request", "response"}, token : Tokens, flag : BOOLEAN]

\* What verdict.From makes of an engine outcome.
Verdicts == {"allow", "score", "deny", "redirect"}

\* And what else a reply may say: ErrorReply, or the FallbackReply of a handler
\* that panicked, which is an error on the wire too.
Answers == Verdicts \cup {"error", "panic"}

Init ==
    /\ call = [c \in Calls |-> NoCall]
    /\ reply = [c \in Calls |-> NoReply]
    /\ item = [k \in Tokens |-> None]
    /\ life = [k \in Tokens |-> 0]
    /\ tx = [c \in Calls |-> "none"]
    /\ closes = [c \in Calls |-> 0]
    /\ resumed = [c \in Calls |-> None]
    /\ pc = [p \in Procs |-> "idle"]
    /\ job = [p \in Procs |-> None]
    /\ live = [p \in Procs |-> None]
    /\ verdict = [p \in Procs |-> "none"]
    /\ todo = [p \in Procs |-> {}]
    /\ stage = "serving"

-----------------------------------------------------------------------------
(* Helpers.                                                                *)

Parked == {k \in Tokens : item[k] # None}

\* Mutant of Overdue: the comparison that never comes true.
OverdueNever == {k \in Parked : life[k] < -1}

\* The entries Registry.expired removes.
Overdue == {k \in Parked : life[k] < 0}

Goto(p, label) == pc' = [pc EXCEPT ![p] = label]

\* tx.Close of one transaction.
CloseTx(x) ==
    /\ tx' = [tx EXCEPT ![x] = "closed"]
    /\ closes' = [closes EXCEPT ![x] = @ + 1]

\* live.Discard() where the code asks for live != nil first.
DiscardLive(w) ==
    IF live[w] = None THEN UNCHANGED txVars ELSE CloseTx(live[w])

\* send, and the worker goes back to the pool.
Send(w, v, cont) ==
    /\ reply' = [reply EXCEPT ![job[w]] = [verdict |-> v, cont |-> cont]]
    /\ pc' = [pc EXCEPT ![w] = "idle"]
    /\ job' = [job EXCEPT ![w] = None]
    /\ live' = [live EXCEPT ![w] = None]
    /\ verdict' = [verdict EXCEPT ![w] = "none"]

\* What an evaluation that does not keep its transaction leaves behind when it
\* returns: it was never opened, or it was closed.
RunAndClose(c) ==
    \/ UNCHANGED txVars
    \/ CloseTx(c)

\* A panic drops the last reference to a transaction that nobody closed.
LoseTx(x) ==
    /\ tx' = [tx EXCEPT ![x] = "leaked"]
    /\ UNCHANGED closes

-----------------------------------------------------------------------------
(* Calls.                                                                  *)

\* A worker takes a call from the pool.
Start(w, c, form) ==
    /\ pc[w] = "idle"
    /\ stage # "stopped"
    /\ call[c] = NoCall
    /\ call' = [call EXCEPT ![c] = form]
    /\ job' = [job EXCEPT ![w] = c]
    /\ Goto(w, form.phase)
    /\ UNCHANGED <<reply, regVars, txVars, resumed, live, verdict, todo, stage>>

\* The pool answers a call that cannot make its deadline, or does not fit,
\* without evaluating it. What is parked for it stays parked.
Shed(c, form) ==
    /\ call[c] = NoCall
    /\ call' = [call EXCEPT ![c] = form]
    /\ reply' = [reply EXCEPT ![c] = [verdict |-> "error", cont |-> FALSE]]
    /\ UNCHANGED <<regVars, txVars, resumed, workVars, todo, stage>>

\* wantsResume
WantsResume(c) == Max > 0 /\ call[c].flag

\* Unknown profile, skip, or a body that cannot be inspected.
RequestEarly(w) ==
    /\ \E v \in {"error", "allow"} : Send(w, v, FALSE)
    /\ UNCHANGED txVars

\* engine.Apply: the transaction does not outlive the call.
RequestPlain(w) ==
    /\ ~WantsResume(job[w])
    /\ \E v \in Verdicts \cup {"error"} : Send(w, v, FALSE)
    /\ RunAndClose(job[w])

\* engine.ApplyKeep fails.
RequestFails(w) ==
    /\ WantsResume(job[w])
    /\ Send(w, "error", FALSE)
    /\ RunAndClose(job[w])

\* engine.ApplyKeep leaves the transaction open.
RequestKeep(w) ==
    /\ WantsResume(job[w])
    /\ tx' = [tx EXCEPT ![job[w]] = "open"]
    /\ live' = [live EXCEPT ![w] = job[w]]
    /\ \E v \in Verdicts : verdict' = [verdict EXCEPT ![w] = v]
    /\ Goto(w, "publish")
    /\ UNCHANGED <<reply, job, closes>>

Request(w) ==
    /\ pc[w] = "request"
    /\ \/ RequestEarly(w)
       \/ RequestPlain(w)
       \/ RequestFails(w)
       \/ RequestKeep(w)
    /\ UNCHANGED <<call, regVars, resumed, todo, stage>>

\* The list writes may fail on the geo service: the kept transaction goes.
PublishFails(w) ==
    /\ Send(w, "error", FALSE)
    /\ DiscardLive(w)

\* offerContinue keeps nothing for a client that is turned away.
OfferRefused(w) ==
    /\ verdict[w] \in {"deny", "redirect"}
    /\ Send(w, verdict[w], FALSE)
    /\ DiscardLive(w)

\* Mutant of OfferPark: a redirected client is offered to continue.
OfferParkRedirect(w) ==
    /\ verdict[w] # "deny"
    /\ Goto(w, "park")
    /\ UNCHANGED <<reply, txVars, job, live, verdict>>

OfferPark(w) ==
    /\ verdict[w] \notin {"deny", "redirect"}
    /\ Goto(w, "park")
    /\ UNCHANGED <<reply, txVars, job, live, verdict>>

Publish(w) ==
    /\ pc[w] = "publish"
    /\ \/ PublishFails(w)
       \/ OfferRefused(w)
       \/ OfferPark(w)
    /\ UNCHANGED <<call, regVars, resumed, todo, stage>>

\* Registry.Park under its lock: whether there is room once the expired entries
\* are gone, checked before the entry of the same token is replaced; which
\* entries go; and how long the new one stays. Each with a mutant: one entry too
\* many, a replaced entry that nobody discards, one tick too long.
HasRoomOver == Cardinality(Parked \ Overdue) <= Max
HasRoom == Cardinality(Parked \ Overdue) < Max

GoneOverdue(token) == Overdue
Gone(token) == Overdue \cup (Parked \cap {token})

ExpiryLong == TTL + 1
Expiry == TTL

ParkFull(w) ==
    /\ ~HasRoom
    /\ item' = [k \in Tokens |-> IF k \in Overdue THEN None ELSE item[k]]
    /\ todo' = [todo EXCEPT ![w] = {item[k] : k \in Overdue}]
    /\ Goto(w, "refused")
    /\ UNCHANGED <<life, live>>

ParkRoom(w) ==
    LET token == call[job[w]].token
    IN  /\ HasRoom
        /\ item' = [k \in Tokens |-> IF k = token THEN live[w]
                                     ELSE IF k \in Overdue THEN None ELSE item[k]]
        /\ life' = [life EXCEPT ![token] = Expiry]
        /\ todo' = [todo EXCEPT ![w] = {item[k] : k \in Gone(token)}]
        /\ live' = [live EXCEPT ![w] = None]
        /\ Goto(w, "parked")

Park(w) ==
    /\ pc[w] = "park"
    /\ \/ ParkFull(w)
       \/ ParkRoom(w)
    /\ UNCHANGED <<call, reply, txVars, resumed, job, verdict, stage>>

\* Mutant of Refused: the caller forgets the transaction nobody took.
RefusedKeeps(w) ==
    /\ pc[w] = "refused"
    /\ todo[w] = {}
    /\ Send(w, verdict[w], FALSE)
    /\ UNCHANGED <<call, regVars, txVars, resumed, todo, stage>>

\* After the discards: the caller's own Discard, or the offer in the reply.
Refused(w) ==
    /\ pc[w] = "refused"
    /\ todo[w] = {}
    /\ Send(w, verdict[w], FALSE)
    /\ DiscardLive(w)
    /\ UNCHANGED <<call, regVars, resumed, todo, stage>>

Offered(w) ==
    /\ pc[w] = "parked"
    /\ todo[w] = {}
    /\ Send(w, verdict[w], TRUE)
    /\ UNCHANGED <<call, regVars, txVars, resumed, todo, stage>>

\* Mutant of Take: the entry stays in the registry.
TakeKeeps(w) ==
    LET k == call[job[w]].token
    IN  /\ pc[w] = "response"
        /\ live' = [live EXCEPT ![w] = IF k \in Overdue THEN None ELSE item[k]]
        /\ todo' = [todo EXCEPT ![w] = {item[j] : j \in Overdue \cap {k}}]
        /\ Goto(w, "taken")
        /\ UNCHANGED <<call, reply, regVars, txVars, resumed, job, verdict, stage>>

\* resumeState: Registry.Take. An expired entry is removed, discarded and
\* reported as missing.
Take(w) ==
    LET k == call[job[w]].token
    IN  /\ pc[w] = "response"
        /\ item' = [item EXCEPT ![k] = None]
        /\ live' = [live EXCEPT ![w] = IF k \in Overdue THEN None ELSE item[k]]
        /\ todo' = [todo EXCEPT ![w] = {item[j] : j \in Overdue \cap {k}}]
        /\ Goto(w, "taken")
        /\ UNCHANGED <<call, reply, life, txVars, resumed, job, verdict, stage>>

ResponseSkip(w) ==
    /\ Send(w, "allow", FALSE)
    /\ DiscardLive(w)
    /\ UNCHANGED resumed

ResponseLost(w) ==
    /\ live[w] = None
    /\ call[job[w]].flag
    /\ Send(w, "deny", FALSE)
    /\ UNCHANGED <<txVars, resumed>>

ResponseUnknown(w) ==
    /\ live[w] = None
    /\ ~call[job[w]].flag
    /\ Send(w, "error", FALSE)
    /\ UNCHANGED <<txVars, resumed>>

ResponseBody(w) ==
    /\ live[w] # None \/ ~call[job[w]].flag
    /\ Send(w, "error", FALSE)
    /\ DiscardLive(w)
    /\ UNCHANGED resumed

\* live.Resume: phases 3 and 4 run on the transaction, which its deferred Close
\* ends on a return, an error and a panic (Panics) alike.
ResponseResume(w) ==
    /\ live[w] # None
    /\ resumed' = [resumed EXCEPT ![job[w]] = live[w]]
    /\ Goto(w, "resuming")
    /\ UNCHANGED <<reply, txVars, job, live, verdict>>

\* engine.ApplyResponse on a transaction rebuilt from the request snapshot.
ResponseRebuild(w) ==
    /\ live[w] = None
    /\ ~call[job[w]].flag
    /\ \E v \in Verdicts \cup {"error"} : Send(w, v, FALSE)
    /\ RunAndClose(job[w])
    /\ UNCHANGED resumed

Response(w) ==
    /\ pc[w] = "taken"
    /\ todo[w] = {}
    /\ \/ ResponseSkip(w)
       \/ ResponseLost(w)
       \/ ResponseUnknown(w)
       \/ ResponseBody(w)
       \/ ResponseResume(w)
       \/ ResponseRebuild(w)
    /\ UNCHANGED <<call, regVars, todo, stage>>

ResumeDone(w) ==
    /\ pc[w] = "resuming"
    /\ \E v \in Verdicts \cup {"error"} : Send(w, v, FALSE)
    /\ CloseTx(live[w])
    /\ UNCHANGED <<call, regVars, resumed, todo, stage>>

\* What a panic leaves of the transaction in the handler's hands: closed already,
\* or lost, for only live.Resume closes it by a defer.
DropLive(w) ==
    /\ live[w] # None
    /\ \/ CloseTx(live[w])
       \/ pc[w] # "resuming" /\ LoseTx(live[w])

\* And of the one the evaluation opens itself: a panic in begin loses it, and so
\* does one in ApplyKeep before it returns.
DropOwn(w) ==
    /\ \/ pc[w] = "request"
       \/ pc[w] = "taken" /\ live[w] = None /\ ~call[job[w]].flag
    /\ CloseTx(job[w]) \/ LoseTx(job[w])

\* recoverInto: the handler panics, in the engine or outside it, and the call is
\* answered without an offer. What is parked stays parked.
Panics(w) ==
    /\ pc[w] # "idle"
    /\ todo[w] = {}
    /\ Send(w, "panic", FALSE)
    /\ \/ live[w] = None /\ UNCHANGED txVars
       \/ DropLive(w)
       \/ DropOwn(w)
    /\ UNCHANGED <<call, regVars, resumed, todo, stage>>

\* l.Discard() for one of the transactions p removed from the registry.
Discard(p) ==
    /\ \E x \in todo[p] :
        /\ CloseTx(x)
        /\ todo' = [todo EXCEPT ![p] = @ \ {x}]
    /\ UNCHANGED <<call, reply, regVars, resumed, workVars, stage>>

-----------------------------------------------------------------------------
(* Releases, the janitor, shutdown and time.                               *)

\* Registry.Drop, for a release message.
Drop(k) ==
    /\ todo[Receiver] = {}
    /\ k \in Parked
    /\ item' = [item EXCEPT ![k] = None]
    /\ todo' = [todo EXCEPT ![Receiver] = {item[k]}]
    /\ UNCHANGED <<call, reply, life, txVars, resumed, workVars, stage>>

Sweep ==
    /\ pc[Janitor] = "idle"
    /\ todo[Janitor] = {}
    /\ Overdue # {}
    /\ item' = [k \in Tokens |-> IF k \in Overdue THEN None ELSE item[k]]
    /\ todo' = [todo EXCEPT ![Janitor] = {item[k] : k \in Overdue}]
    /\ UNCHANGED <<call, reply, life, txVars, resumed, workVars, stage>>

\* Registry.Close, when the stop channel is closed.
CloseRegistry ==
    /\ pc[Janitor] = "idle"
    /\ todo[Janitor] = {}
    /\ stage = "stopped"
    /\ item' = [k \in Tokens |-> None]
    /\ todo' = [todo EXCEPT ![Janitor] = {item[k] : k \in Parked}]
    /\ Goto(Janitor, "exit")
    /\ UNCHANGED <<call, reply, life, txVars, resumed, job, live, verdict, stage>>

\* main: pool.Close waits for the workers, and only then, when run returns, is
\* the janitor told to stop.
Terminate ==
    /\ stage = "serving"
    /\ stage' = "draining"
    /\ UNCHANGED <<call, reply, regVars, txVars, resumed, workVars, todo>>

\* Mutant of Drained: the janitor is stopped before the workers are done.
DrainedEarly ==
    /\ stage = "draining"
    /\ stage' = "stopped"
    /\ UNCHANGED <<call, reply, regVars, txVars, resumed, workVars, todo>>

Drained ==
    /\ stage = "draining"
    /\ \A w \in Workers : pc[w] = "idle"
    /\ stage' = "stopped"
    /\ UNCHANGED <<call, reply, regVars, txVars, resumed, workVars, todo>>

\* Nothing tells two values below zero apart.
Tick ==
    /\ life' = [k \in Tokens |-> IF k \in Parked /\ life[k] >= 0
                                 THEN life[k] - 1 ELSE life[k]]
    /\ life' # life
    /\ UNCHANGED <<call, reply, item, txVars, resumed, workVars, todo, stage>>

WorkerStep(w) ==
    \/ Request(w) \/ Publish(w) \/ Park(w) \/ Refused(w) \/ Offered(w)
    \/ Take(w) \/ Response(w) \/ ResumeDone(w) \/ Panics(w)

Next ==
    \/ \E w \in Workers, c \in Calls, form \in CallForms : Start(w, c, form)
    \/ \E c \in Calls, form \in CallForms : Shed(c, form)
    \/ \E w \in Workers : WorkerStep(w)
    \/ \E p \in Procs : Discard(p)
    \/ \E k \in Tokens : Drop(k)
    \/ Sweep
    \/ CloseRegistry
    \/ Terminate
    \/ Drained
    \/ Tick

Spec == Init /\ [][Next]_vars

(***************************************************************************)
(* Goroutines are scheduled, engine calls return (possibly by a panic),    *)
(* time passes and the janitor's ticker ticks. Nothing obliges anybody to  *)
(* send a call or a release, or to stop the process.                       *)
(***************************************************************************)
FairSpec ==
    /\ Spec
    /\ \A w \in Workers : WF_vars(WorkerStep(w))
    /\ \A p \in Procs : WF_vars(Discard(p))
    /\ WF_vars(Sweep)
    /\ WF_vars(CloseRegistry)
    /\ WF_vars(Drained)
    /\ WF_vars(Tick)

-----------------------------------------------------------------------------
(* Properties.                                                             *)

Labels == {"idle", "request", "publish", "park", "refused", "parked",
           "response", "taken", "resuming", "exit"}

TypeOK ==
    /\ call \in [Calls -> CallForms \cup {NoCall}]
    /\ reply \in [Calls -> [verdict : Answers \cup {"none"}, cont : BOOLEAN]]
    /\ item \in [Tokens -> Calls \cup {None}]
    /\ life \in [Tokens -> -1..TTL]
    /\ tx \in [Calls -> {"none", "open", "closed", "leaked"}]
    /\ closes \in [Calls -> Nat]
    /\ resumed \in [Calls -> Calls \cup {None}]
    /\ pc \in [Procs -> Labels]
    /\ job \in [Procs -> Calls \cup {None}]
    /\ live \in [Procs -> Calls \cup {None}]
    /\ verdict \in [Procs -> Verdicts \cup {"none"}]
    /\ todo \in [Procs -> SUBSET Calls]
    /\ stage \in {"serving", "draining", "stopped"}

\* What each label means: which call a worker evaluates there, which transaction
\* it owns, and how far the shutdown has come.
WorkerOK(w) ==
    /\ pc[w] \in Labels \ {"exit"}
    /\ job[w] = None <=> pc[w] = "idle"
    /\ job[w] # None => call[job[w]] # NoCall /\ reply[job[w]] = NoReply
    /\ pc[w] \in {"request", "publish", "park", "refused", "parked"} =>
          call[job[w]].phase = "request"
    /\ pc[w] \in {"response", "taken", "resuming"} =>
          call[job[w]].phase = "response"
    /\ pc[w] \in {"request", "response", "taken", "resuming"} =>
          tx[job[w]] = "none"
    /\ pc[w] \in {"publish", "park", "refused"} => live[w] = job[w]
    /\ pc[w] \in {"publish", "park", "refused", "parked"} => WantsResume(job[w])
    /\ pc[w] \in {"park", "refused", "parked"} => verdict[w] \in {"allow", "score"}
    /\ pc[w] = "publish" => verdict[w] \in Verdicts
    /\ pc[w] = "resuming" => live[w] # None /\ resumed[job[w]] = live[w]
    /\ pc[w] \in {"idle", "request", "response", "parked"} => live[w] = None
    /\ todo[w] # {} => pc[w] \in {"refused", "parked", "taken"}

ControlOK ==
    /\ \A w \in Workers : WorkerOK(w)
    /\ \A w, v \in Workers : job[w] # None /\ job[w] = job[v] => w = v
    /\ pc[Receiver] = "idle" /\ job[Receiver] = None /\ live[Receiver] = None
    /\ pc[Janitor] \in {"idle", "exit"}
    /\ job[Janitor] = None /\ live[Janitor] = None
    /\ \A c \in Calls : call[c] = NoCall =>
          reply[c] = NoReply /\ tx[c] = "none" /\ resumed[c] = None
    /\ stage = "stopped" => \A w \in Workers : pc[w] = "idle"
    /\ pc[Janitor] = "exit" => stage = "stopped" /\ Parked = {}

\* The registry never holds more than resume_max transactions, although Park
\* may find it full of expired ones and replaces the entry of a known token.
RegistryBounded == Cardinality(Parked) <= Max

\* The transactions goroutine p has to close or to hand over.
Held(p) == todo[p] \cup ({live[p]} \ {None})

\* An open transaction has one owner, the registry (under one token) or one
\* goroutine, and only open ones have an owner. So a response call never runs
\* on a transaction that somebody else closed, and nobody closes one twice.
OneOwner ==
    /\ \A k, j \in Tokens : item[k] # None /\ item[k] = item[j] => k = j
    /\ \A k \in Tokens, p \in Procs : item[k] \notin Held(p)
    /\ \A p \in Procs : live[p] \notin todo[p]
    /\ \A p, q \in Procs : p # q => Held(p) \cap Held(q) = {}

OpenIsOwned ==
    \A x \in Calls :
        tx[x] = "open" <=> \/ \E k \in Tokens : item[k] = x
                           \/ \E p \in Procs : x \in Held(p)

\* Coraza recycles a closed transaction, so a second Close would hand the same
\* memory to two requests.
ClosedOnce == \A x \in Calls : closes[x] = IF tx[x] = "closed" THEN 1 ELSE 0

\* Whatever races for a token (responses, releases, the janitor, a second
\* request), a kept transaction has one owner and one Close.
TransactionOwned == OneOwner /\ OpenIsOwned /\ ClosedOnce

\* Phases 3 and 4 run on the transaction of the request with the same token,
\* one that asked to be kept and was neither denied nor redirected nor answered
\* without an offer, unless the handler panicked behind the Park: then the
\* transaction is in the registry and the client was not told.
RightTransaction ==
    \A c \in Calls : resumed[c] # None =>
        LET x == resumed[c]
        IN  /\ call[x].phase = "request" /\ call[x].flag
            /\ call[x].token = call[c].token
            /\ reply[x] # NoReply =>
                  \/ reply[x].cont /\ reply[x].verdict \in {"allow", "score"}
                  \/ reply[x].verdict = "panic"

\* A transaction is resumed by at most one response call.
ResumedOnce ==
    \A c, d \in Calls : resumed[c] # None /\ resumed[c] = resumed[d] => c = d

\* A response call that requires the kept state is never evaluated on another
\* one: it opens no transaction of its own.
RequireNeverRebuilds ==
    \A c \in Calls :
        call[c].phase = "response" /\ call[c].flag => tx[c] = "none"

\* A response is judged on the state of its own request, that state is used up
\* by it, and a response that insists on it is judged on nothing else.
ResumesItsOwn == RightTransaction /\ ResumedOnce /\ RequireNeverRebuilds

\* A call that is answered without an offer to continue, and not out of a panic,
\* leaves no transaction behind: what was kept for it is closed before the reply
\* goes out.
ClosedBeforeReply ==
    \A c \in Calls :
        /\ reply[c] # NoReply /\ ~reply[c].cont
        /\ reply[c].verdict # "panic"
        => tx[c] \notin {"open", "leaked"}

\* A transaction that nobody will ever close is the price of a panic, and the
\* caller was told: the call that opened it, or the response call that had taken
\* it from the token's slot, was answered out of a panic.
LostByPanic ==
    \A x \in Calls : tx[x] = "leaked" =>
        \E c \in Calls : reply[c].verdict = "panic" /\ call[c].token = call[x].token

\* Apart from panics, no reply without an offer leaves a transaction open or
\* lost, and every lost one belongs to a call that was answered out of a panic.
NoOffersNoState == ClosedBeforeReply /\ LostByPanic

\* When the janitor has stopped nothing is parked and nobody parks any more:
\* the only open transactions left are those a goroutine is closing.
StoppedRegistryIsEmpty ==
    pc[Janitor] = "exit" =>
        \A x \in Calls : tx[x] = "open" =>
            x \in todo[Janitor] \/ x \in todo[Receiver]

\* What README.md says of a required resume whose state is gone: the answer is
\* error, as it is out of a panic. A skip by a neighbour's ask comes first and is an allow.
LostIsError ==
    \A c \in Calls :
        /\ call[c].phase = "response" /\ call[c].flag
        /\ reply[c] # NoReply /\ resumed[c] = None
        => reply[c].verdict \in {"error", "panic", "allow"}

\* Apart from panics, every transaction that is opened is closed in the end, even
\* if no other message ever arrives: a parked one is resumed, released, replaced
\* or expires. Only a panic of the handler that holds it may lose it instead
\* (LostByPanic); one behind the Park may not, for the registry has it then.
OpenCloses == \A x \in Calls : tx[x] = "open" ~> tx[x] \in {"closed", "leaked"}

-----------------------------------------------------------------------------
(* What the registry and the handlers promise together: Sessions.          *)

\* How far a transaction has come: an open one, from its owner.
OwnedAs(x) ==
    IF \E k \in Tokens : item[k] = x THEN "kept"
    ELSE IF \E p \in Procs : x \in todo[p] THEN "forgotten"
    ELSE IF \E w \in Workers : live[w] = x /\ pc[w] = "taken" THEN "taken"
    ELSE IF \E w \in Workers : live[w] = x /\ pc[w] = "resuming" THEN "resumed"
    ELSE "open"

Place(x) == CASE tx[x] = "none" -> "new"
              [] tx[x] \in {"closed", "leaked"} -> tx[x]
              [] tx[x] = "open" -> OwnedAs(x)

Promise == INSTANCE Sessions WITH token <- [c \in Calls |-> call[c].token],
                                  place <- [c \in Calls |-> Place(c)],
                                  slot <- item, heir <- resumed

\* The registry with its lock, lifetime, janitor and releases, and the handlers
\* around it, implement the abstract sessions.
KeepsPromise == Promise!Spec
=============================================================================
