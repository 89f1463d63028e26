--------------------------- MODULE SessionProofs ---------------------------
(***************************************************************************)
(* More about Resume, for any number of calls, tokens and workers: which   *)
(* transaction a response call is judged on, what a reply without an offer *)
(* leaves behind, the bound of the registry, and that Resume implements    *)
(* the abstract Sessions.                                                  *)
(***************************************************************************)
EXTENDS ResumeProofs

-----------------------------------------------------------------------------
(* What a worker's step leaves alone.                                      *)

\* A worker changes its own place, its own hands and its own call only.
LEMMA WorkerLocal ==
    ASSUME TypeOK, NEW w \in Workers, WorkerStep(w)
    PROVE  /\ call' = call
           /\ \A v \in Workers \ {w} :
                 /\ pc'[v] = pc[v] /\ job'[v] = job[v] /\ live'[v] = live[v]
                 /\ verdict'[v] = verdict[v] /\ todo'[v] = todo[v]
           /\ \A c \in Calls : c # job[w] => reply'[c] = reply[c] /\ resumed'[c] = resumed[c]
<1> USE DEF TypeOK, Procs, Send, Goto, workVars
<1>1. CASE Request(w)
  BY <1>1 DEF Request, RequestEarly, RequestPlain, RequestFails, RequestKeep
<1>2. CASE Publish(w)
  BY <1>2 DEF Publish, PublishFails, OfferRefused, OfferPark
<1>3. CASE Park(w)
  BY <1>3 DEF Park, ParkFull, ParkRoom
<1>4. CASE Refused(w)
  BY <1>4 DEF Refused
<1>5. CASE Offered(w)
  BY <1>5 DEF Offered
<1>6. CASE Take(w)
  BY <1>6 DEF Take
<1>7. CASE Response(w)
  BY <1>7 DEF Response, ResponseSkip, ResponseLost, ResponseUnknown, ResponseBody,
              ResponseResume, ResponseRebuild
<1>8. CASE ResumeDone(w)
  BY <1>8 DEF ResumeDone
<1>9. CASE Panics(w)
  BY <1>9 DEF Panics
<1> QED
  BY <1>1, <1>2, <1>3, <1>4, <1>5, <1>6, <1>7, <1>8, <1>9 DEF WorkerStep

\* A worker evaluates a call that nobody else evaluates and nobody answered.
LEMMA AtWork ==
    ASSUME TypeOK, ControlOK, NEW w \in Workers, pc[w] # "idle"
    PROVE  /\ job[w] \in Calls /\ live[w] \in Calls \cup {None} /\ w \in Procs
           /\ WorkerOK(w) /\ call[job[w]] \in CallForms /\ reply[job[w]] = NoReply
           /\ \A v \in Workers : job[v] = job[w] => v = w
BY DEF TypeOK, ControlOK, WorkerOK, Procs

\* What a step that is no worker's leaves alone.
LEMMA OthersLocal ==
    ASSUME TypeOK, ControlOK, [Next]_vars,
           ~\E w \in Workers : WorkerStep(w)
    PROVE  /\ \A c \in Calls : call[c] # NoCall => call'[c] = call[c] /\ reply'[c] = reply[c]
           /\ \A w \in Workers : pc[w] # "idle" =>
                 pc'[w] = pc[w] /\ job'[w] = job[w] /\ live'[w] = live[w]
           /\ resumed' = resumed
<1> USE ResumeAssumption DEF TypeOK, Procs, Goto, workVars
<1>1. ASSUME NEW w \in Workers, NEW c \in Calls, NEW form \in CallForms, Start(w, c, form)
      PROVE  /\ \A d \in Calls : call[d] # NoCall => call'[d] = call[d] /\ reply'[d] = reply[d]
             /\ \A v \in Workers : pc[v] # "idle" =>
                   pc'[v] = pc[v] /\ job'[v] = job[v] /\ live'[v] = live[v]
             /\ resumed' = resumed
  BY <1>1 DEF Start
<1>2. ASSUME NEW c \in Calls, NEW form \in CallForms, Shed(c, form)
      PROVE  /\ \A d \in Calls : call[d] # NoCall => call'[d] = call[d] /\ reply'[d] = reply[d]
             /\ UNCHANGED workVars /\ resumed' = resumed
  BY <1>2 DEF Shed
<1>3. ASSUME NEW p \in Procs, Discard(p)
      PROVE  UNCHANGED <<call, reply, workVars, resumed>>
  BY <1>3 DEF Discard
<1>4. ASSUME NEW k \in Tokens, Drop(k)
      PROVE  UNCHANGED <<call, reply, workVars, resumed>>
  BY <1>4 DEF Drop
<1>5. CASE CloseRegistry
  BY <1>5 DEF CloseRegistry
<1>6. CASE Sweep \/ Terminate \/ Drained \/ Tick \/ UNCHANGED vars
  BY <1>6 DEF Sweep, Terminate, Drained, Tick, vars
<1> QED
  BY <1>1, <1>2, <1>3, <1>4, <1>5, <1>6 DEF Next

\* An answer is given once, and the call it answers is known.
LEMMA AnswerStays ==
    ASSUME TypeOK, ControlOK, [Next]_vars, NEW c \in Calls, reply[c] # NoReply
    PROVE  reply'[c] = reply[c] /\ call'[c] = call[c] /\ call[c] # NoCall
<1>1. call[c] # NoCall
  BY DEF ControlOK
<1>2. ASSUME NEW w \in Workers, WorkerStep(w) PROVE reply'[c] = reply[c] /\ call' = call
  <2>1. pc[w] # "idle"
    BY <1>2 DEF WorkerStep, Request, Publish, Park, Refused, Offered, Take, Response,
                ResumeDone, Panics
  <2> QED
    BY <1>2, <2>1, WorkerLocal, AtWork
<1> QED
  BY <1>1, <1>2, OthersLocal

-----------------------------------------------------------------------------
(* A kept transaction stays kept for its token.                            *)

\* The request of transaction x was answered with an offer, or out of a panic.
Settled(x) ==
    \/ reply[x].cont /\ reply[x].verdict \in {"allow", "score"}
    \/ reply[x].verdict = "panic"

\* Transaction x was kept for token k: its request asked for it and was, or is
\* about to be, answered with an offer, unless it panics on the way.
KeptFor(x, k) ==
    /\ call[x].phase = "request" /\ call[x].flag /\ call[x].token = k
    /\ \/ Settled(x)
       \/ \E w \in Workers : job[w] = x /\ pc[w] = "parked"

\* Once the offer is made, or as good as made, it stands.
LEMMA KeptStays ==
    ASSUME TypeOK, ControlOK, [Next]_vars, NEW x \in Calls, NEW k \in Tokens, KeptFor(x, k)
    PROVE  KeptFor(x, k)'
<1>1. call[x] # NoCall
  BY DEF KeptFor, NoCall
<1>2. ASSUME NEW w \in Workers, WorkerStep(w) PROVE KeptFor(x, k)'
  <2>1. pc[w] # "idle"
    BY <1>2 DEF WorkerStep, Request, Publish, Park, Refused, Offered, Take, Response,
                ResumeDone, Panics
  <2>2. CASE Settled(x)
    <3>1. reply[x] # NoReply
      BY <2>2 DEF NoReply, Settled
    <3> QED
      BY <2>2, <3>1, AnswerStays DEF KeptFor, Settled
  <2>3. ASSUME NEW v \in Workers, job[v] = x, pc[v] = "parked" PROVE KeptFor(x, k)'
    <3>1. CASE v # w
      BY <1>2, <2>3, <3>1, WorkerLocal DEF KeptFor
    <3>2. CASE v = w
      <4>1. Offered(w) \/ Panics(w)
        BY <1>2, <2>3, <3>2
           DEF WorkerStep, Request, Publish, Park, Refused, Take, Response, ResumeDone
      <4>2. verdict[w] \in {"allow", "score"}
        BY <2>1, <2>3, <3>2, AtWork DEF WorkerOK
      <4>3. /\ call' = call
            /\ \/ reply'[x] = [verdict |-> verdict[w], cont |-> TRUE]
               \/ reply'[x] = [verdict |-> "panic", cont |-> FALSE]
        BY <2>3, <3>2, <4>1 DEF Offered, Panics, Send, TypeOK
      <4> QED
        BY <4>2, <4>3 DEF KeptFor, Settled
    <3> QED
      BY <3>1, <3>2
  <2> QED
    BY <2>2, <2>3 DEF KeptFor
<1>3. CASE ~\E w \in Workers : WorkerStep(w)
  <2>1. call'[x] = call[x] /\ reply'[x] = reply[x]
    BY <1>1, <1>3, OthersLocal
  <2>2. \A w \in Workers : pc[w] # "idle" => pc'[w] = pc[w] /\ job'[w] = job[w]
    BY <1>3, OthersLocal
  <2> QED
    BY <2>1, <2>2 DEF KeptFor, Settled
<1> QED
  BY <1>2, <1>3

-----------------------------------------------------------------------------
(* The history of kept transactions. Whatever is parked, taken, thrown out *)
(* or resumed was kept for its token; a resumed transaction is closed or   *)
(* in the hands of the worker that resumed it, and a call that is not      *)
(* answered has resumed nothing unless it is at it.                        *)

ParkedKept == \A k \in Parked : KeptFor(item[k], k)
TodoKept == \A p \in Procs : \A x \in todo[p] : KeptFor(x, call[x].token)
TakenKept ==
    \A w \in Workers : pc[w] \in {"taken", "resuming"} /\ live[w] # None =>
        KeptFor(live[w], call[job[w]].token)
Resuming(c) == \E w \in Workers : job[w] = c /\ pc[w] = "resuming"
ResumedKept ==
    \A c \in Calls : resumed[c] # None =>
        /\ KeptFor(resumed[c], call[c].token)
        /\ tx[resumed[c]] = "closed" \/ Resuming(c)
        /\ reply[c] # NoReply \/ Resuming(c)

History ==
    /\ ParkedKept /\ TodoKept /\ TakenKept /\ ResumedKept
    /\ ResumedOnce /\ RequireNeverRebuilds

\* A transaction changes by being closed or lost when it was open, or as the one
\* of the call a worker evaluates.
LEMMA TxChange ==
    ASSUME TypeOK, ControlOK, TransactionOwned, [Next]_vars, NEW c \in Calls, tx'[c] # tx[c]
    PROVE  \/ tx[c] = "open" /\ tx'[c] \in {"closed", "leaked"}
           \/ /\ tx[c] = "none"
              /\ \E w \in Workers :
                    /\ job[w] = c
                    /\ pc[w] = "request" \/ (pc[w] = "taken" /\ ~call[c].flag)
<1> USE ResumeAssumption DEF Procs, txVars
<1> DEFINE Closes == tx[c] = "open" /\ tx'[c] \in {"closed", "leaked"}
           Own == /\ tx[c] = "none"
                  /\ \E w \in Workers :
                        /\ job[w] = c
                        /\ pc[w] = "request" \/ (pc[w] = "taken" /\ ~call[c].flag)
<1>1. ASSUME NEW p \in Procs, NEW x \in Held(p), CloseTx(x) \/ LoseTx(x) PROVE Closes
  <2>1. tx[x] = "open" /\ x \in Calls
    BY <1>1 DEF TransactionOwned, OpenIsOwned, Held, TypeOK
  <2> QED
    BY <1>1, <2>1 DEF CloseTx, LoseTx, TypeOK
<1>2. ASSUME NEW w \in Workers, DiscardLive(w) PROVE Closes
  <2>1. live[w] # None /\ CloseTx(live[w])
    BY <1>2 DEF DiscardLive
  <2> QED
    BY <1>1, <2>1 DEF Held
<1>3. ASSUME NEW w \in Workers, pc[w] \in {"request", "taken"},
             pc[w] = "taken" => ~call[job[w]].flag,
             tx' = [tx EXCEPT ![job[w]] = "open"] \/ RunAndClose(job[w]) \/ LoseTx(job[w])
      PROVE  Own
  <2>1. tx[job[w]] = "none" /\ job[w] \in Calls
    BY <1>3, AtWork DEF WorkerOK
  <2>2. c = job[w]
    BY <1>3, <2>1 DEF RunAndClose, CloseTx, LoseTx, TypeOK
  <2> QED
    BY <1>3, <2>1, <2>2
<1>4. ASSUME NEW w \in Workers, WorkerStep(w) PROVE Closes \/ Own
  <2>1. CASE Request(w)
    BY <1>3, <2>1 DEF Request, RequestEarly, RequestPlain, RequestFails, RequestKeep
  <2>2. CASE Publish(w)
    BY <1>2, <2>2 DEF Publish, PublishFails, OfferRefused, OfferPark
  <2>3. CASE Refused(w)
    BY <1>2, <2>3 DEF Refused
  <2>4. CASE Response(w)
    BY <1>2, <1>3, <2>4 DEF Response, ResponseSkip, ResponseLost, ResponseUnknown,
                            ResponseBody, ResponseResume, ResponseRebuild
  <2>5. CASE ResumeDone(w)
    <3>1. live[w] \in Held(w) /\ w \in Procs
      BY <2>5, AtWork DEF ResumeDone, WorkerOK, Held
    <3> QED
      BY <1>1, <2>5, <3>1 DEF ResumeDone
  <2>6. CASE Panics(w)
    <3>1. CASE DropLive(w)
      BY <1>1, <3>1 DEF DropLive, Held
    <3>2. CASE DropOwn(w)
      BY <1>3, <3>2 DEF DropOwn, RunAndClose
    <3> QED
      BY <2>6, <3>1, <3>2 DEF Panics
  <2> QED
    BY <1>4, <2>1, <2>2, <2>3, <2>4, <2>5, <2>6 DEF WorkerStep, Park, Offered, Take
<1>5. ASSUME NEW p \in Procs, Discard(p) PROVE Closes
  BY <1>1, <1>5 DEF Discard, Held
<1> QED
  BY <1>4, <1>5 DEF Next, vars, Start, Shed, Drop, Sweep, CloseRegistry, Terminate,
                    Drained, Tick

\* The registry loses entries, or gets the transaction a worker parks.
LEMMA ItemChange ==
    ASSUME TypeOK, ControlOK, [Next]_vars, NEW k \in Tokens, item'[k] # None
    PROVE  \/ item'[k] = item[k]
           \/ \E w \in Workers : Park(w) /\ ParkRoom(w) /\ k = call[job[w]].token
                                 /\ item'[k] = live[w]
<1> USE DEF TypeOK
<1>1. ASSUME NEW w \in Workers, WorkerStep(w)
      PROVE  item'[k] = item[k] \/ (Park(w) /\ ParkRoom(w) /\ k = call[job[w]].token
                                    /\ item'[k] = live[w])
  <2>1. CASE Park(w)
    BY <2>1 DEF Park, ParkFull, ParkRoom
  <2>2. CASE Take(w)
    BY <2>2 DEF Take
  <2> QED
    BY <1>1, <2>1, <2>2
       DEF WorkerStep, Request, Publish, Refused, Offered, Response, ResumeDone, Panics, regVars
<1> QED
  BY <1>1 DEF Next, vars, regVars, Start, Shed, Discard, Drop, Sweep, CloseRegistry,
              Terminate, Drained, Tick

\* What a goroutine has to close, it had before or took out of the registry.
LEMMA TodoChange ==
    ASSUME TypeOK, ControlOK, [Next]_vars, NEW p \in Procs, NEW x \in todo'[p]
    PROVE  x \in todo[p] \/ \E k \in Parked : x = item[k]
<1> USE DEF TypeOK, Procs
<1>1. ASSUME NEW w \in Workers, WorkerStep(w)
      PROVE  x \in todo[p] \/ \E k \in Parked : x = item[k]
  <2>1. CASE ParkFull(w)
    <3>1. todo' = [todo EXCEPT ![w] = {item[k] : k \in Overdue}]
      BY <2>1 DEF ParkFull
    <3> QED
      BY <3>1 DEF Overdue
  <2>2. CASE ParkRoom(w)
    <3>1. todo' = [todo EXCEPT ![w] = {item[k] : k \in Gone(call[job[w]].token)}]
      BY <2>2 DEF ParkRoom
    <3>2. Gone(call[job[w]].token) \subseteq Parked
      BY DEF Gone, Overdue
    <3> HIDE DEF TypeOK
    <3>3. todo \in [Procs -> SUBSET Calls] /\ w \in Procs
      BY DEF TypeOK
    <3> QED
      BY <3>1, <3>2, <3>3
  <2>3. CASE Take(w)
    <3>1. todo' = [todo EXCEPT ![w] = {item[j] : j \in Overdue \cap {call[job[w]].token}}]
      BY <2>3 DEF Take
    <3> QED
      BY <3>1 DEF Overdue
  <2> QED
    BY <1>1, <2>1, <2>2, <2>3
       DEF WorkerStep, Park, Request, Publish, Refused, Offered, Response, ResumeDone, Panics
<1>2. ASSUME NEW q \in Procs, Discard(q) PROVE x \in todo[p]
  BY <1>2 DEF Discard
<1>3. ASSUME NEW k \in Tokens, Drop(k) PROVE x \in todo[p] \/ \E j \in Parked : x = item[j]
  BY <1>3 DEF Drop
<1>4. CASE Sweep \/ CloseRegistry
  BY <1>4 DEF Sweep, CloseRegistry, Overdue
<1> QED
  BY <1>1, <1>2, <1>3, <1>4 DEF Next, vars, Start, Shed, Terminate, Drained, Tick

\* At the start nothing was kept.
LEMMA HistoryInit == Init => History
BY ResumeAssumption DEF Init, History, ParkedKept, TodoKept, TakenKept, ResumedKept,
   ResumedOnce, RequireNeverRebuilds, Parked, NoCall, Procs

\* A token's slot is taken over by a transaction that is being offered.
LEMMA ParkedStep ==
    ASSUME TypeOK, ControlOK, [Next]_vars, ParkedKept
    PROVE  ParkedKept'
<1> SUFFICES ASSUME NEW k \in Tokens, item'[k] # None PROVE KeptFor(item[k], k)'
  BY DEF ParkedKept, Parked
<1>1. CASE item'[k] = item[k]
  <2>1. PICK x \in Calls : x = item[k]
    BY <1>1 DEF TypeOK
  <2>2. KeptFor(x, k)'
    BY <1>1, <2>1, KeptStays DEF ParkedKept, Parked
  <2> QED
    BY <1>1, <2>1, <2>2 DEF KeptFor
<1>2. ASSUME NEW w \in Workers, Park(w), ParkRoom(w), k = call[job[w]].token,
             item'[k] = live[w]
      PROVE  KeptFor(item[k], k)'
  <2>1. pc[w] = "park" /\ call' = call /\ job' = job /\ pc'[w] = "parked"
    BY <1>2 DEF Park, ParkRoom, Goto, TypeOK, Procs
  <2>2. /\ live[w] = job[w] /\ call[job[w]].phase = "request" /\ call[job[w]].flag
    BY <2>1, AtWork DEF WorkerOK, WantsResume
  <2> QED
    BY <1>2, <2>1, <2>2 DEF KeptFor
<1> QED
  BY <1>1, <1>2, ItemChange

\* What leaves the registry for closing had been kept.
LEMMA TodoStep ==
    ASSUME TypeOK, ControlOK, [Next]_vars, ParkedKept, TodoKept
    PROVE  TodoKept'
<1> SUFFICES ASSUME NEW p \in Procs, NEW x \in todo'[p] PROVE KeptFor(x, call[x].token)'
  BY DEF TodoKept
<1>1. PICK k \in Tokens : x \in Calls /\ KeptFor(x, k)
  <2>1. CASE x \in todo[p]
    <3>1. x \in Calls /\ call[x] \in CallForms \cup {NoCall}
      BY <2>1 DEF TypeOK
    <3>2. KeptFor(x, call[x].token) /\ call[x].phase = "request"
      BY <2>1 DEF TodoKept, KeptFor
    <3>3. call[x].token \in Tokens
      BY <3>1, <3>2 DEF CallForms, NoCall
    <3> QED
      BY <3>1, <3>2, <3>3
  <2>2. ASSUME NEW j \in Parked, x = item[j] PROVE x \in Calls /\ KeptFor(x, j)
    BY <2>2 DEF ParkedKept, Parked, TypeOK
  <2> QED
    BY <2>1, <2>2, TodoChange DEF Parked
<1>2. KeptFor(x, k)'
  BY <1>1, KeptStays
<1> QED
  BY <1>2 DEF KeptFor

\* A response call takes what was kept for its token.
LEMMA TakenStep ==
    ASSUME TypeOK, ControlOK, [Next]_vars, ParkedKept, TakenKept
    PROVE  TakenKept'
<1> SUFFICES ASSUME NEW w \in Workers, pc'[w] \in {"taken", "resuming"}, live'[w] # None
             PROVE  KeptFor(live[w], call[job[w]].token)'
  BY DEF TakenKept
<1>1. /\ pc[w] # "idle" /\ job'[w] = job[w] /\ call'[job[w]] = call[job[w]]
      /\ \/ pc[w] \in {"taken", "resuming"} /\ live'[w] = live[w]
         \/ Take(w)
  <2>1. CASE WorkerStep(w)
    BY <2>1 DEF WorkerStep, Request, RequestEarly, RequestPlain, RequestFails, RequestKeep,
                Publish, PublishFails, OfferRefused, OfferPark, Park, ParkFull, ParkRoom,
                Refused, Offered, Take, Response, ResponseSkip, ResponseLost, ResponseUnknown,
                ResponseBody, ResponseResume, ResponseRebuild, ResumeDone, Panics, Send, Goto,
                TypeOK, Procs
  <2>2. ASSUME NEW v \in Workers \ {w}, WorkerStep(v)
        PROVE  /\ pc'[w] = pc[w] /\ job'[w] = job[w] /\ live'[w] = live[w] /\ call' = call
    BY <2>2, WorkerLocal
  <2>3. CASE ~\E v \in Workers : WorkerStep(v)
    <3>1. pc[w] # "idle"
      BY <2>3 DEF Next, vars, workVars, Start, Shed, Discard, Drop, Sweep, CloseRegistry,
                  Terminate, Drained, Tick, Goto, CallForms, TypeOK, Procs
    <3> QED
      BY <2>3, <3>1, OthersLocal, AtWork DEF CallForms, NoCall
  <2> QED
    BY <2>1, <2>2, <2>3, SMTT(20)
<1>2. PICK k \in Tokens, x \in Calls : k = call[job[w]].token /\ x = live'[w] /\ KeptFor(x, k)
  <2>1. call[job[w]].token \in Tokens
    BY <1>1, AtWork DEF CallForms
  <2>2. CASE pc[w] \in {"taken", "resuming"} /\ live'[w] = live[w]
    BY <2>1, <2>2, AtWork DEF TakenKept
  <2>3. CASE Take(w)
    BY <2>1, <2>3 DEF Take, ParkedKept, Parked, TypeOK, Procs
  <2> QED
    BY <1>1, <2>2, <2>3
<1>3. KeptFor(x, k)'
  BY <1>2, KeptStays
<1> QED
  BY <1>1, <1>2, <1>3 DEF KeptFor

\* Nobody stops resuming without closing the transaction and answering the call.
LEMMA ResumingStep ==
    ASSUME TypeOK, ControlOK, TransactionOwned, [Next]_vars, NEW c \in Calls, Resuming(c)
    PROVE  \/ Resuming(c)' /\ resumed'[c] = resumed[c]
           \/ /\ resumed' = resumed /\ resumed[c] \in Calls
              /\ tx'[resumed[c]] = "closed" /\ reply'[c] # NoReply
<1>1. PICK w \in Workers : job[w] = c /\ pc[w] = "resuming"
  BY DEF Resuming
<1>2. CASE WorkerStep(w)
  <2>1. ResumeDone(w) \/ Panics(w)
    BY <1>1, <1>2 DEF WorkerStep, Request, Publish, Park, Refused, Offered, Take, Response
  <2>2. live[w] \in Calls /\ resumed[c] = live[w]
    BY <1>1, AtWork DEF WorkerOK
  <2>3. CloseTx(live[w])
    BY <1>1, <2>1, <2>2, ResumeAssumption DEF ResumeDone, Panics, DropLive, DropOwn
  <2> QED
    BY <1>1, <2>1, <2>2, <2>3 DEF ResumeDone, Panics, CloseTx, Send, TypeOK, NoReply, Verdicts
<1>3. ASSUME NEW v \in Workers \ {w}, WorkerStep(v)
      PROVE  Resuming(c)' /\ resumed'[c] = resumed[c]
  <2>1. job[v] # c
    BY <1>1, AtWork
  <2> QED
    BY <1>1, <1>3, <2>1, WorkerLocal DEF Resuming
<1>4. CASE ~\E v \in Workers : WorkerStep(v)
  BY <1>1, <1>4, OthersLocal DEF Resuming
<1> QED
  BY <1>2, <1>3, <1>4

\* A call resumes a transaction by a step of its own.
LEMMA ResumedChange ==
    ASSUME TypeOK, ControlOK, [Next]_vars, NEW c \in Calls, resumed'[c] # resumed[c]
    PROVE  \E w \in Workers :
              /\ job[w] = c /\ pc[w] = "taken" /\ live[w] \in Calls
              /\ resumed' = [resumed EXCEPT ![c] = live[w]]
              /\ job' = job /\ call' = call /\ reply' = reply /\ pc'[w] = "resuming"
<1>1. PICK w \in Workers : WorkerStep(w)
  BY OthersLocal
<1>2. Response(w) /\ ResponseResume(w)
  BY <1>1 DEF WorkerStep, Request, Publish, Park, Refused, Offered, Take, Response, ResumeDone,
              Panics, ResponseSkip, ResponseLost, ResponseUnknown, ResponseBody, ResponseRebuild
<1> QED
  BY <1>1, <1>2, AtWork DEF Response, ResponseResume, Goto, TypeOK, Procs

\* A resumed transaction was kept for the token of the response, and is closed
\* before the response is answered.
LEMMA ResumedStep ==
    ASSUME TypeOK, ControlOK, TransactionOwned, [Next]_vars, TakenKept, ResumedKept
    PROVE  ResumedKept'
<1> SUFFICES ASSUME NEW c \in Calls, resumed'[c] # None
             PROVE  /\ KeptFor(resumed[c], call[c].token)'
                    /\ tx'[resumed'[c]] = "closed" \/ Resuming(c)'
                    /\ reply'[c] # NoReply \/ Resuming(c)'
  BY DEF ResumedKept
<1>1. CASE resumed'[c] = resumed[c]
  <2>1. PICK x \in Calls, k \in Tokens : x = resumed[c] /\ k = call[c].token /\ KeptFor(x, k)
    BY <1>1 DEF ResumedKept, ControlOK, TypeOK, CallForms
  <2>2. KeptFor(x, k)'
    BY <2>1, KeptStays
  <2>3. call[c] # NoCall /\ call'[c] = call[c]
    <3>1. call[c] # NoCall
      BY <1>1 DEF ControlOK
    <3> QED
      BY <3>1, WorkerLocal, OthersLocal
  <2>4. tx[x] = "closed" => tx'[x] = "closed"
    BY <2>1, TxChange
  <2>5. reply[c] # NoReply => reply'[c] = reply[c]
    BY AnswerStays
  <2>6. tx'[x] = "closed" \/ Resuming(c)'
    BY <1>1, <2>1, <2>4, ResumingStep DEF ResumedKept
  <2>7. reply'[c] # NoReply \/ Resuming(c)'
    BY <1>1, <2>5, ResumingStep DEF ResumedKept
  <2> QED
    BY <1>1, <2>1, <2>2, <2>3, <2>6, <2>7 DEF KeptFor
<1>2. CASE resumed'[c] # resumed[c]
  <2>1. PICK w \in Workers :
              /\ job[w] = c /\ pc[w] = "taken" /\ live[w] \in Calls
              /\ resumed' = [resumed EXCEPT ![c] = live[w]]
              /\ job' = job /\ call' = call /\ reply' = reply /\ pc'[w] = "resuming"
    BY <1>2, ResumedChange
  <2>2. PICK x \in Calls, k \in Tokens : x = live[w] /\ k = call[c].token /\ KeptFor(x, k)
    BY <2>1, AtWork, ResumeAssumption DEF TakenKept, CallForms
  <2>3. KeptFor(x, k)'
    BY <2>2, KeptStays
  <2> QED
    BY <2>1, <2>2, <2>3 DEF KeptFor, Resuming, TypeOK
<1> QED
  BY <1>1, <1>2

\* Whoever resumes a transaction owns it, and whoever resumed it before him has
\* closed it or is at it, so it was never his to take.
LEMMA OnceStep ==
    ASSUME TypeOK, ControlOK, TransactionOwned, [Next]_vars, ResumedKept, ResumedOnce
    PROVE  ResumedOnce'
<1>1. ASSUME NEW w \in Workers, pc[w] = "taken", live[w] \in Calls, NEW d \in Calls
      PROVE  resumed[d] # live[w]
  <2> SUFFICES ASSUME resumed[d] = live[w] PROVE FALSE
    OBVIOUS
  <2>1. tx[live[w]] = "open"
    BY <1>1, ResumeAssumption DEF TransactionOwned, OpenIsOwned, Held, Procs
  <2>2. PICK v \in Workers : job[v] = d /\ pc[v] = "resuming"
    BY <1>1, <2>1, ResumeAssumption DEF ResumedKept, Resuming
  <2>3. live[v] = live[w] /\ v # w
    BY <1>1, <2>2, AtWork DEF WorkerOK
  <2> QED
    BY <1>1, <2>3, ResumeAssumption DEF TransactionOwned, OneOwner, Held, Procs
<1> SUFFICES ASSUME NEW c \in Calls, NEW d \in Calls, resumed'[c] # None,
                    resumed'[c] = resumed'[d], c # d
             PROVE  FALSE
  BY DEF ResumedOnce
<1>2. ASSUME NEW e \in Calls, NEW f \in Calls, e # f, resumed'[e] # resumed[e],
             resumed'[e] = resumed'[f]
      PROVE  FALSE
  BY <1>1, <1>2, ResumedChange DEF TypeOK
<1> QED
  BY <1>2 DEF ResumedOnce

\* A response that requires the kept state opens no transaction of its own.
LEMMA RequireStep ==
    ASSUME TypeOK, ControlOK, TransactionOwned, [Next]_vars, RequireNeverRebuilds
    PROVE  RequireNeverRebuilds'
<1> SUFFICES ASSUME NEW c \in Calls, call'[c].phase = "response", call'[c].flag
             PROVE  tx'[c] = "none"
  BY DEF RequireNeverRebuilds
<1>1. CASE call[c] = NoCall
  <2>1. tx[c] = "none" /\ \A w \in Workers : job[w] # c
    BY <1>1, ResumeAssumption DEF ControlOK, WorkerOK
  <2> QED
    BY <2>1, TxChange
<1>2. CASE call[c] # NoCall
  <2>1. call'[c] = call[c] /\ tx[c] = "none"
    BY <1>2, WorkerLocal, OthersLocal DEF RequireNeverRebuilds
  <2> QED
    BY <2>1, TxChange, AtWork DEF WorkerOK
<1> QED
  BY <1>1, <1>2

\* The history is an invariant, together with the types, the control state and
\* the ownership of the transactions.
LEMMA HistoryInvariant == Spec => []History
<1>1. TypeOK /\ ControlOK /\ TransactionOwned /\ History /\ [Next]_vars => History'
  BY ParkedStep, TodoStep, TakenStep, ResumedStep, OnceStep, RequireStep DEF History
<1> QED
  BY <1>1, HistoryInit, CoreInvariant, PTL DEF Spec

\* A response is judged on the transaction its own request left behind (same
\* token, asked to be kept, offered unless the request panicked), no two responses on the same one, and one
\* that requires that state on nothing else.
THEOREM ResumeIsFaithful == Spec => []ResumesItsOwn
<1>1. TypeOK /\ ControlOK /\ History => ResumesItsOwn
  <2> SUFFICES ASSUME TypeOK, ControlOK, History, NEW c \in Calls, resumed[c] # None
               PROVE  LET x == resumed[c]
                      IN  /\ call[x].phase = "request" /\ call[x].flag
                          /\ call[x].token = call[c].token
                          /\ reply[x] # NoReply => Settled(x)
    BY DEF Settled, ResumesItsOwn, History, RightTransaction
  <2>1. KeptFor(resumed[c], call[c].token)
    BY DEF History, ResumedKept
  <2>2. \A w \in Workers : job[w] = resumed[c] /\ pc[w] = "parked" => reply[resumed[c]] = NoReply
    BY AtWork
  <2> QED
    BY <2>1, <2>2 DEF KeptFor
<1> QED
  BY <1>1, HistoryInvariant, CoreInvariant, PTL

-----------------------------------------------------------------------------
(* What replies without an offer leave behind.                             *)

\* Only a panic loses a transaction: that of its own call, or the one the worker
\* has in its hands.
LEMMA OnlyPanicsLose ==
    ASSUME TypeOK, ControlOK, [Next]_vars, NEW x \in Calls, tx[x] # "leaked", tx'[x] = "leaked"
    PROVE  \E w \in Workers : Panics(w) /\ (x = job[w] \/ x = live[w])
<1> USE DEF TypeOK, txVars
<1>1. ASSUME NEW y, CloseTx(y) PROVE FALSE
  BY <1>1 DEF CloseTx
<1>2. ASSUME NEW w \in Workers, Panics(w) PROVE x = job[w] \/ x = live[w]
  BY <1>1, <1>2 DEF Panics, DropLive, DropOwn, LoseTx
<1>3. ASSUME NEW w \in Workers, WorkerStep(w), ~Panics(w) PROVE FALSE
  <2>1. CASE Request(w)
    BY <1>1, <2>1 DEF Request, RequestEarly, RequestPlain, RequestFails, RequestKeep, RunAndClose
  <2>2. CASE Publish(w)
    BY <1>1, <2>2 DEF Publish, PublishFails, OfferRefused, OfferPark, DiscardLive
  <2>3. CASE Response(w)
    BY <1>1, <2>3 DEF Response, ResponseSkip, ResponseLost, ResponseUnknown, ResponseBody,
                      ResponseResume, ResponseRebuild, DiscardLive, RunAndClose
  <2> QED
    BY <1>1, <1>3, <2>1, <2>2, <2>3
       DEF WorkerStep, Refused, ResumeDone, DiscardLive, Park, Offered, Take
<1> QED
  BY <1>1, <1>2, <1>3 DEF Next, vars, Start, Shed, Discard, Drop, Sweep, CloseRegistry,
                          Terminate, Drained, Tick

\* A lost transaction is that of a call that panicked, or was kept and taken by
\* one that did; either way a call with its token was answered out of a panic.
Lost ==
    \A x \in Calls : tx[x] = "leaked" =>
        /\ call[x] # NoCall
        /\ reply[x].verdict = "panic" \/ KeptFor(x, call[x].token)
        /\ \E c \in Calls : reply[c].verdict = "panic" /\ call[c].token = call[x].token

\* A panic answers its call in the step in which it loses the transaction.
LEMMA LostStep ==
    ASSUME TypeOK, ControlOK, TransactionOwned, TakenKept, Lost, [Next]_vars
    PROVE  Lost'
<1> SUFFICES ASSUME NEW x \in Calls, tx'[x] = "leaked"
             PROVE  /\ call'[x] # NoCall
                    /\ reply'[x].verdict = "panic" \/ KeptFor(x, call[x].token)'
                    /\ \E c \in Calls : reply'[c].verdict = "panic"
                                        /\ call'[c].token = call'[x].token
  BY DEF Lost
<1>1. ASSUME NEW c \in Calls, reply[c].verdict = "panic"
      PROVE  reply'[c].verdict = "panic" /\ call'[c] = call[c] /\ call[c] # NoCall
  BY <1>1, AnswerStays DEF NoReply
<1>2. ASSUME call[x] # NoCall, KeptFor(x, call[x].token)
      PROVE  KeptFor(x, call[x].token)'
  <2>1. PICK k \in Tokens : k = call[x].token
    BY <1>2 DEF TypeOK, CallForms
  <2>2. KeptFor(x, k)'
    BY <1>2, <2>1, KeptStays
  <2> QED
    BY <2>2 DEF KeptFor
<1>3. ASSUME call[x] # NoCall PROVE call'[x] = call[x]
  BY <1>3, WorkerLocal, OthersLocal
<1>4. CASE tx[x] = "leaked"
  <2>1. PICK c \in Calls : reply[c].verdict = "panic" /\ call[c].token = call[x].token
    BY <1>4 DEF Lost
  <2> QED
    BY <1>1, <1>2, <1>3, <1>4, <2>1 DEF Lost
<1>5. CASE tx[x] # "leaked"
  <2>1. PICK w \in Workers : Panics(w) /\ (x = job[w] \/ x = live[w])
    BY <1>5, OnlyPanicsLose
  <2>2. pc[w] # "idle" /\ call' = call
    BY <2>1 DEF Panics
  <2>3. PICK c \in Calls : c = job[w] /\ call[c] # NoCall
    BY <2>2, AtWork DEF ControlOK, WorkerOK
  <2>4. reply'[c].verdict = "panic"
    BY <2>1, <2>3 DEF Panics, Send, TypeOK
  <2>5. CASE x = c
    BY <2>2, <2>3, <2>4, <2>5
  <2>6. CASE x # c
    <3>1. x = live[w] /\ pc[w] \in {"taken", "resuming"}
      BY <2>1, <2>2, <2>3, <2>6, AtWork, ResumeAssumption DEF WorkerOK, Labels
    <3>2. KeptFor(x, call[c].token)
      BY <2>3, <3>1, ResumeAssumption DEF TakenKept
    <3>3. call[x] # NoCall /\ call[x].token = call[c].token
      BY <3>2 DEF KeptFor, NoCall
    <3> QED
      BY <1>2, <1>3, <2>2, <2>3, <2>4, <3>2, <3>3
  <2> QED
    BY <2>5, <2>6
<1> QED
  BY <1>4, <1>5

\* Apart from panics, a call answered without an offer leaves no transaction
\* open or lost: an open one is still in the hands of the worker that evaluates
\* its call, or was kept, and then the offer was made. A lost one has a call with
\* its token that was answered out of a panic.
THEOREM NothingKeptWithoutOffer == Spec => []NoOffersNoState
<1>1. TypeOK /\ ControlOK /\ TransactionOwned /\ History /\ Lost => NoOffersNoState
  <2> SUFFICES ASSUME TypeOK, ControlOK, TransactionOwned, History, Lost
               PROVE  ClosedBeforeReply
    BY DEF NoOffersNoState, LostByPanic, Lost
  <2> SUFFICES ASSUME NEW c \in Calls, reply[c] # NoReply, ~reply[c].cont,
                      reply[c].verdict # "panic", tx[c] \in {"open", "leaked"}
               PROVE  FALSE
    BY DEF ClosedBeforeReply
  <2>1. ASSUME NEW k, KeptFor(c, k) PROVE FALSE
    BY <2>1, AtWork DEF KeptFor, Settled
  <2>2. tx[c] = "open"
    BY <2>1 DEF Lost
  <2>3. PICK p \in Procs : c = live[p]
    BY <2>1, <2>2, ResumeAssumption
       DEF TransactionOwned, OpenIsOwned, Held, History, ParkedKept, TodoKept, Parked
  <2>4. p \in Workers /\ pc[p] # "idle" /\ live[p] # None
    BY <2>3, ResumeAssumption DEF ControlOK, WorkerOK, Procs
  <2>5. CASE pc[p] \in {"taken", "resuming"}
    BY <2>1, <2>3, <2>4, <2>5 DEF History, TakenKept
  <2>6. CASE pc[p] \notin {"taken", "resuming"}
    BY <2>3, <2>4, <2>6, AtWork DEF WorkerOK, Labels
  <2> QED
    BY <2>5, <2>6
<1>2. Init => Lost
  BY DEF Init, Lost
<1>3. TypeOK /\ ControlOK /\ TransactionOwned /\ History /\ Lost /\ [Next]_vars => Lost'
  BY LostStep DEF History
<1>4. Spec => []Lost
  BY <1>2, <1>3, HistoryInvariant, CoreInvariant, PTL DEF Spec
<1> QED
  BY <1>1, <1>4, HistoryInvariant, CoreInvariant, PTL

-----------------------------------------------------------------------------
(* The bound of the registry.                                              *)

\* What is parked is a finite set of tokens.
LEMMA ParkedFinite ==
    /\ IsFiniteSet(Parked) /\ Cardinality(Parked) \in Nat
    /\ IsFiniteSet(Parked') /\ Cardinality(Parked') \in Nat
BY ResumeAssumption, FS_Subset, FS_CardinalityType DEF Parked

\* The registry never holds more than its limit: Park counts what is left after
\* the expired entries are gone, and adds one entry at most.
THEOREM RegistryWithinLimit == Spec => []RegistryBounded
<1>1. Init => RegistryBounded
  <2> SUFFICES ASSUME Init PROVE Parked = {}
    BY FS_EmptySet, ResumeAssumption DEF RegistryBounded
  <2> QED
    BY DEF Init, Parked
<1>2. TypeOK /\ ControlOK /\ RegistryBounded /\ [Next]_vars => RegistryBounded'
  <2> SUFFICES ASSUME TypeOK, ControlOK, RegistryBounded, [Next]_vars
               PROVE  Cardinality(Parked') <= Max
    BY DEF RegistryBounded
  <2>1. CASE Parked' \subseteq Parked
    <3>1. Cardinality(Parked') <= Cardinality(Parked)
      BY <2>1, ParkedFinite, FS_Subset
    <3> QED
      BY <3>1, ParkedFinite, ResumeAssumption DEF RegistryBounded
  <2>2. ASSUME NEW w \in Workers, Park(w), ParkRoom(w) PROVE Cardinality(Parked') <= Max
    <3> DEFINE rest == Parked \ Overdue
               token == call[job[w]].token
    <3>1. Parked' \subseteq rest \cup {token}
      BY <2>2 DEF ParkRoom, Parked
    <3>2. IsFiniteSet(rest) /\ Cardinality(rest) \in Nat /\ Cardinality(rest) < Max
      BY <2>2, ParkedFinite, FS_Subset, FS_CardinalityType DEF ParkRoom, HasRoom
    <3>3. /\ IsFiniteSet(rest \cup {token})
          /\ Cardinality(rest \cup {token}) \in Nat
          /\ Cardinality(rest \cup {token}) <= Cardinality(rest) + 1
      <4> HIDE DEF rest, token
      <4>1. /\ IsFiniteSet(rest \cup {token})
            /\ Cardinality(rest \cup {token})
                 = IF token \in rest THEN Cardinality(rest) ELSE Cardinality(rest) + 1
        BY <3>2, FS_AddElement
      <4> QED
        BY <3>2, <4>1
    <3>4. Cardinality(Parked') <= Cardinality(rest \cup {token})
      BY <3>1, <3>3, FS_Subset
    <3> HIDE DEF rest, token
    <3> QED
      BY <3>2, <3>3, <3>4, ParkedFinite, ResumeAssumption
  <2>3. CASE ~\E w \in Workers : Park(w) /\ ParkRoom(w)
    BY <2>1, <2>3, ItemChange DEF Parked
  <2> QED
    BY <2>2, <2>3
<1> QED
  BY <1>1, <1>2, CoreInvariant, PTL DEF Spec

-----------------------------------------------------------------------------
(* Resume implements Sessions.                                             *)

\* How far a transaction has come follows from its one owner.
PlaceOK ==
    \A x \in Calls :
        /\ tx[x] = "none" => Place(x) = "new"
        /\ tx[x] = "closed" => Place(x) = "closed"
        /\ tx[x] = "leaked" => Place(x) = "leaked"
        /\ \A k \in Tokens : item[k] = x => Place(x) = "kept"
        /\ \A p \in Procs : x \in todo[p] => Place(x) = "forgotten"
        /\ \A w \in Workers : live[w] = x =>
              /\ pc[w] = "taken" => Place(x) = "taken"
              /\ pc[w] = "resuming" => Place(x) = "resumed"
              /\ pc[w] \notin {"taken", "resuming"} => Place(x) = "open"

\* One owner, one place.
LEMMA PlaceDetermined == TypeOK /\ ControlOK /\ TransactionOwned => PlaceOK
<1> SUFFICES ASSUME TypeOK, ControlOK, TransactionOwned PROVE PlaceOK
  OBVIOUS
<1> USE ResumeAssumption DEF TransactionOwned, OneOwner, OpenIsOwned, Held
<1>1. ASSUME NEW x \in Calls, tx[x] # "open"
      PROVE  Place(x) = IF tx[x] = "none" THEN "new" ELSE tx[x]
  BY <1>1 DEF Place, TypeOK
<1>2. ASSUME NEW x \in Calls, tx[x] = "open" PROVE Place(x) = OwnedAs(x)
  BY <1>2 DEF Place
<1>3. ASSUME NEW x \in Calls, NEW k \in Tokens, item[k] = x PROVE Place(x) = "kept"
  BY <1>2, <1>3 DEF OwnedAs
<1>4. ASSUME NEW x \in Calls, NEW p \in Procs, x \in todo[p] PROVE Place(x) = "forgotten"
  <2>1. tx[x] = "open" /\ \A k \in Tokens : item[k] # x
    BY <1>4
  <2> QED
    BY <1>2, <1>4, <2>1 DEF OwnedAs
<1>5. ASSUME NEW x \in Calls, NEW w \in Workers, live[w] = x
      PROVE  /\ pc[w] = "taken" => Place(x) = "taken"
             /\ pc[w] = "resuming" => Place(x) = "resumed"
             /\ pc[w] \notin {"taken", "resuming"} => Place(x) = "open"
  <2>1. w \in Procs /\ \A v \in Workers : v \in Procs
    BY DEF Procs
  <2>2. tx[x] = "open" /\ (\A k \in Tokens : item[k] # x) /\ (\A p \in Procs : x \notin todo[p])
    BY <1>5, <2>1
  <2>3. \A v \in Workers : live[v] = x => v = w
    BY <1>5, <2>1
  <2> QED
    BY <1>2, <1>5, <2>2, <2>3 DEF OwnedAs
<1> QED
  BY <1>1, <1>3, <1>4, <1>5 DEF PlaceOK

\* Everything that is known of a state, and of the places in it.
Known == TypeOK /\ ControlOK /\ TransactionOwned /\ History /\ PlaceOK

\* A transaction that keeps its state and its owner keeps its place.
LEMMA SamePlace ==
    ASSUME Known, Known', NEW y \in Calls, tx'[y] = tx[y],
           \A k \in Tokens : item[k] = y => item'[k] = y,
           \A p \in Procs : y \in todo[p] => y \in todo'[p],
           \A w \in Workers : live[w] = y =>
              /\ live'[w] = y
              /\ \/ pc'[w] = pc[w]
                 \/ pc[w] \notin {"taken", "resuming"} /\ pc'[w] \notin {"taken", "resuming"}
    PROVE  Place(y)' = Place(y)
<1>0. PlaceOK /\ PlaceOK'
  BY DEF Known
<1>1. CASE tx[y] # "open"
  <2>1. tx[y] \in {"none", "closed", "leaked"}
    BY <1>1 DEF Known, TypeOK
  <2>2. ASSUME NEW s \in {"none", "closed", "leaked"}, tx[y] = s PROVE Place(y)' = Place(y)
    BY <1>0, <2>2 DEF PlaceOK
  <2> QED
    BY <2>1, <2>2
<1>2. CASE tx[y] = "open"
  <2>1. \/ \E k \in Tokens : item[k] = y
        \/ \E p \in Procs : y \in todo[p]
        \/ \E w \in Workers : live[w] = y
    BY <1>2, ResumeAssumption DEF Known, TransactionOwned, OpenIsOwned, Held, Procs, ControlOK
  <2>2. ASSUME NEW k \in Tokens, item[k] = y PROVE Place(y)' = Place(y)
    BY <2>2 DEF Known, PlaceOK
  <2>3. ASSUME NEW p \in Procs, y \in todo[p] PROVE Place(y)' = Place(y)
    BY <2>3 DEF Known, PlaceOK
  <2>4. ASSUME NEW w \in Workers, live[w] = y PROVE Place(y)' = Place(y)
    <3>1. live'[w] = y
      BY <2>4
    <3>2. /\ pc[w] = "taken" => Place(y) = "taken"
          /\ pc[w] = "resuming" => Place(y) = "resumed"
          /\ pc[w] \notin {"taken", "resuming"} => Place(y) = "open"
      BY <1>0, <2>4 DEF PlaceOK
    <3>3. /\ pc'[w] = "taken" => Place(y)' = "taken"
          /\ pc'[w] = "resuming" => Place(y)' = "resumed"
          /\ pc'[w] \notin {"taken", "resuming"} => Place(y)' = "open"
      BY <1>0, <3>1 DEF PlaceOK
    <3>4. \/ pc'[w] = pc[w]
          \/ pc[w] \notin {"taken", "resuming"} /\ pc'[w] \notin {"taken", "resuming"}
      BY <2>4
    <3> QED
      BY <3>2, <3>3, <3>4
  <2> QED
    BY <2>1, <2>2, <2>3, <2>4
<1> QED
  BY <1>1, <1>2

\* One transaction moves on, the others stay.
LEMMA OneMoves ==
    ASSUME NEW x \in Calls, NEW from, NEW to, Place(x) \in from, Place(x)' = to,
           \A y \in Calls \ {x} : Place(y)' = Place(y)
    PROVE  Promise!Move(x, from, to)
BY DEF Promise!Move

\* A worker answers its call and closes the transaction it owns.
LEMMA SendCloses ==
    ASSUME Known, Known', NEW w \in Workers, NEW v, NEW b, pc[w] # "idle", Send(w, v, b),
           item' = item, todo' = todo, call' = call, resumed' = resumed,
           live[w] # None, CloseTx(live[w])
    PROVE  Promise!Next
<1>1. PICK x \in Calls : x = live[w]
  BY AtWork DEF Known
<1>2. Place(x) \in {"open", "taken", "resumed"} /\ tx'[x] = "closed"
  BY <1>1 DEF Known, PlaceOK, CloseTx, TypeOK
<1>3. Place(x)' = "closed"
  BY <1>2 DEF Known, PlaceOK
<1>4. ASSUME NEW y \in Calls \ {x} PROVE Place(y)' = Place(y)
  <2>1. tx'[y] = tx[y]
    BY <1>1, <1>4 DEF CloseTx, Known, TypeOK
  <2>2. \A u \in Workers : live[u] = y => live'[u] = y /\ pc'[u] = pc[u]
    BY <1>1, <1>4 DEF Send, Known, TypeOK, Procs
  <2> QED
    BY <2>1, <2>2, SamePlace
<1>5. Promise!Move(x, {"open", "taken", "resumed", "forgotten"}, "closed")
  BY <1>2, <1>3, <1>4, OneMoves
<1>6. Promise!Close(x)
  BY <1>5 DEF Promise!Close
<1> QED
  BY <1>6 DEF Promise!Next

\* A worker panics with a transaction in its hands that it does not resume.
LEMMA SendLoses ==
    ASSUME Known, Known', NEW w \in Workers, NEW v, NEW b, pc[w] # "idle", Send(w, v, b),
           item' = item, todo' = todo, call' = call, resumed' = resumed,
           live[w] # None, LoseTx(live[w]), pc[w] # "resuming"
    PROVE  Promise!Next
<1>1. PICK x \in Calls : x = live[w]
  BY AtWork DEF Known
<1>2. Place(x) \in {"open", "taken"} /\ tx'[x] = "leaked"
  BY <1>1 DEF Known, PlaceOK, LoseTx, TypeOK
<1>3. Place(x)' = "leaked"
  BY <1>2 DEF Known, PlaceOK
<1>4. ASSUME NEW y \in Calls \ {x} PROVE Place(y)' = Place(y)
  <2>1. tx'[y] = tx[y]
    BY <1>1, <1>4 DEF LoseTx, Known, TypeOK
  <2>2. \A u \in Workers : live[u] = y => live'[u] = y /\ pc'[u] = pc[u]
    BY <1>1, <1>4 DEF Send, Known, TypeOK, Procs
  <2> QED
    BY <2>1, <2>2, SamePlace
<1>5. Promise!Move(x, {"open", "taken"}, "leaked")
  BY <1>2, <1>3, <1>4, OneMoves
<1>6. Promise!Lose(x)
  BY <1>5 DEF Promise!Lose
<1> QED
  BY <1>6 DEF Promise!Next

\* A step that moves no transaction, and changes no token, slot or heir, is
\* nothing to the promise.
LEMMA Quiet ==
    ASSUME call' = call, item' = item, resumed' = resumed, \A y \in Calls : Place(y)' = Place(y)
    PROVE  UNCHANGED Promise!vars
BY DEF Promise!vars

\* A worker with nothing in its hands answers; its own transaction may have been
\* opened and closed, or lost, in between.
LEMMA SendPlain ==
    ASSUME Known, Known', NEW w \in Workers, NEW v, NEW b, pc[w] # "idle", Send(w, v, b),
           item' = item, todo' = todo, call' = call, resumed' = resumed, live[w] = None,
           \/ UNCHANGED txVars
           \/ tx[job[w]] = "none" /\ (RunAndClose(job[w]) \/ LoseTx(job[w]))
    PROVE  Promise!Next \/ UNCHANGED Promise!vars
<1>1. ASSUME NEW y \in Calls, tx'[y] = tx[y] PROVE Place(y)' = Place(y)
  <2>1. \A u \in Workers : live[u] = y => live'[u] = y /\ pc'[u] = pc[u]
    BY <1>1, ResumeAssumption DEF Send, Known, TypeOK, Procs
  <2> QED
    BY <1>1, <2>1, SamePlace
<1>2. CASE tx' = tx
  BY <1>1, <1>2, Quiet
<1>3. CASE tx' # tx
  <2>1. PICK x \in Calls : x = job[w] /\ call[x].token # None
    BY AtWork, ResumeAssumption DEF Known, CallForms
  <2>2. tx[x] = "none" /\ tx'[x] \in {"closed", "leaked"} /\ \A y \in Calls \ {x} : tx'[y] = tx[y]
    BY <1>3, <2>1 DEF RunAndClose, CloseTx, LoseTx, txVars, Known, TypeOK
  <2>3. Place(x) = "new" /\ Place(x)' = tx'[x]
    BY <2>2 DEF Known, PlaceOK
  <2>4. \A y \in Calls \ {x} : Place(y)' = Place(y)
    BY <1>1, <2>2
  <2>5. Promise!Move(x, {"new"}, "closed") \/ Promise!Move(x, {"new"}, "leaked")
    BY <2>2, <2>3, <2>4 DEF Promise!Move
  <2>6. Promise!Plain(x)
    BY <2>1, <2>5 DEF Promise!Plain
  <2> QED
    BY <2>6 DEF Promise!Next
<1> QED
  BY <1>2, <1>3

\* A worker answers and discards what it has in its hands, if anything.
LEMMA SendDiscards ==
    ASSUME Known, Known', NEW w \in Workers, NEW v, NEW b, pc[w] # "idle", Send(w, v, b),
           item' = item, todo' = todo, call' = call, resumed' = resumed, DiscardLive(w)
    PROVE  Promise!Next \/ UNCHANGED Promise!vars
BY SendPlain, SendCloses DEF DiscardLive

\* What p takes out of the registry, it has on its list: the slots are emptied
\* and their transactions forgotten.
LEMMA ListForgets ==
    ASSUME Known, Known', NEW p \in Procs, NEW K \in SUBSET Tokens, K # {},
           \A k \in K : item[k] # None, todo[p] = {},
           item' = [k \in Tokens |-> IF k \in K THEN None ELSE item[k]],
           todo' = [todo EXCEPT ![p] = {item[k] : k \in K}],
           tx' = tx, call' = call, resumed' = resumed,
           \A u \in Workers : live[u] # None =>
              /\ live'[u] = live[u]
              /\ \/ pc'[u] = pc[u]
                 \/ pc[u] \notin {"taken", "resuming"} /\ pc'[u] \notin {"taken", "resuming"}
    PROVE  Promise!Next
<1>1. todo'[p] = {item[k] : k \in K} /\ \A q \in Procs : q # p => todo'[q] = todo[q]
  BY DEF Known, TypeOK
<1>2. Promise!Forgotten(K) = {item[k] : k \in K}
  BY DEF Promise!Forgotten
<1>3. ASSUME NEW y \in Calls, y \in Promise!Forgotten(K) PROVE Place(y)' = "forgotten"
  BY <1>1, <1>2, <1>3 DEF Known, PlaceOK
<1>4. ASSUME NEW y \in Calls, y \notin Promise!Forgotten(K) PROVE Place(y)' = Place(y)
  <2>1. \A k \in Tokens : item[k] = y => item'[k] = y
    BY <1>2, <1>4
  <2>2. \A q \in Procs : y \in todo[q] => y \in todo'[q]
    BY <1>1
  <2>3. y # None
    BY ResumeAssumption
  <2> QED
    BY <2>1, <2>2, <2>3, SamePlace
<1>5. Promise!Forgotten(K) # {}
  BY <1>2
<1>6. [c \in Calls |-> Place(c)]'
        = [y \in Calls |-> IF y \in Promise!Forgotten(K) THEN "forgotten"
                           ELSE [c \in Calls |-> Place(c)][y]]
  BY <1>3, <1>4
<1>7. Promise!Forget(K)
  BY <1>5, <1>6 DEF Promise!Forget
<1> QED
  BY <1>7 DEF Promise!Next

\* A call arrives, for a worker or to be shed.
LEMMA CallArrives ==
    ASSUME Known, Known', NEW c \in Calls, NEW form \in CallForms,
           Shed(c, form) \/ \E w \in Workers : Start(w, c, form)
    PROVE  Promise!Next
<1>1. ASSUME NEW y \in Calls PROVE Place(y)' = Place(y)
  <2>1. \A u \in Workers : live'[u] = live[u] /\ (pc'[u] = pc[u] \/
          (pc[u] \notin {"taken", "resuming"} /\ pc'[u] \notin {"taken", "resuming"}))
    BY DEF Shed, Start, Goto, workVars, CallForms, Known, TypeOK, Procs
  <2> QED
    BY <2>1, SamePlace DEF Shed, Start, txVars, regVars
<1>2. call[c] = NoCall /\ call' = [call EXCEPT ![c] = form] /\ form.token \in Tokens
  BY DEF Shed, Start, CallForms
<1>3. [d \in Calls |-> call[d].token]'
        = [[d \in Calls |-> call[d].token] EXCEPT ![c] = form.token]
  BY <1>2 DEF Known, TypeOK
<1>4. Promise!Call(c, form.token)
  BY <1>1, <1>2, <1>3 DEF Promise!Call, NoCall, Shed, Start, regVars
<1> QED
  BY <1>2, <1>4 DEF Promise!Next

\* A request call is answered, or its transaction stays open for the offer.
LEMMA RequestImplements ==
    ASSUME Known, Known', NEW w \in Workers, Request(w)
    PROVE  Promise!Next \/ UNCHANGED Promise!vars
<1> USE DEF Request
<1>1. pc[w] # "idle" /\ live[w] = None /\ tx[job[w]] = "none"
  BY AtWork DEF Known, WorkerOK
<1>2. CASE RequestEarly(w) \/ RequestPlain(w) \/ RequestFails(w)
  BY <1>1, <1>2, SendPlain DEF RequestEarly, RequestPlain, RequestFails, regVars
<1>3. CASE RequestKeep(w)
  <2>1. PICK x \in Calls : x = job[w] /\ call[x].token # None /\ w \in Procs
    BY <1>1, AtWork, ResumeAssumption DEF Known, CallForms
  <2>2. live'[w] = x /\ pc'[w] = "publish" /\ tx[x] = "none"
    BY <1>1, <1>3, <2>1 DEF RequestKeep, Goto, Known, TypeOK
  <2>3. Place(x) = "new" /\ Place(x)' = "open"
    BY <2>2 DEF Known, PlaceOK
  <2>4. ASSUME NEW y \in Calls \ {x} PROVE Place(y)' = Place(y)
    <3>1. tx'[y] = tx[y]
      BY <1>3, <2>1, <2>4 DEF RequestKeep, Known, TypeOK
    <3>2. \A u \in Workers : live[u] = y => live'[u] = y /\ pc'[u] = pc[u]
      BY <1>1, <1>3, <2>1, ResumeAssumption DEF RequestKeep, Goto, Known, TypeOK, Procs
    <3> QED
      BY <3>1, <3>2, SamePlace DEF regVars
  <2>5. Promise!Move(x, {"new"}, "open")
    BY <2>3, <2>4, OneMoves
  <2>6. Promise!Open(x)
    BY <2>1, <2>5 DEF Promise!Open, regVars
  <2> QED
    BY <2>6 DEF Promise!Next
<1> QED
  BY <1>2, <1>3

\* The offer is refused, and the transaction closed, or is about to be parked.
LEMMA PublishImplements ==
    ASSUME Known, Known', NEW w \in Workers, Publish(w)
    PROVE  Promise!Next \/ UNCHANGED Promise!vars
<1> USE DEF Publish
<1>1. CASE PublishFails(w) \/ OfferRefused(w)
  BY <1>1, SendDiscards DEF PublishFails, OfferRefused, regVars
<1>2. CASE OfferPark(w)
  <2>1. \A u \in Workers : live'[u] = live[u] /\ (pc'[u] = pc[u] \/
          (pc[u] \notin {"taken", "resuming"} /\ pc'[u] \notin {"taken", "resuming"}))
    BY <1>2 DEF OfferPark, Goto, Known, TypeOK, Procs
  <2>2. \A y \in Calls : Place(y)' = Place(y)
    BY <1>2, <2>1, SamePlace DEF OfferPark, regVars, txVars
  <2> QED
    BY <2>2, Quiet DEF regVars
<1> QED
  BY <1>1, <1>2

\* Park throws out what has expired and what it replaces, and keeps the new
\* transaction if there is room.
LEMMA ParkImplements ==
    ASSUME Known, Known', RegistryBounded', NEW w \in Workers, Park(w)
    PROVE  Promise!Next \/ UNCHANGED Promise!vars
<1> USE DEF Park
<1>1. pc[w] # "idle" /\ todo[w] = {} /\ w \in Procs
  BY AtWork DEF Known, WorkerOK
<1>2. PICK K : K = Overdue
  OBVIOUS
<1>3. K \in SUBSET Tokens /\ \A k \in K : item[k] # None
  BY <1>2 DEF Overdue, Parked
<1>4. CASE ParkFull(w)
  <2>1. \A u \in Workers : live'[u] = live[u] /\ (pc'[u] = pc[u] \/
          (pc[u] \notin {"taken", "resuming"} /\ pc'[u] \notin {"taken", "resuming"}))
    BY <1>4 DEF ParkFull, Goto, Known, TypeOK, Procs
  <2>2. /\ item' = [k \in Tokens |-> IF k \in K THEN None ELSE item[k]]
        /\ todo' = [todo EXCEPT ![w] = {item[k] : k \in K}]
        /\ tx' = tx /\ call' = call /\ resumed' = resumed
    BY <1>2, <1>4 DEF ParkFull, txVars
  <2>3. CASE K # {}
    BY <1>1, <1>3, <2>1, <2>2, <2>3, ListForgets
  <2>4. CASE K = {}
    <3>1. item' = item /\ todo' = todo
      BY <1>1, <2>2, <2>4 DEF Known, TypeOK
    <3>2. \A y \in Calls : Place(y)' = Place(y)
      BY <2>1, <2>2, <3>1, SamePlace
    <3> QED
      BY <2>2, <3>1, <3>2, Quiet
  <2> QED
    BY <2>3, <2>4
<1>5. CASE ParkRoom(w)
  <2>1. PICK x \in Calls : x = job[w] /\ x = live[w]
    BY <1>1, AtWork DEF Known, WorkerOK
  <2>2. PICK t \in Tokens : t = call[x].token
    BY <1>1, <2>1, AtWork DEF Known, CallForms
  <2>3. /\ item' = [k \in Tokens |-> IF k = t THEN x ELSE IF k \in K THEN None ELSE item[k]]
        /\ todo'[w] = {item[k] : k \in Gone(t)} /\ \A q \in Procs : q # w => todo'[q] = todo[q]
        /\ tx' = tx /\ call' = call /\ resumed' = resumed
    BY <1>1, <1>2, <1>5, <2>1, <2>2 DEF ParkRoom, txVars, Known, TypeOK
  <2>4. \A u \in Workers : u # w => live'[u] = live[u] /\ pc'[u] = pc[u]
    BY <1>5 DEF ParkRoom, Goto, Known, TypeOK, Procs
  <2>5. PICK old : old = Promise!Forgotten(K \cup {t})
    OBVIOUS
  <2>6. old = {item[k] : k \in Gone(t)}
    BY <1>2, <2>5 DEF Promise!Forgotten, Gone, Overdue, Parked
  <2>7. Place(x) = "open" /\ x \notin old
    <3>1. Place(x) = "open"
      BY <2>1 DEF Known, PlaceOK
    <3>2. \A k \in Tokens : item[k] # x
      BY <1>1, <2>1, ResumeAssumption DEF Known, TransactionOwned, OneOwner, Held
    <3> QED
      BY <3>1, <3>2, <2>6 DEF Gone, Overdue, Parked
  <2>8. Place(x)' = "kept"
    BY <2>3 DEF Known, PlaceOK
  <2>9. ASSUME NEW y \in Calls \ {x}, y \in old PROVE Place(y)' = "forgotten"
    <3>1. y \in todo'[w] /\ PlaceOK'
      BY <2>3, <2>6, <2>9 DEF Known
    <3> QED
      BY <1>1, <3>1 DEF PlaceOK
  <2>10. ASSUME NEW y \in Calls \ {x}, y \notin old PROVE Place(y)' = Place(y)
    <3>1. \A k \in Tokens : item[k] = y => item'[k] = y
      <4>1. \A k \in Tokens : item[k] = y => k # t /\ k \notin K
        BY <1>2, <2>6, <2>10, ResumeAssumption DEF Gone, Parked
      <4> QED
        BY <2>3, <4>1
    <3>2. \A q \in Procs : y \in todo[q] => y \in todo'[q]
      BY <1>1, <2>3
    <3>3. \A u \in Workers : live[u] = y => live'[u] = y /\ pc'[u] = pc[u]
      BY <2>1, <2>4, <2>10
    <3> QED
      BY <2>3, <3>1, <3>2, <3>3, SamePlace
  <2>11. [c \in Calls |-> Place(c)]'
          = [y \in Calls |-> IF y = x THEN "kept"
                             ELSE IF y \in old THEN "forgotten"
                             ELSE [c \in Calls |-> Place(c)][y]]
    BY <2>7, <2>8, <2>9, <2>10
  <2>12. Cardinality({k \in Tokens : item'[k] # None}) <= Max
    BY DEF RegistryBounded, Parked
  <2>13. t = [c \in Calls |-> call[c].token][x]
    BY <2>2
  <2>14. Promise!Keep(x, K)
    <3>1. [c \in Calls |-> Place(c)][x] = "open"
      BY <2>7
    <3>2. old = Promise!Forgotten(K \cup {[c \in Calls |-> call[c].token][x]})
      BY <2>5, <2>13
    <3>3. item' = [k \in Tokens |-> IF k = [c \in Calls |-> call[c].token][x] THEN x
                                    ELSE IF k \in K THEN None ELSE item[k]]
      BY <2>3, <2>13
    <3>4. [c \in Calls |-> call[c].token]' = [c \in Calls |-> call[c].token] /\ resumed' = resumed
      BY <2>3
    <3>5. Promise!Cardinality({k \in Tokens : item'[k] # None}) <= Max
      BY <2>12 DEF Promise!Cardinality, Cardinality, Promise!IsFiniteSet, IsFiniteSet
    <3> QED
      BY <2>11, <3>1, <3>2, <3>3, <3>4, <3>5, Zenon DEF Promise!Keep
  <2> QED
    BY <1>3, <2>14 DEF Promise!Next
<1> QED
  BY <1>4, <1>5

\* Take finds nothing, an expired entry that is forgotten, or the transaction.
LEMMA TakeImplements ==
    ASSUME Known, Known', NEW w \in Workers, Take(w)
    PROVE  Promise!Next \/ UNCHANGED Promise!vars
<1>1. pc[w] # "idle" /\ pc[w] = "response" /\ todo[w] = {} /\ live[w] = None /\ w \in Procs
  BY AtWork DEF Known, WorkerOK, Take
<1>2. PICK k \in Tokens : k = call[job[w]].token
  BY <1>1, AtWork DEF Known, CallForms
<1>3. /\ item' = [item EXCEPT ![k] = None]
      /\ live'[w] = IF k \in Overdue THEN None ELSE item[k]
      /\ todo' = [todo EXCEPT ![w] = {item[j] : j \in Overdue \cap {k}}]
      /\ pc'[w] = "taken"
      /\ tx' = tx /\ call' = call /\ resumed' = resumed
  BY <1>1, <1>2 DEF Take, Goto, txVars, Known, TypeOK
<1>4. \A u \in Workers : live[u] # None => live'[u] = live[u] /\ pc'[u] = pc[u]
  BY <1>1 DEF Take, Goto, Known, TypeOK, Procs
<1>5. CASE k \in Overdue
  <2>1. item[k] # None /\ Overdue \cap {k} = {k}
    BY <1>5 DEF Overdue, Parked
  <2>2. item' = [j \in Tokens |-> IF j \in {k} THEN None ELSE item[j]]
    BY <1>3 DEF Known, TypeOK
  <2>3. todo' = [todo EXCEPT ![w] = {item[j] : j \in {k}}]
    BY <1>3, <2>1
  <2>4. Promise!Next
    BY <1>1, <1>3, <1>4, <2>1, <2>2, <2>3, ListForgets, ZenonT(30)
  <2> QED
    BY <2>4
<1>6. CASE k \notin Overdue
  <2>1. todo' = todo
    BY <1>1, <1>3, <1>6 DEF Known, TypeOK
  <2>2. CASE item[k] = None
    <3>1. item' = item
      BY <1>3, <2>2 DEF Known, TypeOK
    <3>2. \A y \in Calls : Place(y)' = Place(y)
      BY <1>3, <1>4, <2>1, <3>1, SamePlace, ResumeAssumption
    <3> QED
      BY <1>3, <3>1, <3>2, Quiet
  <2>3. CASE item[k] # None
    <3>1. PICK x \in Calls : x = item[k]
      BY <2>3 DEF Known, TypeOK
    <3>2. Place(x) = "kept"
      BY <3>1 DEF Known, PlaceOK
    <3>3. live'[w] = x
      BY <1>3, <1>6, <3>1
    <3>4. Place(x)' = "taken"
      BY <1>3, <3>3 DEF Known, PlaceOK
    <3>5. ASSUME NEW y \in Calls \ {x} PROVE Place(y)' = Place(y)
      <4>1. \A j \in Tokens : item[j] = y => item'[j] = y
        BY <1>3, <3>1, <3>5 DEF Known, TypeOK
      <4> QED
        BY <1>3, <1>4, <2>1, <4>1, SamePlace, ResumeAssumption
    <3>6. Promise!Move(x, {"kept"}, "taken")
      BY <3>2, <3>4, <3>5, OneMoves
    <3>7. Promise!Take(k)
      BY <1>3, <2>3, <3>1, <3>6 DEF Promise!Take
    <3> QED
      BY <3>7 DEF Promise!Next
  <2> QED
    BY <2>2, <2>3
<1> QED
  BY <1>5, <1>6

\* A response call runs on what it took, or does without, or throws it away.
LEMMA ResponseImplements ==
    ASSUME Known, Known', NEW w \in Workers, Response(w)
    PROVE  Promise!Next \/ UNCHANGED Promise!vars
<1> USE DEF Response
<1>1. pc[w] # "idle" /\ pc[w] = "taken" /\ tx[job[w]] = "none" /\ w \in Procs
  BY AtWork DEF Known, WorkerOK
<1>2. CASE ResponseSkip(w) \/ ResponseBody(w)
  BY <1>1, <1>2, SendDiscards DEF ResponseSkip, ResponseBody, regVars
<1>3. CASE ResponseLost(w) \/ ResponseUnknown(w) \/ ResponseRebuild(w)
  BY <1>1, <1>3, SendPlain DEF ResponseLost, ResponseUnknown, ResponseRebuild, regVars
<1>4. CASE ResponseResume(w)
  <2>1. PICK c \in Calls : c = job[w]
    BY <1>1, AtWork DEF Known
  <2>2. PICK x \in Calls : x = live[w]
    BY <1>1, <1>4, AtWork DEF Known, ResponseResume
  <2>3. resumed[c] = None
    <3>1. reply[c] = NoReply /\ \A v \in Workers : job[v] = c => v = w
      BY <1>1, <2>1, AtWork DEF Known
    <3>2. ~Resuming(c)
      BY <1>1, <3>1 DEF Resuming
    <3> QED
      BY <3>1, <3>2 DEF Known, History, ResumedKept
  <2>4. call[x].token = call[c].token
    BY <1>1, <1>4, <2>1, <2>2 DEF Known, History, TakenKept, KeptFor, ResponseResume
  <2>5. Place(c) = "new" /\ Place(x) = "taken"
    BY <1>1, <2>1, <2>2 DEF Known, PlaceOK
  <2>6. /\ live' = live /\ pc'[w] = "resuming" /\ \A u \in Workers : u # w => pc'[u] = pc[u]
        /\ tx' = tx /\ todo' = todo /\ item' = item /\ call' = call
    BY <1>1, <1>4 DEF ResponseResume, Goto, txVars, regVars, Known, TypeOK, Procs
  <2>7. Place(x)' = "resumed"
    BY <2>2, <2>6 DEF Known, PlaceOK
  <2>8. ASSUME NEW y \in Calls \ {x} PROVE Place(y)' = Place(y)
    BY <2>2, <2>6, <2>8, SamePlace
  <2>9. Promise!Move(x, {"taken"}, "resumed")
    BY <2>5, <2>7, <2>8, OneMoves
  <2>10. Promise!Resume(c, x)
    BY <1>4, <2>1, <2>2, <2>3, <2>4, <2>5, <2>6, <2>9 DEF Promise!Resume, ResponseResume
  <2> QED
    BY <2>10 DEF Promise!Next
<1> QED
  BY <1>2, <1>3, <1>4

\* A panic closes or loses what the worker holds, or its own transaction.
LEMMA PanicsImplements ==
    ASSUME Known, Known', NEW w \in Workers, Panics(w)
    PROVE  Promise!Next \/ UNCHANGED Promise!vars
<1>1. /\ pc[w] # "idle" /\ item' = item /\ todo' = todo /\ call' = call
      /\ resumed' = resumed /\ Send(w, "panic", FALSE)
  BY DEF Panics, regVars
<1>2. CASE live[w] = None /\ UNCHANGED txVars
  BY <1>1, <1>2, SendPlain
<1>3. CASE DropLive(w)
  BY <1>1, <1>3, SendCloses, SendLoses DEF DropLive
<1>4. CASE DropOwn(w)
  <2>1. live[w] = None /\ tx[job[w]] = "none"
    BY <1>1, <1>4, AtWork DEF DropOwn, WorkerOK, Known
  <2> QED
    BY <1>1, <1>4, <2>1, SendPlain DEF DropOwn, RunAndClose
<1> QED
  BY <1>2, <1>3, <1>4 DEF Panics

\* What was thrown out of the registry is closed, one after the other.
LEMMA DiscardImplements ==
    ASSUME Known, Known', NEW p \in Procs, Discard(p)
    PROVE  Promise!Next
<1>1. PICK x \in todo[p] : CloseTx(x) /\ todo' = [todo EXCEPT ![p] = @ \ {x}]
  BY DEF Discard
<1>2. x \in Calls
  BY DEF Known, TypeOK
<1>3. Place(x) = "forgotten"
  BY <1>1, <1>2 DEF Known, PlaceOK
<1>4. Place(x)' = "closed"
  <2>1. tx'[x] = "closed"
    BY <1>1, <1>2 DEF CloseTx, Known, TypeOK
  <2> QED
    BY <1>2, <2>1 DEF Known, PlaceOK
<1>5. ASSUME NEW y \in Calls \ {x} PROVE Place(y)' = Place(y)
  <2>1. tx'[y] = tx[y] /\ \A q \in Procs : y \in todo[q] => y \in todo'[q]
    BY <1>1, <1>5 DEF CloseTx, Known, TypeOK
  <2> QED
    BY <2>1, SamePlace DEF Discard, workVars, regVars
<1>6. Promise!Move(x, {"open", "taken", "resumed", "forgotten"}, "closed")
  BY <1>2, <1>3, <1>4, <1>5, OneMoves
<1>7. Promise!Close(x)
  BY <1>6 DEF Promise!Close, Discard, regVars
<1> QED
  BY <1>2, <1>7 DEF Promise!Next

\* A release, a sweep and the end of the registry forget what is in it.
LEMMA RemovalImplements ==
    ASSUME Known, Known', Sweep \/ CloseRegistry \/ \E k \in Tokens : Drop(k)
    PROVE  Promise!Next \/ UNCHANGED Promise!vars
<1>1. Receiver \in Procs /\ Janitor \in Procs /\ Janitor \notin Workers
  BY ResumeAssumption DEF Procs
<1>2. \A u \in Workers : live'[u] = live[u] /\ pc'[u] = pc[u]
  <2>1. live' = live /\ (pc' = pc \/ pc' = [pc EXCEPT ![Janitor] = "exit"])
    BY DEF Sweep, CloseRegistry, Drop, Goto, workVars
  <2>2. pc \in [Procs -> Labels] /\ \A u \in Workers : u # Janitor /\ u \in Procs
    BY <1>1 DEF Known, TypeOK, Procs
  <2> QED
    BY <2>1, <2>2
<1>3. tx' = tx /\ call' = call /\ resumed' = resumed
  BY DEF Sweep, CloseRegistry, Drop, txVars
<1>4. ASSUME NEW k \in Tokens, Drop(k) PROVE Promise!Next
  <2>1. item' = [j \in Tokens |-> IF j \in {k} THEN None ELSE item[j]]
    BY <1>4 DEF Drop, Known, TypeOK
  <2>2. todo' = [todo EXCEPT ![Receiver] = {item[j] : j \in {k}}] /\ todo[Receiver] = {} /\ item[k] # None
    <3>1. {item[j] : j \in {k}} = {item[k]}
      OBVIOUS
    <3> QED
      BY <1>4, <3>1 DEF Drop, Parked
  <2>3. PICK K \in SUBSET Tokens : K = {k}
    BY <1>4
  <2>4. /\ K # {} /\ \A j \in K : item[j] # None
        /\ item' = [j \in Tokens |-> IF j \in K THEN None ELSE item[j]]
        /\ todo' = [todo EXCEPT ![Receiver] = {item[j] : j \in K}]
    BY <2>1, <2>2, <2>3
  <2> QED
    BY <1>1, <1>2, <1>3, <2>2, <2>4, ListForgets
<1>5. CASE Sweep
  <2>1. PICK K : K = Overdue
    OBVIOUS
  <2>2. K \in SUBSET Tokens /\ \A k \in K : item[k] # None
    BY <2>1 DEF Overdue, Parked
  <2>3. /\ K # {} /\ todo[Janitor] = {}
        /\ item' = [k \in Tokens |-> IF k \in K THEN None ELSE item[k]]
        /\ todo' = [todo EXCEPT ![Janitor] = {item[k] : k \in K}]
    BY <1>5, <2>1 DEF Sweep
  <2> QED
    BY <1>1, <1>2, <1>3, <2>2, <2>3, ListForgets
<1>6. CASE CloseRegistry
  <2>1. PICK K : K = Parked
    OBVIOUS
  <2>2. K \in SUBSET Tokens /\ \A k \in K : item[k] # None
    BY <2>1 DEF Parked
  <2>3. /\ todo[Janitor] = {}
        /\ item' = [k \in Tokens |-> IF k \in K THEN None ELSE item[k]]
        /\ todo' = [todo EXCEPT ![Janitor] = {item[k] : k \in K}]
    BY <1>6, <2>1 DEF CloseRegistry, Parked
  <2>4. CASE K # {}
    BY <1>1, <1>2, <1>3, <2>2, <2>3, <2>4, ListForgets
  <2>5. CASE K = {}
    <3>1. item' = item /\ todo' = todo
      BY <1>1, <2>3, <2>5 DEF Known, TypeOK
    <3>2. \A y \in Calls : Place(y)' = Place(y)
      BY <1>2, <1>3, <3>1, SamePlace
    <3> QED
      BY <1>3, <3>1, <3>2, Quiet
  <2> QED
    BY <2>4, <2>5
<1> QED
  BY <1>4, <1>5, <1>6

\* Every step of Resume is a step of Sessions, or none.
LEMMA StepImplements ==
    ASSUME Known, Known', RegistryBounded', [Next]_vars
    PROVE  Promise!Next \/ UNCHANGED Promise!vars
<1>1. ASSUME NEW w \in Workers, WorkerStep(w) PROVE Promise!Next \/ UNCHANGED Promise!vars
  <2>1. CASE Refused(w)
    BY <2>1, SendDiscards DEF Refused, regVars
  <2>2. CASE Offered(w)
    <3>1. pc[w] # "idle" /\ live[w] = None
      BY <2>2, AtWork DEF Known, WorkerOK, Offered
    <3> QED
      BY <2>2, <3>1, SendPlain DEF Offered, regVars
  <2>3. CASE ResumeDone(w)
    <3>1. pc[w] # "idle" /\ live[w] # None
      BY <2>3, AtWork DEF Known, WorkerOK, ResumeDone
    <3> QED
      BY <2>3, <3>1, SendCloses DEF ResumeDone, regVars
  <2> QED
    BY <1>1, <2>1, <2>2, <2>3, RequestImplements, PublishImplements, ParkImplements,
       TakeImplements, ResponseImplements, PanicsImplements DEF WorkerStep
<1>2. CASE Terminate \/ Drained \/ Tick \/ UNCHANGED vars
  <2>1. UNCHANGED <<call, item, tx, resumed, pc, live, todo>>
    BY <1>2 DEF Terminate, Drained, Tick, vars, workVars, regVars, txVars
  <2>2. \A y \in Calls : Place(y)' = Place(y)
    BY <2>1, SamePlace
  <2> QED
    BY <2>1, <2>2, Quiet
<1> QED
  BY <1>1, <1>2, CallArrives, DiscardImplements, RemovalImplements DEF Next

\* The registry with its lock, its lifetimes, the janitor and the releases, and
\* the handlers around it, do what Sessions allows and nothing else: a kept
\* transaction goes to one response call with its token, or is forgotten, and is
\* closed once.
THEOREM ResumeImplementsSessions == Spec => KeepsPromise
<1>1. Init => Promise!Init
  <2> SUFFICES ASSUME Init PROVE Promise!Init
    OBVIOUS
  <2>1. \A x \in Calls : Place(x) = "new" /\ call[x].token = None
    BY DEF Init, Place, NoCall
  <2> QED
    BY <2>1 DEF Init, Promise!Init
<1>2. TypeOK /\ ControlOK /\ TransactionOwned /\ History => Known
  BY PlaceDetermined DEF Known
<1>3. Spec => [](Known /\ RegistryBounded)
  BY <1>2, CoreInvariant, HistoryInvariant, RegistryWithinLimit, PTL
<1>4. Known /\ Known' /\ RegistryBounded' /\ [Next]_vars => [Promise!Next]_(Promise!vars)
  BY StepImplements
<1> QED
  BY <1>1, <1>3, <1>4, PTL DEF Spec, KeepsPromise, Promise!Spec
=============================================================================
