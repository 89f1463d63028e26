--------------------------- MODULE ResumeProofs ---------------------------
(***************************************************************************)
(* Proofs about Resume, for any number of calls, tokens and workers and    *)
(* any bound of the registry.                                              *)
(***************************************************************************)
EXTENDS Resume, FiniteSetTheorems, TLAPS

-----------------------------------------------------------------------------
(* Types and control.                                                      *)

\* The empty registry and idle handlers are well typed.
LEMMA TypeInit == Init => TypeOK
<1> SUFFICES ASSUME Init PROVE TypeOK
  OBVIOUS
<1>1. reply \in [Calls -> [verdict : Answers \cup {"none"}, cont : BOOLEAN]]
  BY DEF Init, NoReply
<1>2. life \in [Tokens -> -1..TTL]
  BY ResumeAssumption DEF Init
<1>3. pc \in [Procs -> Labels]
  BY DEF Init, Labels
<1> QED
  BY <1>1, <1>2, <1>3 DEF Init, TypeOK

\* A step in which worker w answers its call with v, closing or losing at most
\* one transaction x of its own.
AnswersCall(w, v, b, x) ==
    /\ job[w] \in Calls
    /\ Send(w, v, b)
    /\ UNCHANGED txVars \/ CloseTx(x) \/ RunAndClose(x) \/ LoseTx(x)
    /\ UNCHANGED <<call, regVars, resumed, todo, stage>>

\* send, and what an evaluation does to transactions, keep the types.
LEMMA AnswerTypes ==
    ASSUME TypeOK, NEW w \in Workers, NEW v \in Answers,
           NEW b \in BOOLEAN, NEW x \in Calls, AnswersCall(w, v, b, x)
    PROVE  TypeOK'
<1>1. reply' \in [Calls -> [verdict : Answers \cup {"none"}, cont : BOOLEAN]]
  <2>1. [verdict |-> v, cont |-> b] \in [verdict : Answers \cup {"none"}, cont : BOOLEAN]
    OBVIOUS
  <2> QED
    BY <2>1 DEF AnswersCall, Send, TypeOK
<1>2. /\ pc' \in [Procs -> Labels]
      /\ job' \in [Procs -> Calls \cup {None}]
      /\ live' \in [Procs -> Calls \cup {None}]
      /\ verdict' \in [Procs -> Verdicts \cup {"none"}]
  BY DEF AnswersCall, Send, TypeOK, Labels, Procs
<1>3. /\ tx' \in [Calls -> {"none", "open", "closed", "leaked"}]
      /\ closes' \in [Calls -> Nat]
  <2>1. ASSUME CloseTx(x) PROVE /\ tx' \in [Calls -> {"none", "open", "closed", "leaked"}]
                               /\ closes' \in [Calls -> Nat]
    BY <2>1 DEF CloseTx, TypeOK
  <2> QED
    BY <2>1 DEF AnswersCall, RunAndClose, LoseTx, txVars, TypeOK
<1> QED
  BY <1>1, <1>2, <1>3 DEF AnswersCall, TypeOK, regVars

\* The steps in which a worker answers its call.
LEMMA AnswerSteps ==
    ASSUME TypeOK, ControlOK, NEW w \in Workers,
           \/ pc[w] = "request" /\ Request(w) /\ ~RequestKeep(w)
           \/ pc[w] = "publish" /\ Publish(w) /\ ~OfferPark(w)
           \/ Refused(w)
           \/ Offered(w)
           \/ pc[w] = "taken" /\ Response(w) /\ ~ResponseResume(w)
           \/ ResumeDone(w)
           \/ Panics(w)
    PROVE  \E v \in Answers, b \in BOOLEAN, x \in Calls : AnswersCall(w, v, b, x)
<1> USE DEF AnswersCall, Answers
<1>0. job[w] \in Calls /\ live[w] \in Calls \cup {None}
  <2>1. pc[w] # "idle"
    BY DEF Refused, Offered, ResumeDone, Panics
  <2> QED
    BY <2>1 DEF TypeOK, ControlOK, WorkerOK, Procs
<1>1. CASE pc[w] = "request" /\ Request(w) /\ ~RequestKeep(w)
  BY <1>0, <1>1 DEF Request, RequestEarly, RequestPlain, RequestFails, Verdicts
<1>2. CASE pc[w] = "publish" /\ Publish(w) /\ ~OfferPark(w)
  <2>1. verdict[w] \in Verdicts
    BY <1>2 DEF ControlOK, WorkerOK
  <2> QED
    BY <1>0, <1>2, <2>1 DEF Publish, PublishFails, OfferRefused, DiscardLive
<1>3. CASE Refused(w)
  <2>1. verdict[w] \in Verdicts
    BY <1>3 DEF Refused, ControlOK, WorkerOK, Verdicts
  <2> QED
    BY <1>0, <1>3, <2>1 DEF Refused, DiscardLive
<1>4. CASE Offered(w)
  <2>1. verdict[w] \in Verdicts
    BY <1>4 DEF Offered, ControlOK, WorkerOK, Verdicts
  <2> QED
    BY <1>0, <1>4, <2>1 DEF Offered, txVars
<1>5. CASE pc[w] = "taken" /\ Response(w) /\ ~ResponseResume(w)
  BY <1>0, <1>5 DEF Response, ResponseSkip, ResponseLost, ResponseUnknown, ResponseBody,
     ResponseRebuild, DiscardLive, Verdicts
<1>6. CASE ResumeDone(w)
  <2>1. live[w] \in Calls
    BY <1>0, <1>6 DEF ResumeDone, ControlOK, WorkerOK
  <2> QED
    BY <1>0, <1>6, <2>1 DEF ResumeDone, Verdicts
<1>7. CASE Panics(w)
  <2>1. \E x \in Calls : UNCHANGED txVars \/ CloseTx(x) \/ LoseTx(x)
    BY <1>0, <1>7 DEF Panics, DropLive, DropOwn
  <2> QED
    BY <1>0, <1>7, <2>1 DEF Panics
<1> QED
  BY <1>1, <1>2, <1>3, <1>4, <1>5, <1>6, <1>7

\* Every step keeps the types.
LEMMA TypeStep ==
    ASSUME TypeOK, ControlOK, [Next]_vars
    PROVE  TypeOK'
<1> USE ResumeAssumption DEF TypeOK, Procs, Labels, Verdicts, Answers, CallForms, Parked,
        regVars, txVars, workVars
<1>0. ASSUME NEW w \in Workers, pc[w] # "idle" PROVE job[w] \in Calls
  BY <1>0 DEF ControlOK, WorkerOK
<1>1. ASSUME NEW w \in Workers, NEW c \in Calls, NEW form \in CallForms, Start(w, c, form)
      PROVE  TypeOK'
  BY <1>1 DEF Start, Goto
<1>2. ASSUME NEW c \in Calls, NEW form \in CallForms, Shed(c, form) PROVE TypeOK'
  BY <1>2 DEF Shed
<1>3. ASSUME NEW w \in Workers, RequestKeep(w), Request(w) PROVE TypeOK'
  BY <1>0, <1>3 DEF Request, RequestKeep, Goto
<1>4. ASSUME NEW w \in Workers, OfferPark(w), Publish(w) PROVE TypeOK'
  BY <1>4 DEF Publish, OfferPark, Goto
<1>5. ASSUME NEW w \in Workers, Park(w) PROVE TypeOK'
  <2>1. CASE ParkFull(w)
    BY <1>5, <2>1 DEF Park, ParkFull, HasRoom, Overdue, Goto
  <2>2. CASE ParkRoom(w)
    <3>1. call[job[w]].token \in Tokens
      BY <1>0, <1>5 DEF Park, ControlOK, WorkerOK, NoCall
    <3>2. item' \in [Tokens -> Calls \cup {None}] /\ life' \in [Tokens -> -1..TTL]
      BY <2>2, <3>1 DEF ParkRoom, HasRoom, Gone, Expiry
    <3>3. todo' \in [Procs -> SUBSET Calls]
      BY <2>2, <3>1 DEF ParkRoom, HasRoom, Gone, Expiry, Overdue
    <3> QED
      BY <1>5, <2>2, <3>2, <3>3 DEF Park, ParkRoom, HasRoom, Gone, Expiry, Goto
  <2> QED
    BY <1>5, <2>1, <2>2 DEF Park
<1>6. ASSUME NEW w \in Workers, Take(w) PROVE TypeOK'
  <2>1. call[job[w]].token \in Tokens
    BY <1>0, <1>6 DEF Take, ControlOK, WorkerOK, NoCall
  <2>2. todo' \in [Procs -> SUBSET Calls]
    BY <1>6, <2>1 DEF Take, Overdue
  <2> QED
    BY <1>6, <2>1, <2>2 DEF Take, Goto
<1>7. ASSUME NEW w \in Workers, ResponseResume(w), Response(w) PROVE TypeOK'
  BY <1>0, <1>7 DEF Response, ResponseResume, Goto
<1>8. ASSUME NEW w \in Workers, WorkerStep(w) PROVE TypeOK'
  <2> HIDE DEF TypeOK
  <2>1. CASE \E v \in Answers, b \in BOOLEAN, x \in Calls : AnswersCall(w, v, b, x)
    BY <2>1, AnswerTypes
  <2> QED
    BY <1>3, <1>4, <1>5, <1>6, <1>7, <1>8, <2>1, AnswerSteps
       DEF WorkerStep, Request, Publish, Response
<1>9. ASSUME NEW p \in Procs, Discard(p) PROVE TypeOK'
  BY <1>9 DEF Discard, CloseTx
<1>10. ASSUME NEW k \in Tokens, Drop(k) PROVE TypeOK'
  BY <1>10 DEF Drop
<1>11. CASE Sweep
  BY <1>11 DEF Sweep, Overdue
<1>12. CASE CloseRegistry
  BY <1>12 DEF CloseRegistry, Goto
<1>13. CASE Terminate
  BY <1>13 DEF Terminate
<1>14. CASE Drained
  BY <1>14 DEF Drained
<1>15. CASE Tick
  BY <1>15 DEF Tick
<1>16. CASE UNCHANGED vars
  BY <1>16 DEF vars
<1> QED
  BY <1>1, <1>2, <1>8, <1>9, <1>10, <1>11, <1>12, <1>13, <1>14, <1>15, <1>16 DEF Next

\* At the start no worker has a call.
LEMMA ControlInit == Init => ControlOK
<1> SUFFICES ASSUME Init PROVE ControlOK
  OBVIOUS
<1>1. \A p \in Procs : /\ pc[p] = "idle" /\ job[p] = None /\ live[p] = None
                        /\ verdict[p] = "none" /\ todo[p] = {}
  BY DEF Init
<1>2. Workers \subseteq Procs /\ Receiver \in Procs /\ Janitor \in Procs
  BY DEF Procs
<1>3. ASSUME NEW w \in Workers PROVE WorkerOK(w)
  <2>1. /\ pc[w] = "idle" /\ job[w] = None /\ live[w] = None
        /\ verdict[w] = "none" /\ todo[w] = {}
    BY <1>1, <1>2
  <2>2. "idle" \in Labels \ {"exit"}
    BY DEF Labels
  <2> QED
    BY <2>1, <2>2 DEF WorkerOK
<1>4. \A c \in Calls : reply[c] = NoReply /\ tx[c] = "none" /\ resumed[c] = None
  <2>1. /\ reply = [c \in Calls |-> NoReply] /\ tx = [c \in Calls |-> "none"]
        /\ resumed = [c \in Calls |-> None]
    BY Zenon DEF Init
  <2> QED
    BY <2>1
<1>5. stage = "serving"
  BY Zenon DEF Init
<1> QED
  BY <1>1, <1>2, <1>3, <1>4, <1>5 DEF ControlOK

\* Every step keeps each worker's place, its call and its transaction in accord.
LEMMA ControlStep ==
    ASSUME TypeOK, ControlOK, OpenIsOwned, [Next]_vars
    PROVE  ControlOK'
<1> USE ResumeAssumption DEF TypeOK, ControlOK, WorkerOK, Procs, Labels, Verdicts,
        CallForms, NoCall, NoReply, WantsResume, Parked, regVars, txVars, workVars
<1>1. ASSUME NEW w \in Workers, NEW c \in Calls, NEW form \in CallForms, Start(w, c, form)
      PROVE  ControlOK'
  <2>1. form # NoCall /\ form.phase \in {"request", "response"}
    OBVIOUS
  <2>2. \A v \in Workers : job[v] # c
    BY <1>1, SMTT(20) DEF Start
  <2>3. call' = [call EXCEPT ![c] = form] /\ call'[c] = form
    BY <1>1 DEF Start
  <2>4. WorkerOK(w)'
    <3>1. pc'[w] = form.phase /\ job'[w] = c /\ live'[w] = None /\ todo'[w] = {}
      BY <1>1 DEF Start, Goto
    <3>2. tx'[c] = "none" /\ reply'[c] = NoReply
      BY <1>1 DEF Start
    <3> HIDE DEF NoCall, NoReply, CallForms, TypeOK, ControlOK
    <3> QED
      BY <2>1, <2>3, <3>1, <3>2
  <2> HIDE DEF NoCall, CallForms
  <2>5. ASSUME NEW v \in Workers, v # w PROVE WorkerOK(v)'
    BY <1>1, <2>2, <2>3, <2>5 DEF Start, Goto
  <2>6. \A v, u \in Workers : job'[v] # None /\ job'[v] = job'[u] => v = u
    BY <1>1, <2>2 DEF Start
  <2>7. \A d \in Calls : call'[d] = NoCall =>
           reply'[d] = NoReply /\ tx'[d] = "none" /\ resumed'[d] = None
    BY <1>1, <2>1, <2>3 DEF Start
  <2>8. /\ pc'[Receiver] = "idle" /\ job'[Receiver] = None /\ live'[Receiver] = None
        /\ pc'[Janitor] \in {"idle", "exit"}
        /\ job'[Janitor] = None /\ live'[Janitor] = None
        /\ stage' # "stopped" /\ pc'[Janitor] # "exit"
    BY <1>1 DEF Start, Goto
  <2> HIDE DEF WorkerOK
  <2> QED
    BY <2>4, <2>5, <2>6, <2>7, <2>8
<1>2. ASSUME NEW c \in Calls, NEW form \in CallForms, Shed(c, form)
      PROVE  ControlOK'
  <2>1. form # NoCall
    OBVIOUS
  <2>2. \A v \in Workers : job[v] # c
    BY <1>2, SMTT(20) DEF Shed
  <2>3. call' = [call EXCEPT ![c] = form] /\ call'[c] = form
    BY <1>2 DEF Shed
  <2> HIDE DEF NoCall, NoReply, CallForms
  <2> QED
    BY <1>2, <2>1, <2>2, <2>3 DEF Shed
<1>3. ASSUME NEW w \in Workers, Request(w) PROVE ControlOK'
  <2>1. CASE RequestEarly(w)
    BY <1>3, <2>1 DEF Request, RequestEarly, Send
  <2>2. CASE RequestPlain(w)
    BY <1>3, <2>2 DEF Request, RequestPlain, RunAndClose, CloseTx, Send
  <2>3. CASE RequestFails(w)
    BY <1>3, <2>3 DEF Request, RequestFails, RunAndClose, CloseTx, Send
  <2>4. CASE RequestKeep(w)
    BY <1>3, <2>4 DEF Request, RequestKeep, Goto
  <2> QED
    BY <1>3, <2>1, <2>2, <2>3, <2>4 DEF Request
<1>4. ASSUME NEW w \in Workers, Publish(w) PROVE ControlOK'
  <2>1. CASE PublishFails(w)
    BY <1>4, <2>1 DEF Publish, PublishFails, DiscardLive, CloseTx, Send
  <2>2. CASE OfferRefused(w)
    BY <1>4, <2>2 DEF Publish, OfferRefused, DiscardLive, CloseTx, Send
  <2>3. CASE OfferPark(w)
    BY <1>4, <2>3 DEF Publish, OfferPark, Goto
  <2> QED
    BY <1>4, <2>1, <2>2, <2>3 DEF Publish
<1>5. ASSUME NEW w \in Workers, Park(w) PROVE ControlOK'
  <2>1. CASE ParkFull(w)
    BY <1>5, <2>1 DEF Park, ParkFull, HasRoom, Overdue, Goto
  <2>2. CASE ParkRoom(w)
    BY <1>5, <2>2 DEF Park, ParkRoom, HasRoom, Gone, Expiry, Overdue, Goto
  <2> QED
    BY <1>5, <2>1, <2>2 DEF Park
<1>6. ASSUME NEW w \in Workers, Refused(w) PROVE ControlOK'
  BY <1>6 DEF Refused, DiscardLive, CloseTx, Send
<1>7. ASSUME NEW w \in Workers, Offered(w) PROVE ControlOK'
  BY <1>7 DEF Offered, Send
<1>8. ASSUME NEW w \in Workers, Take(w) PROVE ControlOK'
  BY <1>8 DEF Take, Overdue, Goto
<1>9. ASSUME NEW w \in Workers, Response(w) PROVE ControlOK'
  <2> HIDE DEF NoCall, CallForms
  <2>0. live[w] # None => tx[live[w]] = "open"
    BY DEF OpenIsOwned, Held
  <2>1. CASE ResponseSkip(w)
    BY <1>9, <2>0, <2>1 DEF Response, ResponseSkip, DiscardLive, CloseTx, Send
  <2>2. CASE ResponseLost(w)
    BY <1>9, <2>2 DEF Response, ResponseLost, Send
  <2>3. CASE ResponseUnknown(w)
    BY <1>9, <2>3 DEF Response, ResponseUnknown, Send
  <2>4. CASE ResponseBody(w)
    BY <1>9, <2>0, <2>4 DEF Response, ResponseBody, DiscardLive, CloseTx, Send
  <2>5. CASE ResponseResume(w)
    BY <1>9, <2>5 DEF Response, ResponseResume, Goto
  <2>6. CASE ResponseRebuild(w)
    BY <1>9, <2>6 DEF Response, ResponseRebuild, RunAndClose, CloseTx, Send
  <2> HIDE DEF ControlOK
  <2> QED
    BY <1>9, <2>1, <2>2, <2>3, <2>4, <2>5, <2>6 DEF Response
<1>10. ASSUME NEW w \in Workers, ResumeDone(w) PROVE ControlOK'
  <2> HIDE DEF NoCall, CallForms
  <2>1. live[w] \in Calls /\ tx[live[w]] = "open"
    BY <1>10 DEF ResumeDone, OpenIsOwned, Held
  <2> QED
    BY <1>10, <2>1 DEF ResumeDone, CloseTx, Send
<1>11. ASSUME NEW p \in Procs, Discard(p) PROVE ControlOK'
  <2> HIDE DEF NoCall, CallForms
  <2>1. \A x \in todo[p] : x \in Calls /\ tx[x] = "open"
    BY DEF OpenIsOwned, Held
  <2> QED
    BY <1>11, <2>1 DEF Discard, CloseTx
<1>12. ASSUME NEW k \in Tokens, Drop(k) PROVE ControlOK'
  BY <1>12 DEF Drop
<1>13. CASE Sweep
  BY <1>13 DEF Sweep, Overdue
<1>14. CASE CloseRegistry
  BY <1>14 DEF CloseRegistry, Goto
<1>15. CASE Terminate
  BY <1>15 DEF Terminate
<1>16. CASE Drained
  BY <1>16 DEF Drained
<1>17. CASE Tick
  BY <1>17 DEF Tick
<1>18. CASE UNCHANGED vars
  BY <1>18 DEF vars
<1>19. ASSUME NEW w \in Workers, Panics(w) PROVE ControlOK'
  <2> HIDE DEF NoCall, CallForms
  <2>1. ASSUME NEW x \in Calls, tx' = [tx EXCEPT ![x] = tx'[x]], x = job[w] \/ tx[x] = "open"
        PROVE  ControlOK'
    BY <1>19, <2>1, SMTT(20) DEF Panics, Send
  <2>2. CASE tx' = tx
    BY <1>19, <2>2, SMTT(20) DEF Panics, Send
  <2>3. CASE DropLive(w)
    <3>1. live[w] \in Calls /\ tx[live[w]] = "open"
      BY <2>3 DEF DropLive, OpenIsOwned, Held
    <3>2. tx' = [tx EXCEPT ![live[w]] = tx'[live[w]]]
      BY <2>3, <3>1 DEF DropLive, CloseTx, LoseTx
    <3> HIDE DEF ControlOK
    <3> QED
      BY <2>1, <3>1, <3>2
  <2>4. CASE DropOwn(w)
    <3>1. job[w] \in Calls
      BY <1>19 DEF Panics
    <3>2. tx' = [tx EXCEPT ![job[w]] = tx'[job[w]]]
      BY <2>4, <3>1 DEF DropOwn, CloseTx, LoseTx
    <3> HIDE DEF ControlOK
    <3> QED
      BY <2>1, <3>1, <3>2
  <2> HIDE DEF ControlOK
  <2> QED
    BY <1>19, <2>2, <2>3, <2>4 DEF Panics
<1> HIDE DEF TypeOK, ControlOK, WorkerOK, Procs, Labels, Verdicts, CallForms, NoCall,
             NoReply, WantsResume, Parked
<1> QED
  BY <1>1, <1>2, <1>3, <1>4, <1>5, <1>6, <1>7, <1>8, <1>9, <1>10, <1>11, <1>12,
     <1>13, <1>14, <1>15, <1>16, <1>17, <1>18, <1>19
     DEF Next, WorkerStep

-----------------------------------------------------------------------------
(* Ownership: one owner per open transaction, one Close.                   *)

\* At the start no transaction is open, so none needs an owner.
LEMMA OwnerInit == Init => TransactionOwned
BY ResumeAssumption DEF Init, TransactionOwned, OneOwner, OpenIsOwned, ClosedOnce, Held, Procs

\* Nobody else's hands change.
OthersKeep(p) == \A q \in Procs \ {p} : todo'[q] = todo[q] /\ live'[q] = live[q]

\* Goroutine p closes, or loses, a transaction it holds.
LEMMA OwnerCloses ==
    ASSUME TypeOK, TransactionOwned, NEW p \in Procs, NEW x \in Calls, x \in Held(p),
           CloseTx(x) \/ LoseTx(x),
           item' = item, OthersKeep(p), Held(p)' = Held(p) \ {x},
           live'[p] \notin todo'[p]
    PROVE  TransactionOwned'
<1> USE ResumeAssumption DEF TransactionOwned, OthersKeep, Held
<1>1. OneOwner'
  BY DEF OneOwner
<1>2. OpenIsOwned'
  <2>1. \A k \in Tokens : item'[k] # x
    BY DEF OneOwner
  <2>2. \A q \in Procs : x \notin Held(q)'
    BY DEF OneOwner
  <2>3. tx'[x] # "open" /\ \A y \in Calls \ {x} : tx'[y] = tx[y]
    BY DEF CloseTx, LoseTx, TypeOK
  <2>4. \A y \in Calls \ {x} : \A q \in Procs : y \in Held(q)' <=> y \in Held(q)
    OBVIOUS
  <2> QED
    BY <2>1, <2>2, <2>3, <2>4 DEF OpenIsOwned
<1>3. ClosedOnce'
  <2>1. tx[x] = "open"
    BY DEF OpenIsOwned
  <2>2. closes[x] = 0 /\ \A y \in Calls : closes[y] = IF tx[y] = "closed" THEN 1 ELSE 0
    BY <2>1 DEF ClosedOnce
  <2> HIDE DEF TransactionOwned, Held
  <2> QED
    BY <2>2 DEF ClosedOnce, CloseTx, LoseTx, TypeOK
<1> QED
  BY <1>1, <1>2, <1>3

\* A call's own transaction comes and goes within one step, unowned.
LEMMA OwnerPasses ==
    ASSUME TypeOK, TransactionOwned, NEW c \in Calls, tx[c] = "none",
           RunAndClose(c) \/ LoseTx(c),
           item' = item, \A q \in Procs : todo'[q] = todo[q] /\ live'[q] = live[q]
    PROVE  TransactionOwned'
<1> USE ResumeAssumption DEF TransactionOwned, Held
<1>1. OneOwner'
  BY DEF OneOwner
<1>2. \A y \in Calls : tx'[y] = "open" <=> tx[y] = "open"
  BY DEF RunAndClose, CloseTx, LoseTx, txVars, TypeOK
<1>3. OpenIsOwned'
  BY <1>2 DEF OpenIsOwned
<1>4. ClosedOnce'
  BY DEF ClosedOnce, RunAndClose, CloseTx, LoseTx, txVars, TypeOK
<1> QED
  BY <1>1, <1>3, <1>4

\* Nothing about ownership changes.
LEMMA OwnerStays ==
    ASSUME TransactionOwned, UNCHANGED txVars, item' = item,
           \A q \in Procs : todo'[q] = todo[q] /\ live'[q] = live[q]
    PROVE  TransactionOwned'
BY DEF TransactionOwned, OneOwner, OpenIsOwned, ClosedOnce, Held, txVars

\* Goroutine p takes the transactions of the tokens K out of the registry.
LEMMA OwnerTakes ==
    ASSUME TypeOK, TransactionOwned, NEW p \in Procs, NEW K \in SUBSET Parked, UNCHANGED txVars,
           item' = [k \in Tokens |-> IF k \in K THEN None ELSE item[k]],
           OthersKeep(p), Held(p)' = Held(p) \cup {item[k] : k \in K},
           live'[p] \notin todo'[p]
    PROVE  TransactionOwned'
<1> USE ResumeAssumption DEF TransactionOwned, OthersKeep, Held
<1>0. \A k \in Tokens : item[k] # None => item[k] \in Calls
  BY DEF TypeOK
<1>1. \A k, j \in Tokens : item'[k] # None /\ item'[k] = item'[j] => k = j
  BY DEF OneOwner
<1>2. \A k \in Tokens, q \in Procs : item'[k] \notin Held(q)'
  <2>1. \A q \in Procs : None \notin Held(q)'
    <3>1. None \notin Held(p)'
      BY <1>0 DEF Parked, TypeOK
    <3> QED
      BY <3>1 DEF TypeOK
  <2> QED
    BY <2>1 DEF OneOwner, Parked
<1>3. \A q, r \in Procs : q # r => Held(q)' \cap Held(r)' = {}
  <2>1. \A r \in Procs \ {p} : Held(r)' = Held(r)
    OBVIOUS
  <2>2. ASSUME NEW r \in Procs \ {p}, NEW y \in Held(p)', y \in Held(r) PROVE FALSE
    <3>1. y \notin Held(p)
      BY <2>2 DEF OneOwner
    <3>2. PICK k \in K : y = item[k]
      BY <2>2, <3>1
    <3> QED
      BY <2>2, <3>2 DEF OneOwner, Parked
  <2> HIDE DEF Held
  <2>3. \A r \in Procs \ {p} : Held(p)' \cap Held(r)' = {}
    BY <2>1, <2>2
  <2> QED
    BY <2>1, <2>3 DEF OneOwner
<1>4. OneOwner'
  BY <1>1, <1>2, <1>3 DEF OneOwner
<1>5. OpenIsOwned'
  BY DEF OpenIsOwned, txVars, Parked
<1>6. ClosedOnce'
  BY DEF ClosedOnce, txVars
<1> QED
  BY <1>4, <1>5, <1>6

\* Every step hands a transaction over, or closes it and lets it go.
LEMMA OwnerStep ==
    ASSUME TypeOK, ControlOK, TransactionOwned, [Next]_vars
    PROVE  TransactionOwned'
<1> USE ResumeAssumption DEF Procs
<1>0. ASSUME NEW w \in Workers, pc[w] # "idle"
      PROVE  /\ WorkerOK(w) /\ job[w] \in Calls /\ w \in Procs
             /\ live[w] \in Calls \cup {None}
  BY <1>0 DEF ControlOK, WorkerOK, TypeOK
<1>1. ASSUME NEW w \in Workers, NEW v, NEW b, pc[w] # "idle", Send(w, v, b),
             item' = item, todo' = todo
      PROVE  /\ OthersKeep(w)
             /\ live'[w] = None /\ todo'[w] = todo[w]
             /\ live[w] = None => \A q \in Procs : todo'[q] = todo[q] /\ live'[q] = live[q]
  BY <1>1 DEF Send, OthersKeep, TypeOK
<1>2. ASSUME NEW w \in Workers, NEW v, NEW b, pc[w] # "idle", Send(w, v, b),
             item' = item, todo' = todo, live[w] # None, CloseTx(live[w]) \/ LoseTx(live[w])
      PROVE  TransactionOwned'
  <2>1. live[w] \in Calls /\ live[w] \in Held(w)
    BY <1>0, <1>2 DEF Held
  <2>2. Held(w)' = Held(w) \ {live[w]} /\ live'[w] \notin todo'[w]
    BY <1>1, <1>2, <2>1 DEF Held, TransactionOwned, OneOwner, TypeOK
  <2> QED
    BY <1>1, <1>2, <2>1, <2>2, OwnerCloses
<1>3. ASSUME NEW w \in Workers, NEW v, NEW b, pc[w] # "idle", Send(w, v, b),
             item' = item, todo' = todo, live[w] = None, UNCHANGED txVars
      PROVE  TransactionOwned'
  BY <1>1, <1>3, OwnerStays
<1>4. ASSUME NEW w \in Workers, NEW v, NEW b, pc[w] # "idle", Send(w, v, b),
             item' = item, todo' = todo, DiscardLive(w)
      PROVE  TransactionOwned'
  BY <1>2, <1>3, <1>4 DEF DiscardLive
<1>5. ASSUME NEW w \in Workers, NEW v, NEW b, pc[w] # "idle", Send(w, v, b),
             item' = item, todo' = todo, live[w] = None, tx[job[w]] = "none",
             RunAndClose(job[w]) \/ LoseTx(job[w])
      PROVE  TransactionOwned'
  BY <1>0, <1>1, <1>5, OwnerPasses
<1>6. ASSUME NEW w \in Workers, Request(w) PROVE TransactionOwned'
  <2>1. /\ pc[w] # "idle" /\ item' = item /\ todo' = todo /\ live[w] = None
        /\ tx[job[w]] = "none"
    BY <1>0, <1>6 DEF Request, WorkerOK, regVars
  <2>2. CASE RequestKeep(w)
    <3> DEFINE c == job[w]
    <3>1. /\ c \in Calls /\ w \in Procs /\ c \notin Held(w)
          /\ \A k \in Tokens : item[k] # c
          /\ \A q \in Procs : c \notin Held(q)
      BY <1>0, <2>1 DEF TransactionOwned, OpenIsOwned
    <3>2. /\ tx' = [tx EXCEPT ![c] = "open"] /\ closes' = closes
          /\ live' = [live EXCEPT ![w] = c]
      BY <2>2 DEF RequestKeep
    <3>3. /\ Held(w)' = Held(w) \cup {c} /\ live'[w] \notin todo'[w]
          /\ \A q \in Procs \ {w} : Held(q)' = Held(q) /\ live'[q] = live[q]
      BY <2>1, <3>1, <3>2 DEF Held, TypeOK
    <3>4. OneOwner'
      BY <2>1, <3>1, <3>3 DEF TransactionOwned, OneOwner
    <3>5. OpenIsOwned'
      <4> HIDE DEF c
      <4>1. tx'[c] = "open" /\ c \in Held(w)'
        BY <3>1, <3>2, <3>3 DEF TypeOK
      <4>2. ASSUME NEW y \in Calls \ {c}
            PROVE  /\ tx'[y] = tx[y]
                   /\ \A q \in Procs : y \in Held(q)' <=> y \in Held(q)
        BY <3>1, <3>2, <3>3 DEF TypeOK
      <4> QED
        BY <2>1, <3>1, <4>1, <4>2 DEF TransactionOwned, OpenIsOwned
    <3>6. ClosedOnce'
      BY <2>1, <3>1, <3>2 DEF TransactionOwned, ClosedOnce, TypeOK
    <3> QED
      BY <3>4, <3>5, <3>6 DEF TransactionOwned
  <2> QED
    BY <1>3, <1>5, <1>6, <2>1, <2>2
       DEF Request, RequestEarly, RequestPlain, RequestFails
<1>7. ASSUME NEW w \in Workers, Publish(w) PROVE TransactionOwned'
  <2>1. pc[w] # "idle" /\ item' = item /\ todo' = todo
    BY <1>7 DEF Publish, regVars
  <2>2. CASE OfferPark(w)
    BY <2>1, <2>2, OwnerStays DEF OfferPark
  <2> QED
    BY <1>4, <1>7, <2>1, <2>2 DEF Publish, PublishFails, OfferRefused
<1>8. ASSUME NEW w \in Workers, Refused(w) PROVE TransactionOwned'
  BY <1>4, <1>8 DEF Refused, regVars
<1>9. ASSUME NEW w \in Workers, Offered(w) PROVE TransactionOwned'
  BY <1>0, <1>3, <1>9 DEF Offered, regVars, WorkerOK
<1>10. ASSUME NEW w \in Workers, Response(w) PROVE TransactionOwned'
  <2>1. pc[w] # "idle" /\ item' = item /\ todo' = todo /\ tx[job[w]] = "none"
    BY <1>0, <1>10 DEF Response, WorkerOK, regVars
  <2>2. CASE ResponseResume(w)
    BY <2>1, <2>2, OwnerStays DEF ResponseResume
  <2> QED
    BY <1>3, <1>4, <1>5, <1>10, <2>1, <2>2
       DEF Response, ResponseSkip, ResponseLost, ResponseUnknown, ResponseBody,
           ResponseRebuild, txVars
<1>11. ASSUME NEW w \in Workers, ResumeDone(w) PROVE TransactionOwned'
  BY <1>0, <1>2, <1>11 DEF ResumeDone, regVars, WorkerOK
<1>12. ASSUME NEW w \in Workers, Park(w) PROVE TransactionOwned'
  <2>1. /\ pc[w] = "park" /\ WorkerOK(w) /\ w \in Procs /\ job[w] \in Calls
        /\ live[w] = job[w] /\ todo[w] = {} /\ UNCHANGED txVars
    BY <1>0, <1>12 DEF Park, WorkerOK
  <2>2. CASE ParkFull(w)
    <3>1. /\ todo'[w] = {item[k] : k \in Overdue} /\ live' = live /\ OthersKeep(w)
      BY <2>1, <2>2 DEF ParkFull, HasRoom, OthersKeep, TypeOK
    <3>2. live[w] \notin {item[k] : k \in Overdue}
      BY <2>1 DEF TransactionOwned, OneOwner, Held, Overdue, Parked
    <3>3. Held(w)' = Held(w) \cup {item[k] : k \in Overdue}
      BY <2>1, <3>1 DEF Held
    <3> QED
      BY <2>1, <2>2, <3>1, <3>2, <3>3, OwnerTakes DEF ParkFull, HasRoom, Overdue
  <2>3. CASE ParkRoom(w)
    <3> DEFINE token == call[job[w]].token
               gone == Overdue \cup (Parked \cap {token})
               x == live[w]
    <3>1. token \in Tokens
      BY <2>1 DEF WorkerOK, TypeOK, CallForms, NoCall
    <3>2. /\ item' = [k \in Tokens |-> IF k = token THEN x
                                       ELSE IF k \in Overdue THEN None ELSE item[k]]
          /\ todo' = [todo EXCEPT ![w] = {item[k] : k \in gone}]
          /\ live' = [live EXCEPT ![w] = None]
      BY <2>3 DEF ParkRoom, HasRoom, Gone, Expiry
    <3>3. /\ gone \subseteq Parked /\ Parked \subseteq Tokens
          /\ \A k \in gone : item[k] \in Calls
          /\ x \in Calls /\ x \in Held(w)
      BY <2>1 DEF Overdue, Parked, TypeOK, Held
    <3>4. /\ \A k \in Tokens : item[k] # x
          /\ \A q \in Procs \ {w} : x \notin Held(q)
      BY <2>1, <3>3 DEF TransactionOwned, OneOwner
    <3>5. /\ Held(w) = {x} /\ Held(w)' = {item[k] : k \in gone}
          /\ \A q \in Procs \ {w} : Held(q)' = Held(q) /\ live'[q] = live[q]
                                    /\ todo'[q] = todo[q]
          /\ live'[w] = None /\ live'[w] \notin todo'[w]
      BY <2>1, <3>2, <3>3 DEF Held, TypeOK
    <3> HIDE DEF token, gone, x
    <3>6. \A k \in Tokens \ {token} : item'[k] = IF k \in gone THEN None ELSE item[k]
      BY <3>2 DEF gone
    <3>7. item'[token] = x
      BY <3>1, <3>2
    <3>8. \A k, j \in Tokens : item'[k] # None /\ item'[k] = item'[j] => k = j
      BY <3>4, <3>6, <3>7 DEF TransactionOwned, OneOwner
    <3>9. ASSUME NEW k \in Tokens, NEW q \in Procs PROVE item'[k] \notin Held(q)'
      <4>1. None \notin Held(q)'
        BY <3>3, <3>5 DEF Held, TypeOK
      <4>2. CASE k = token
        BY <3>3, <3>4, <3>5, <3>7, <4>2
      <4>3. CASE k # token /\ q = w
        BY <3>3, <3>5, <3>6, <4>1, <4>3 DEF TransactionOwned, OneOwner, Parked
      <4>4. CASE k # token /\ q # w
        BY <3>5, <3>6, <4>1, <4>4 DEF TransactionOwned, OneOwner
      <4> QED
        BY <4>2, <4>3, <4>4
    <3>10. ASSUME NEW q \in Procs \ {w} PROVE Held(w)' \cap Held(q)' = {}
      BY <3>3, <3>5 DEF TransactionOwned, OneOwner
    <3>11. OneOwner'
      BY <3>5, <3>8, <3>9, <3>10 DEF TransactionOwned, OneOwner
    <3>12. OpenIsOwned'
      <4>1. ASSUME NEW y \in Calls
            PROVE  ((\E k \in Tokens : item[k] = y) \/ \E q \in Procs : y \in Held(q))
                   <=> ((\E k \in Tokens : item'[k] = y) \/ \E q \in Procs : y \in Held(q)')
        <5>1. CASE y = x
          BY <2>1, <3>1, <3>3, <3>7, <5>1
        <5>2. CASE y # x
          <6>1. ASSUME NEW k \in Tokens, item[k] = y
                PROVE  (\E j \in Tokens : item'[j] = y) \/ y \in Held(w)'
            <7>1. CASE k \in gone
              BY <3>5, <6>1, <7>1
            <7>2. CASE k \notin gone
              <8>1. k # token
                BY <6>1, <7>2 DEF gone, Parked
              <8> QED
                BY <3>6, <6>1, <7>2, <8>1
            <7> QED
              BY <7>1, <7>2
          <6>2. ASSUME NEW k \in Tokens, item'[k] = y PROVE item[k] = y
            BY <3>6, <3>7, <5>2, <6>2
          <6>3. \A q \in Procs : y \in Held(q) => q # w /\ y \in Held(q)'
            BY <3>5, <5>2
          <6>4. ASSUME NEW q \in Procs, y \in Held(q)'
                PROVE  (\E k \in Tokens : item[k] = y) \/ y \in Held(q)
            BY <3>3, <3>5, <6>4
          <6> QED
            BY <2>1, <6>1, <6>2, <6>3, <6>4
        <5> QED
          BY <5>1, <5>2
      <4> QED
        BY <2>1, <4>1 DEF TransactionOwned, OpenIsOwned, txVars
    <3>13. ClosedOnce'
      BY <2>1 DEF TransactionOwned, ClosedOnce, txVars
    <3> QED
      BY <3>11, <3>12, <3>13 DEF TransactionOwned
  <2> QED
    BY <1>12, <2>2, <2>3 DEF Park
<1>13. ASSUME NEW w \in Workers, Take(w) PROVE TransactionOwned'
  <2> DEFINE k == call[job[w]].token
  <2>1. /\ pc[w] = "response" /\ w \in Procs /\ live[w] = None /\ todo[w] = {}
        /\ UNCHANGED txVars /\ k \in Tokens
    <3>1. pc[w] = "response" /\ w \in Procs /\ UNCHANGED txVars
      BY <1>13 DEF Take, Procs
    <3>2. live[w] = None /\ todo[w] = {} /\ job[w] \in Calls /\ call[job[w]].phase = "response"
      BY <1>0, <3>1 DEF WorkerOK
    <3>3. call[job[w]] \in CallForms \cup {NoCall}
      BY <3>2 DEF TypeOK
    <3>4. k \in Tokens
      BY <3>2, <3>3 DEF CallForms, NoCall
    <3> QED
      BY <3>1, <3>2, <3>4
  <2>2. /\ item' = [item EXCEPT ![k] = None]
        /\ live' = [live EXCEPT ![w] = IF k \in Overdue THEN None ELSE item[k]]
        /\ todo' = [todo EXCEPT ![w] = {item[j] : j \in Overdue \cap {k}}]
    BY <1>13 DEF Take
  <2> HIDE DEF k
  <2> DEFINE K == Parked \cap {k}
  <2>3. item' = [j \in Tokens |-> IF j \in K THEN None ELSE item[j]]
    BY <2>1, <2>2 DEF Parked, TypeOK
  <2>4. OthersKeep(w)
    BY <2>2 DEF OthersKeep, TypeOK
  <2>5. Held(w)' = Held(w) \cup {item[j] : j \in K} /\ live'[w] \notin todo'[w]
    <3>1. Held(w) = {}
      BY <2>1 DEF Held
    <3>2. CASE k \in Overdue
      BY <2>1, <2>2, <3>1, <3>2 DEF Held, Overdue, Parked, TypeOK
    <3>3. CASE k \in Parked \ Overdue
      BY <2>1, <2>2, <3>1, <3>3 DEF Held, Overdue, Parked, TypeOK
    <3>4. CASE k \notin Parked
      BY <2>1, <2>2, <3>1, <3>4 DEF Held, Overdue, Parked, TypeOK
    <3> QED
      BY <3>2, <3>3, <3>4
  <2> QED
    BY <2>1, <2>3, <2>4, <2>5, OwnerTakes
<1>14. ASSUME NEW p \in Procs, Discard(p) PROVE TransactionOwned'
  <2>1. PICK x \in todo[p] : CloseTx(x) /\ todo' = [todo EXCEPT ![p] = @ \ {x}]
    BY <1>14 DEF Discard
  <2>2. x \in Calls /\ x \in Held(p) /\ x # live[p]
    BY DEF TypeOK, Held, TransactionOwned, OneOwner
  <2>3. item' = item /\ live' = live /\ OthersKeep(p)
    BY <1>14, <2>1 DEF Discard, OthersKeep, regVars, workVars, TypeOK
  <2>4. Held(p)' = Held(p) \ {x} /\ live'[p] \notin todo'[p]
    BY <2>1, <2>2, <2>3 DEF Held, TypeOK, TransactionOwned, OneOwner
  <2> QED
    BY <2>1, <2>2, <2>3, <2>4, OwnerCloses
<1>15. ASSUME NEW p \in Procs, NEW K \in SUBSET Parked, todo[p] = {}, live[p] = None,
              item' = [k \in Tokens |-> IF k \in K THEN None ELSE item[k]],
              todo' = [todo EXCEPT ![p] = {item[k] : k \in K}],
              live' = live, UNCHANGED txVars
       PROVE  TransactionOwned'
  <2>1. OthersKeep(p)
    BY <1>15 DEF OthersKeep, TypeOK
  <2>2. Held(p)' = Held(p) \cup {item[k] : k \in K} /\ live'[p] \notin todo'[p]
    BY <1>15 DEF Held, TypeOK, Parked
  <2> QED
    BY <1>15, <2>1, <2>2, OwnerTakes
<1>16. ASSUME NEW k \in Tokens, Drop(k) PROVE TransactionOwned'
  <2>1. item' = [j \in Tokens |-> IF j \in {k} THEN None ELSE item[j]]
    BY <1>16 DEF Drop, TypeOK
  <2>2. todo' = [todo EXCEPT ![Receiver] = {item[j] : j \in {k}}]
    BY <1>16 DEF Drop
  <2> QED
    BY <1>15, <1>16, <2>1, <2>2 DEF Drop, ControlOK, workVars
<1>17. CASE Sweep
  BY <1>15, <1>17 DEF Sweep, Overdue, ControlOK, workVars
<1>18. CASE CloseRegistry
  <2>1. item' = [j \in Tokens |-> IF j \in Parked THEN None ELSE item[j]]
    BY <1>18 DEF CloseRegistry, Parked
  <2> QED
    BY <1>15, <1>18, <2>1 DEF CloseRegistry, ControlOK
<1>19. ASSUME NEW w \in Workers, NEW c \in Calls, NEW form \in CallForms, Start(w, c, form)
       PROVE  TransactionOwned'
  BY <1>19, OwnerStays DEF Start, regVars
<1>20. ASSUME NEW c \in Calls, NEW form \in CallForms, Shed(c, form) PROVE TransactionOwned'
  BY <1>20, OwnerStays DEF Shed, regVars, workVars
<1>21. CASE Terminate \/ Drained \/ Tick \/ UNCHANGED vars
  BY <1>21, OwnerStays DEF Terminate, Drained, Tick, vars, regVars, workVars, txVars
<1>22. ASSUME NEW w \in Workers, Panics(w) PROVE TransactionOwned'
  <2>1. pc[w] # "idle" /\ item' = item /\ todo' = todo /\ Send(w, "panic", FALSE)
    BY <1>22 DEF Panics, regVars
  <2>2. CASE live[w] = None /\ UNCHANGED txVars
    BY <1>3, <2>1, <2>2
  <2>3. CASE DropLive(w)
    BY <1>2, <2>1, <2>3 DEF DropLive
  <2>4. CASE DropOwn(w)
    <3>1. live[w] = None /\ tx[job[w]] = "none"
      BY <1>0, <2>1, <2>4 DEF DropOwn, WorkerOK
    <3> QED
      BY <1>5, <2>1, <2>4, <3>1 DEF DropOwn, RunAndClose
  <2> QED
    BY <1>22, <2>2, <2>3, <2>4 DEF Panics
<1> QED
  BY <1>6, <1>7, <1>8, <1>9, <1>10, <1>11, <1>12, <1>13, <1>14, <1>16, <1>17, <1>18,
     <1>19, <1>20, <1>21, <1>22 DEF Next, WorkerStep

\* The invariant is inductive; the types, the control state and the ownership
\* of the transactions need each other.
LEMMA CoreInvariant == Spec => [](TypeOK /\ ControlOK /\ TransactionOwned)
<1>1. Init => TypeOK /\ ControlOK /\ TransactionOwned
  BY TypeInit, ControlInit, OwnerInit
<1>2. TypeOK /\ ControlOK /\ TransactionOwned /\ [Next]_vars => (TypeOK /\ ControlOK /\ TransactionOwned)'
  BY TypeStep, ControlStep, OwnerStep DEF TransactionOwned
<1> QED
  BY <1>1, <1>2, PTL DEF Spec

\* The variables of the registry and of the handlers keep their types.
THEOREM TypeCorrect == Spec => []TypeOK
BY CoreInvariant, PTL

\* Every open transaction has exactly one owner, the registry or a goroutine,
\* and none is closed twice.
THEOREM TransactionsOwned == Spec => []TransactionOwned
BY CoreInvariant, PTL

\* When the janitor has stopped the registry is empty for good, and only the
\* discards in progress keep a transaction open.
THEOREM ShutdownEmpties == Spec => []StoppedRegistryIsEmpty
<1>1. TypeOK /\ ControlOK /\ TransactionOwned => StoppedRegistryIsEmpty
  <2> SUFFICES ASSUME TypeOK, ControlOK, TransactionOwned, pc[Janitor] = "exit",
                      NEW x \in Calls, tx[x] = "open"
               PROVE  x \in todo[Janitor] \/ x \in todo[Receiver]
    BY DEF StoppedRegistryIsEmpty
  <2>1. Parked = {} /\ \A w \in Workers : Held(w) = {}
    BY DEF ControlOK, WorkerOK, Held
  <2>2. \E p \in Procs : x \in Held(p)
    BY <2>1, ResumeAssumption DEF TransactionOwned, OpenIsOwned, Parked
  <2> QED
    BY <2>1, <2>2 DEF Procs, Held, ControlOK
<1> QED
  BY <1>1, CoreInvariant, PTL
=============================================================================
