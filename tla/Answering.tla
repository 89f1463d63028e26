------------------------------ MODULE Answering ------------------------------
(***************************************************************************)
(* What the work queue promises of every message that reaches Submit, with *)
(* none of its machinery: a message is let in while there is room, goes to *)
(* the engine or is given up, and is answered once, by one of three        *)
(* answers. There is no mutex, no timer and no owner here; time is the     *)
(* freedom to give a message up.                                           *)
(***************************************************************************)
EXTENDS FiniteSets, Naturals

CONSTANTS
    Tasks,   \* the messages
    Depth,   \* the room in the queue
    Full     \* what becomes of a message that finds none: "drop" or "wait"

VARIABLES
    place,   \* where each message is, or how it was answered
    open,    \* messages are let in
    gone     \* the queue has been shut down

vars == <<place, open, gone>>

At(x) == {t \in Tasks : place[t] = x}

\* The messages of ts move to x.
Move(ts, x) == place' = [t \in Tasks |-> IF t \in ts THEN x ELSE place[t]]

Init ==
    /\ place = [t \in Tasks |-> "new"]
    /\ open = TRUE
    /\ gone = FALSE

Arrive(t) ==
    /\ place[t] = "new"
    /\ Move({t}, "waiting") \/ Move({t}, "late")

LetIn(t) ==
    /\ place[t] = "waiting"
    /\ open
    /\ Cardinality(At("queued")) < Depth
    /\ Move({t}, "queued")

\* Only a queue that drops refuses, and only when it is full.
Refuse(t) ==
    /\ place[t] = "waiting"
    /\ Full = "drop"
    /\ Cardinality(At("queued")) >= Depth
    /\ Move({t}, "refused")

\* Out of time, in front of the queue or in it.
GiveUp(ts) ==
    /\ ts # {}
    /\ ts \subseteq At("queued") \/ \E t \in At("waiting") : ts = {t}
    /\ Move(ts, "late")

\* A worker takes one, and gives up the ones it finds out of time.
Take(t, late) ==
    /\ place[t] = "queued"
    /\ late \subseteq At("queued") \ {t}
    /\ place' = [u \in Tasks |-> IF u = t THEN "taken"
                                ELSE IF u \in late THEN "late" ELSE place[u]]

Run(t) ==
    /\ place[t] = "taken"
    /\ Move({t}, "running")

Answer(t) ==
    \/ place[t] = "running" /\ Move({t}, "evaluated")
    \/ place[t] = "refused" /\ Move({t}, "limit")
    \/ place[t] \in {"late", "taken"} /\ Move({t}, "deadline")

Step ==
    /\ \/ \E t \in Tasks : Arrive(t) \/ LetIn(t) \/ Refuse(t) \/ Run(t) \/ Answer(t)
       \/ \E ts \in SUBSET Tasks : GiveUp(ts)
       \/ \E t \in Tasks, late \in SUBSET Tasks : Take(t, late)
    /\ UNCHANGED <<open, gone>>

Close ==
    /\ open
    /\ open' = FALSE
    /\ UNCHANGED <<place, gone>>

\* Shut down, the queue has nothing left to evaluate.
Leave ==
    /\ ~open
    /\ At("queued") = {} /\ At("taken") = {} /\ At("running") = {}
    /\ gone' = TRUE
    /\ UNCHANGED <<place, open>>

Next == Step \/ Close \/ Leave

Spec == Init /\ [][Next]_vars
=============================================================================
