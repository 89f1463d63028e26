------------------------------ MODULE Sessions ------------------------------
(***************************************************************************)
(* What the kept transactions promise, with none of the machinery that     *)
(* keeps them: a transaction belongs to one call, waits in the slot of     *)
(* that call's token, is handed to one response call with the same token   *)
(* or forgotten, and is closed once. There are no goroutines, locks,       *)
(* clocks or replies here; expiry, releases and shutdown are the freedom   *)
(* to forget.                                                              *)
(***************************************************************************)
EXTENDS FiniteSets, Naturals

CONSTANTS
    Calls,    \* the calls, and the transactions they open
    Tokens,   \* the names they are kept under
    None,     \* no call, no token
    Max       \* how many may be kept

VARIABLES
    token,   \* the token of each call
    place,   \* how far each transaction has come
    slot,    \* the transaction kept for each token
    heir     \* the transaction each response call was evaluated on

vars == <<token, place, slot, heir>>

Init ==
    /\ token = [c \in Calls |-> None]
    /\ place = [c \in Calls |-> "new"]
    /\ slot = [k \in Tokens |-> None]
    /\ heir = [c \in Calls |-> None]

Move(x, from, to) ==
    /\ place[x] \in from
    /\ place' = [place EXCEPT ![x] = to]

\* The transactions in the slots of ks.
Forgotten(ks) == {slot[k] : k \in ks} \ {None}

Call(c, k) ==
    /\ token[c] = None
    /\ token' = [token EXCEPT ![c] = k]
    /\ UNCHANGED <<place, slot, heir>>

\* A transaction that does not outlive its call, unless a panic loses it.
Plain(x) ==
    /\ token[x] # None
    /\ Move(x, {"new"}, "closed") \/ Move(x, {"new"}, "leaked")
    /\ UNCHANGED <<token, slot, heir>>

Open(x) ==
    /\ token[x] # None
    /\ Move(x, {"new"}, "open")
    /\ UNCHANGED <<token, slot, heir>>

\* The token's slot is taken over; what was in it, and in others, is forgotten.
Keep(x, ks) ==
    LET old == Forgotten(ks \cup {token[x]})
    IN  /\ place[x] = "open"
        /\ slot' = [k \in Tokens |-> IF k = token[x] THEN x
                                     ELSE IF k \in ks THEN None ELSE slot[k]]
        /\ place' = [y \in Calls |-> IF y = x THEN "kept"
                                     ELSE IF y \in old THEN "forgotten" ELSE place[y]]
        /\ Cardinality({k \in Tokens : slot'[k] # None}) <= Max
        /\ UNCHANGED <<token, heir>>

Forget(ks) ==
    /\ Forgotten(ks) # {}
    /\ slot' = [k \in Tokens |-> IF k \in ks THEN None ELSE slot[k]]
    /\ place' = [y \in Calls |-> IF y \in Forgotten(ks) THEN "forgotten" ELSE place[y]]
    /\ UNCHANGED <<token, heir>>

Take(k) ==
    /\ slot[k] # None
    /\ Move(slot[k], {"kept"}, "taken")
    /\ slot' = [slot EXCEPT ![k] = None]
    /\ UNCHANGED <<token, heir>>

Resume(c, x) ==
    /\ heir[c] = None
    /\ token[c] = token[x]
    /\ place[c] = "new"
    /\ Move(x, {"taken"}, "resumed")
    /\ heir' = [heir EXCEPT ![c] = x]
    /\ UNCHANGED <<token, slot>>

Close(x) ==
    /\ Move(x, {"open", "taken", "resumed", "forgotten"}, "closed")
    /\ UNCHANGED <<token, slot, heir>>

\* A panic of the call that has it in its hands; what is kept, forgotten or being
\* resumed is out of its reach.
Lose(x) ==
    /\ Move(x, {"open", "taken"}, "leaked")
    /\ UNCHANGED <<token, slot, heir>>

Next ==
    \/ \E c \in Calls, k \in Tokens : Call(c, k)
    \/ \E x \in Calls : Plain(x) \/ Open(x) \/ Close(x) \/ Lose(x)
    \/ \E x \in Calls, ks \in SUBSET Tokens : Keep(x, ks)
    \/ \E ks \in SUBSET Tokens : Forget(ks)
    \/ \E k \in Tokens : Take(k)
    \/ \E c, x \in Calls : Resume(c, x)

Spec == Init /\ [][Next]_vars
=============================================================================
