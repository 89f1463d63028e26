------------------------------- MODULE Phases -------------------------------
(***************************************************************************)
(* What a call reports of an engine transaction (internal/engine and its   *)
(* coraza adapter): begin and finish, which keep the first interruption of *)
(* their two phases, outcome, which picks the matches of these phases, and *)
(* Anomaly, which looks the score up under several names. What the rules   *)
(* find is the engine's. A transaction is                                  *)
(*   its      the interruption of each phase, NoInterruption if none; one  *)
(*            has an action and says whether it has an address to go to,   *)
(*   matched  rules that matched: id, phase (up to 5, logging), tags, and  *)
(*            whether there is a message, which makes it a finding,        *)
(*   vars     the TX variables that are set, each with its values: numbers *)
(*            or Junk.                                                     *)
(***************************************************************************)
EXTENDS Integers, Sequences, FiniteSets, FiniteSetsExt

NoInterruption == [action |-> "", url |-> FALSE]
Junk == -1000

\* Ranges.Has, and what cutRange accepts.
Has(ranges, id) == \E r \in ranges : id \in r[1]..r[2]
ValidRange(r) == 0 <= r[1] /\ r[1] <= r[2]

\* Intervention.Disruptive, as convert has it
Disruptive(it) == it.action \notin {"", "pass", "allow"}

\* begin and finish: the second phase counts if the first has said nothing.
FirstOf(first, second) == IF first # NoInterruption THEN first ELSE second

\* anomaly and firstInt: the first of the names that is set to a number, and the
\* limit; what is missing or no number is zero.
IntOf(t, name) ==
    IF name \in DOMAIN t.vars /\ t.vars[name] # << >> THEN t.vars[name][1] ELSE Junk

AnomalyOf(t, names, limit) ==
    LET set == {i \in DOMAIN names : IntOf(t, names[i]) # Junk}
    IN  [score |-> IF set = {} THEN 0 ELSE IntOf(t, names[Min(set)]),
         threshold |-> IF IntOf(t, limit) = Junk THEN 0 ELSE IntOf(t, limit)]

Outcome(t, phases, it, anomaly) ==
    [it |-> it,
     matched |-> {m \in t.matched : m.phase \in phases},
     anomaly |-> anomaly.score,
     threshold |-> anomaly.threshold]

\* Apply and ApplyKeep: a request or a frame. Live.Resume and ApplyResponse: a
\* response, of which the interruptions of the request are no part.
Inbound(t) ==
    Outcome(t, 1..2, FirstOf(t.its[1], t.its[2]),
            AnomalyOf(t, <<"blocking_in", "in", "detection_in">>, "limit_in"))
Outbound(t) ==
    Outcome(t, 3..4, FirstOf(t.its[3], t.its[4]),
            AnomalyOf(t, <<"blocking_out", "out", "detection_out">>, "limit_out"))
=============================================================================
