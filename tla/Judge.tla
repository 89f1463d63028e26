-------------------------------- MODULE Judge --------------------------------
(***************************************************************************)
(* One message through cmd/modsec: receive and its refusals, evaluate and  *)
(* the three inspections (inspect, inspectResponse, inspectFrame) with the *)
(* neighbours' asks (prior.Evaluate), the loaded objects (Loader), the     *)
(* engine's outcome (Phases), the verdict and its score (verdict.From),    *)
(* the outcome rows (prior.Fire, FireOverload) and the list writes         *)
(* (writeLists), and send with the audit event.                            *)
(* The registry is read anew at every step that needs it, and the watcher  *)
(* may replace the generation between two of them. A panic at any step     *)
(* ends in recoverInto. What becomes of the engine transaction is Resume's *)
(* part, and where the event goes AuditSink's; what the rules find, and    *)
(* the geo service, are choices.                                           *)
(***************************************************************************)
EXTENDS Integers, Sequences, FiniteSets, FiniteSetsExt, Functions, Loader, Phases

CONSTANTS
    Versions,   \* cfg.Versions
    Messages,   \* messages that do not become a call
    Asks,       \* actions neighbours may send
    MaxAsks,    \* bound on how many come with a call
    Policies,   \* what generations say of the route's profile
    Loads,      \* what a call's locators and the store may be
    Found,      \* transactions as the engine may leave them
    Fills,      \* values of Task.Fill
    DenyIDs,    \* ranges of the rules whose match is a deny
    DenyTags,   \* and tags of such rules
    NoAt        \* a row without at

ASSUME JudgeAssumption ==
    /\ MaxAsks \in Nat
    /\ \A r \in DenyIDs : ValidRange(r)
    /\ 0 \notin Versions
    /\ \A a \in Asks : a.delta \in Int
    /\ \A p \in Policies : p.rules \in Seq(Range(p.rules)) /\ p.rows \in Seq(Range(p.rows))
    /\ \A t \in Found, v \in {"blocking_in", "in", "detection_in", "limit_in",
                            "blocking_out", "out", "detection_out", "limit_out"} :
          v \in DOMAIN t.vars => t.vars[v] \in Seq(Int)
    /\ \A l \in Loads :
          \A x \in {l.headers, l.args, l.body, l.reqHeaders, l.reqArgs} :
              x.form \in {"nil", "blank", "lost", "stored"}
    /\ Fills \subseteq 0..100

VARIABLES
    policy,    \* what the registry holds for the profile now
    call,      \* phase, fill, whether the client address is known, the kept state
    stage,     \* how far the message has come
    rules,     \* the prior rules this call read
    asks,      \* the asks delivered so far and what was taken of each
    ask,       \* prior.Ask: skip and percent
    load,      \* the locators and the store, what LoadMany made of them, and
               \* the code of bodyError
    out,       \* the engine outcome
    reply,     \* the reply so far
    fired,     \* the rows that fired
    bans,      \* list writes still to make
    failed,    \* a list write could not resolve its subject
    wire       \* the request goes to send, there is no reply subject, a panic
               \* was recovered; the replies published, and the audit events

evalVars == <<rules, asks, ask, load, out, fired, bans, failed>>
vars == <<policy, call, stage, rules, asks, ask, load, out, reply, fired, bans,
          failed, wire>>

NoCall == [phase |-> "none", fill |-> 0, addr |-> FALSE, state |-> "none",
           shed |-> "no"]
NoReply == [verdict |-> "none", score |-> 0, code |-> "none", rid |-> FALSE,
            actions |-> << >>]
NoOut == [it |-> NoInterruption, matched |-> {}, anomaly |-> 0, threshold |-> 0]
NoAsk == [skip |-> FALSE, percent |-> 0]
NoLoad == [from |-> << >>, got |-> << >>, code |-> "none"]

\* NewReply and ErrorReply
Reply(v, score, code) ==
    [verdict |-> v, score |-> score, code |-> code, rid |-> TRUE, actions |-> << >>]

\* FallbackReply, with the id of the message or without.
Fallback(code, rid) == [Reply("error", 0, code) EXCEPT !.rid = rid]

-----------------------------------------------------------------------------
(* Policies: what loadFile accepts.                                        *)

\* validate: a named sender, and only the two verbs on the request axis.
ValidRule(r) ==
    /\ r.from # "*"
    /\ r.accept # {} /\ r.accept \subseteq {"skip", "threshold"}
    /\ r.apply \subseteq {"request"}

\* overload.Check
CheckAt(at) == at = NoAt \/ at \in 25..100

\* outcomeVerbs: the axes of each verb, the default one first.
Verbs ==
    [challenge |-> <<"request">>, threshold |-> <<"request">>, skip |-> <<"request">>,
     mutate |-> <<"request">>, reauth |-> <<"session">>,
     note |-> <<"request", "ip", "asn", "session">>,
     active |-> <<"request", "conn">>, passive |-> <<"request", "conn">>,
     off |-> <<"request", "conn">>, vote |-> <<"request", "conn">>,
     audit |-> <<"request", "response">>, archive |-> <<"request", "response">>,
     mark |-> <<"request">>, score |-> <<"request">>]

AuditVerbs == {"audit", "archive"}
RecordVerbs == AuditVerbs \cup {"mark", "score"}
ControlVerbs == {"active", "passive", "off", "vote"}

Axis(o) ==
    IF o.apply # "" THEN o.apply
    ELSE IF Len(Verbs[o.do]) = 1 \/ o.do \in AuditVerbs THEN Verbs[o.do][1] ELSE ""

\* validateOutcomeAsk and checkPhaseAsk. What else a verb carries (delta, value,
\* counter, group, marker, objects) is whether it fits the verb.
ValidAsk(o) ==
    /\ o.on = "deny" => o.do \in RecordVerbs
    /\ o.do \in DOMAIN Verbs
    /\ IF o.apply = "" THEN Len(Verbs[o.do]) = 1 \/ o.do \in AuditVerbs
                       ELSE o.apply \in Range(Verbs[o.do])
    /\ o.do \in RecordVerbs => ~o.to
    /\ o.do \in ControlVerbs => o.to
    /\ o.phase # "" =>
          /\ o.do \in ControlVerbs
          /\ o.phase \in {"request", "response", "frame"}
          /\ Axis(o) = "conn" => o.phase = "frame"
    /\ o.fits

\* validateOutcome and checkRuleFilter
ValidRow(o) ==
    /\ CASE o.on \in {"deny", "allow", "rule"} -> o.at = NoAt /\ o.cmp = "ge"
         [] o.on = "overload" -> CheckAt(o.at) /\ o.cmp = "ge"
         [] o.on = "score" -> o.at # NoAt /\ o.at >= 0
    /\ \A r \in o.ids : ValidRange(r)
    /\ IF o.on = "rule" THEN o.ids # {} \/ o.tags # {}
                        ELSE o.ids = {} /\ o.tags = {}
    /\ IF o.do # "" THEN ValidAsk(o) ELSE o.fits

ValidPolicy(p) ==
    /\ \A i \in DOMAIN p.rules : ValidRule(p.rules[i])
    /\ \A i \in DOMAIN p.rows : ValidRow(p.rows[i])

\* PriorRules and Outcomes of a profile the generation does not have.
RulesOf(p) == IF p.known THEN p.rules ELSE << >>
RowsOf(p) == IF p.known THEN p.rows ELSE << >>

-----------------------------------------------------------------------------
(* The arithmetic of the score.                                            *)

\* math.Round(100 * anomaly / threshold / 2), cut at 100. The quotient is a tie
\* only where it is exact, so halves go up.
Calibrate(anomaly, threshold) ==
    LET t == IF threshold <= 0 THEN 5 ELSE threshold
    IN  IF anomaly <= 0 THEN 0 ELSE Min({(100 * anomaly + t) \div (2 * t), 100})

\* Mutant of ScaleScore: the sign of the factor turned round.
ScaleReversed(score, percent) ==
    IF score <= 0 THEN {0}
    ELSE {Min({Max({(score * (100 - percent) + 50) \div 100, 0}), 100})}

\* math.Round(score * (1 + percent / 100)): the factor is not exact in floating
\* point, so a tie may go either way. The result is the set of possible scores.
ScaleScore(score, percent) ==
    LET n == score * (100 + percent)
        rounded == IF n % 100 = 50 THEN {n \div 100, n \div 100 + 1}
                                   ELSE {(n + 50) \div 100}
    IN  IF percent = 0 \/ score <= 0 THEN {Max({score, 0})}
        ELSE {Min({Max({k, 0}), 100}) : k \in rounded}

\* overload.At and overload.Fires
At(o) == IF o.at = NoAt THEN 100 ELSE o.at
Fires(at, fill, shed) == shed \/ (at < 100 /\ fill >= at)

-----------------------------------------------------------------------------
(* prior.Evaluate: one ask at a time.                                      *)

\* Rule.Accepts, WantsAxis and WantsCode
Takes(r, a) ==
    /\ r.from = a.from
    /\ a.do \in r.accept
    /\ r.apply = {} \/ a.axis \in r.apply
    /\ r.codes = {} \/ a.code \in r.codes

\* How many rules take the ask: each one counts.
Takers(a) == Cardinality({i \in DOMAIN rules : Takes(rules[i], a)})

Took(a) == IF a.do = "threshold" THEN Takers(a) * a.delta ELSE 0

\* Mutant of Clamp: the sum is used as it is.
NoClamp(percent) == percent

Clamp(percent) == Max({-100, Min({percent, 900})})

-----------------------------------------------------------------------------
(* verdict.From                                                            *)

\* fromIntervention: an action it does not know, and a redirect to nowhere, end
\* in the allow the reply began with.
FromIntervention(it) ==
    CASE it.action = "redirect" /\ it.url -> Reply("redirect", 0, "CRS_REDIRECT")
      [] it.action \in {"deny", "block", "drop"} -> Reply("deny", 0, "CRS_RULE")
      [] OTHER -> Reply("allow", 0, "none")

\* WithScore refuses what is not a percentage.
WithScore(score) ==
    IF score \in 0..100 THEN Reply("score", score, "CRS_ANOMALY")
                        ELSE Reply("allow", 0, "MODSEC_SCORE_RANGE")

From(o, percent) ==
    IF Disruptive(o.it) THEN {FromIntervention(o.it)}
    ELSE IF \E m \in o.matched : Has(DenyIDs, m.id) \/ m.tags \cap DenyTags # {}
    THEN {Reply("deny", 0, "CRS_RULE")}
    ELSE IF o.anomaly > 0
    THEN {WithScore(s) : s \in ScaleScore(Calibrate(o.anomaly, o.threshold), percent)}
    ELSE {Reply("allow", 0, "none")}

-----------------------------------------------------------------------------
(* prior.Fire and FireOverload.                                            *)

\* Outcome.Matches
Matches(o, r) ==
    CASE o.on = "allow" -> r.verdict = "allow"
      [] o.on = "deny" -> r.verdict \in {"deny", "redirect"}
      [] o.on = "score" ->
            r.verdict = "score" /\ CASE o.cmp = "eq" -> r.score = o.at
                                     [] o.cmp = "below" -> r.score < o.at
                                     [] OTHER -> r.score >= o.at
      [] OTHER -> FALSE

\* Outcome.hit: a finding that passes both filters.
Hit(o, matched) ==
    \E m \in matched :
        /\ m.finding
        /\ o.ids = {} \/ Has(o.ids, m.id)
        /\ o.tags = {} \/ m.tags \cap o.tags # {}

\* The rows at the places in I, in their order: one pass over the rows, each one
\* that is wanted appended.
Picked(rows, I) ==
    LET upTo[i \in 0..Len(rows)] ==
            IF i = 0 THEN << >>
            ELSE IF i \in I THEN Append(upTo[i - 1], rows[i]) ELSE upTo[i - 1]
    IN  upTo[Len(rows)]

Fire(rows, r, matched) ==
    Picked(rows, {i \in DOMAIN rows : IF rows[i].on = "rule" THEN Hit(rows[i], matched)
                                                            ELSE Matches(rows[i], r)})

FireOverload(rows, fill, shed) ==
    Picked(rows, {i \in DOMAIN rows :
                      rows[i].on = "overload" /\ Fires(At(rows[i]), fill, shed)})

\* A row asks, or writes a list if there is an address to write.
AsksOf(rows) == Picked(rows, {i \in DOMAIN rows : rows[i].do # ""})
BansOf(rows) ==
    IF call.addr THEN Picked(rows, {i \in DOMAIN rows : rows[i].do = ""}) ELSE << >>

\* ask: the action as it leaves.
Action(o) == [do |-> o.do, axis |-> Axis(o), to |-> o.to, on |-> o.on]
Actions(rows) == [i \in DOMAIN AsksOf(rows) |-> Action(AsksOf(rows)[i])]

-----------------------------------------------------------------------------
(* The message and the call.                                               *)

Init ==
    /\ policy \in {p \in Policies : ValidPolicy(p)}
    /\ call = NoCall
    /\ stage = "received"
    /\ rules = << >>
    /\ asks = << >>
    /\ ask = NoAsk
    /\ load = NoLoad
    /\ out = NoOut
    /\ reply = NoReply
    /\ fired = << >>
    /\ bans = << >>
    /\ failed = FALSE
    /\ wire = [known |-> FALSE, mute |-> FALSE, panic |-> FALSE,
               sent |-> << >>, events |-> << >>]

\* The watcher stores another generation, one whose policies load.
Swap(p) ==
    /\ stage \notin {"received", "send", "audit", "done"}
    /\ ValidPolicy(p)
    /\ policy' = p
    /\ UNCHANGED <<call, stage, evalVars, reply, wire>>

\* The handler has its reply and goes on to send.
Send(r) ==
    /\ reply' = r
    /\ stage' = "send"

\* Parse and Locator.validate
Parse(m) ==
    /\ m.json
    /\ m.rid /\ m.v # 0 /\ m.inspector /\ m.phase
    /\ m.release = "no" => m.http /\ m.locators
    /\ m.release # "empty"

\* receive: what cannot be read, or is of another version, is refused without
\* the pool, and a release is not answered at all. The refusal of a phase that is
\* not supported is never met: Parse has refused such a message before.
Receive(m) ==
    /\ stage = "received"
    /\ \/ /\ ~Parse(m)
          /\ Send(Fallback("MODSEC_MALFORMED_REQUEST", m.rid))
          /\ UNCHANGED wire
       \/ /\ Parse(m) /\ m.v \notin Versions
          /\ Send(Reply("error", 0, "MODSEC_UNSUPPORTED_VERSION"))
          /\ wire' = [wire EXCEPT !.known = TRUE]
       \/ /\ Parse(m) /\ m.v \in Versions /\ m.release = "token"
          /\ stage' = "done"
          /\ wire' = [wire EXCEPT !.mute = TRUE]
          /\ UNCHANGED reply
    /\ UNCHANGED <<policy, call, evalVars>>

\* evaluate on a task the pool refused: overload rows only for a full queue.
Shed(c) ==
    /\ c.shed # "no"
    /\ reply' = Reply("error", 0, c.shed)
    /\ stage' = IF c.shed = "limit" /\ c.phase = "request" THEN "shed" ELSE "send"

\* evaluate otherwise; the response phase reads the rules before it selects.
Inspect(c) ==
    /\ c.shed = "no"
    /\ stage' = IF c.phase = "response" THEN "rules" ELSE "select"
    /\ UNCHANGED reply

\* The pool hands a call to evaluate.
Begin(c) ==
    /\ stage = "received"
    /\ call' = c
    /\ Shed(c) \/ Inspect(c)
    /\ wire' = [wire EXCEPT !.known = TRUE]
    /\ UNCHANGED <<policy, evalVars>>

ShedRows ==
    /\ stage = "shed"
    /\ fired' = FireOverload(RowsOf(policy), call.fill, TRUE)
    /\ bans' = BansOf(fired')
    /\ stage' = "write"
    /\ UNCHANGED <<policy, call, rules, asks, ask, load, out, reply, failed, wire>>

\* registry.Select, and the binary frames.
Select ==
    /\ stage = "select"
    /\ \/ ~policy.known /\ Send(Reply("error", 0, "MODSEC_UNKNOWN_PROFILE"))
       \/ /\ policy.known /\ call.state = "binary"
          /\ Send(Reply("allow", 0, "MODSEC_FRAME_BINARY"))
       \/ /\ policy.known /\ call.state # "binary"
          /\ stage' = IF call.phase = "response" THEN "load" ELSE "rules"
          /\ UNCHANGED reply
    /\ UNCHANGED <<policy, call, evalVars, wire>>

ReadRules ==
    /\ stage = "rules"
    /\ rules' = RulesOf(policy)
    /\ stage' = "deliver"
    /\ UNCHANGED <<policy, call, asks, ask, load, out, reply, fired, bans, failed, wire>>

\* Mutant of Deliver: the sum is cut after every ask.
DeliverClamped(a) ==
    /\ stage = "deliver"
    /\ Len(asks) < MaxAsks
    /\ ask' = [skip |-> ask.skip \/ (a.do = "skip" /\ Takers(a) > 0),
               percent |-> Clamp(ask.percent + Took(a))]
    /\ asks' = Append(asks, [ask |-> a, took |-> Took(a), applied |-> Takers(a) > 0])
    /\ UNCHANGED <<policy, call, stage, rules, load, out, reply, fired, bans, failed, wire>>

\* deliver and take
Deliver(a) ==
    /\ stage = "deliver"
    /\ Len(asks) < MaxAsks
    /\ ask' = [skip |-> ask.skip \/ (a.do = "skip" /\ Takers(a) > 0),
               percent |-> ask.percent + Took(a)]
    /\ asks' = Append(asks, [ask |-> a, took |-> Took(a), applied |-> Takers(a) > 0])
    /\ UNCHANGED <<policy, call, stage, rules, load, out, reply, fired, bans, failed, wire>>

Delivered ==
    /\ stage = "deliver"
    /\ ask' = [ask EXCEPT !.percent = Clamp(@)]
    /\ \/ ask.skip /\ Send(Reply("allow", 0, "MODSEC_SKIPPED"))
       \/ /\ ~ask.skip /\ call.state = "lost"
          /\ Send(Reply("deny", 0, "MODSEC_RESUME_LOST"))
       \/ /\ ~ask.skip /\ call.state # "lost"
          /\ stage' = IF call.state = "rebuild" THEN "select" ELSE "load"
          /\ UNCHANGED reply
    /\ UNCHANGED <<policy, call, rules, asks, load, out, fired, bans, failed, wire>>

-----------------------------------------------------------------------------
(* The loaded objects and the engine.                                      *)

\* The locators each inspection asks for, and the place of the body: Store has
\* those of the phase, RequestStore those of the request before it.
Wanted(c, l) ==
    CASE c.phase = "request" -> <<l.headers, l.args, l.body>>
      [] c.phase = "response" /\ c.state = "rebuild" ->
            <<l.headers, l.body, l.reqHeaders, l.reqArgs>>
      [] c.phase = "response" /\ c.state # "rebuild" -> <<l.headers, l.body>>
      [] c.phase = "frame" -> <<l.reqHeaders, l.body>>

BodyAt(c) == IF c.phase = "request" THEN 3 ELSE 2

BodyError(b) ==
    IF ~Available(b) THEN "MODSEC_BODY_UNAVAILABLE"
    ELSE IF b.truncated THEN "MODSEC_BODY_TRUNCATED" ELSE "none"

LoadObjects(l) ==
    LET got == LoadMany(l.db, Wanted(call, l))
    IN  /\ stage = "load"
        /\ load' = [from |-> <<l>>, got |-> got, code |-> BodyError(got[BodyAt(call)])]
        /\ stage' = "loaded"
        /\ UNCHANGED <<policy, call, rules, asks, ask, out, reply, fired, bans, failed, wire>>

\* headers and argsOf: what the engine is given for an object that is not there.
Seen(b) == IF Available(b) THEN b.data ELSE NoText

\* bodyError, or an engine that fails.
Fail ==
    /\ stage = "loaded"
    /\ Send(Reply("error", 0, IF load.code = "none" THEN "MODSEC_INTERNAL_ERROR"
                                                    ELSE load.code))
    /\ load' = [NoLoad EXCEPT !.code = load.code]
    /\ UNCHANGED <<policy, call, rules, asks, ask, out, fired, bans, failed, wire>>

\* Mutant of Reported: a response call reports the whole transaction.
ReportedWhole(c, t) ==
    IF c.phase = "response" THEN [Outbound(t) EXCEPT !.matched = t.matched] ELSE Inbound(t)

Reported(c, t) == IF c.phase = "response" THEN Outbound(t) ELSE Inbound(t)

Engine(t) ==
    /\ stage = "loaded"
    /\ load.code = "none"
    /\ load' = NoLoad
    /\ out' = Reported(call, t)
    /\ reply' \in From(out', ask.percent)
    /\ stage' = "fire"
    /\ UNCHANGED <<policy, call, rules, asks, ask, fired, bans, failed, wire>>

\* Mutant of FireRows: every phase goes on to the overload rows.
FireRowsAll ==
    /\ stage = "fire"
    /\ fired' = Fire(RowsOf(policy), reply, out.matched)
    /\ bans' = BansOf(fired')
    /\ stage' = "overload"
    /\ UNCHANGED <<policy, call, rules, asks, ask, load, out, reply, failed, wire>>

FireRows ==
    /\ stage = "fire"
    /\ fired' = Fire(RowsOf(policy), reply, out.matched)
    /\ bans' = BansOf(fired')
    /\ stage' = IF call.phase = "request" THEN "overload" ELSE "write"
    /\ UNCHANGED <<policy, call, rules, asks, ask, load, out, reply, failed, wire>>

MoreRows ==
    LET more == FireOverload(RowsOf(policy), call.fill, FALSE)
    IN  /\ stage = "overload"
        /\ fired' = fired \o more
        /\ bans' = bans \o BansOf(more)
        /\ stage' = "write"
        /\ UNCHANGED <<policy, call, rules, asks, ask, load, out, reply, failed, wire>>

\* writeLists: one row at a time. The geo service may be silent; the other rows
\* are written all the same. A service that knows nothing of the address and a
\* list that cannot be published (AddMany) are only logged, and a handler without
\* lists writes nothing: all three go on as if the row had been written.
WriteList ==
    /\ stage = "write"
    /\ bans # << >>
    /\ bans' = Tail(bans)
    /\ \/ UNCHANGED failed
       \/ Head(bans).net /\ failed' = TRUE
    /\ UNCHANGED <<policy, call, stage, rules, asks, ask, load, out, reply, fired, wire>>

\* Mutant of Written: the failure is only logged.
WrittenAnyway ==
    /\ stage = "write"
    /\ bans = << >>
    /\ Send([reply EXCEPT !.actions = Actions(fired)])
    /\ UNCHANGED <<policy, call, evalVars, wire>>

\* A shed call only logs a failed write.
Written ==
    /\ stage = "write"
    /\ bans = << >>
    /\ \/ /\ failed /\ call.shed = "no"
          /\ Send(Reply("error", 0, "MODSEC_GEO_UNAVAILABLE"))
       \/ /\ ~failed \/ call.shed # "no"
          /\ Send([reply EXCEPT !.actions = Actions(fired)])
    /\ UNCHANGED <<policy, call, evalVars, wire>>

-----------------------------------------------------------------------------
(* send, audit.Add and recoverInto.                                        *)

\* Marshal refuses a score that is not a percentage; the fallback goes out.
Payload(r) ==
    IF r.score \in 0..100 THEN r ELSE Fallback("MODSEC_INTERNAL_ERROR", r.rid)

\* A message without a reply subject gets nothing, not even an event.
PublishReply ==
    /\ stage = "send"
    /\ \/ /\ wire.sent = << >>
          /\ wire' = [wire EXCEPT !.mute = TRUE]
          /\ stage' = "done"
       \/ /\ wire' = [wire EXCEPT !.sent = Append(@, Payload(reply))]
          /\ stage' = "audit"
    /\ UNCHANGED <<policy, call, evalVars, reply>>

\* Sink.Add needs the request.
AddEvent ==
    /\ stage = "audit"
    /\ wire' = [wire EXCEPT !.events = IF wire.known THEN Append(@, reply) ELSE @]
    /\ stage' = "done"
    /\ UNCHANGED <<policy, call, evalVars, reply>>

\* Mutant of Recover: the request is still there and is reported a second time.
RecoverKnown ==
    /\ stage # "done"
    /\ ~wire.panic
    /\ Send(Fallback("MODSEC_INTERNAL_ERROR", call # NoCall))
    /\ load' = NoLoad
    /\ wire' = [wire EXCEPT !.panic = TRUE,
                            !.events = IF stage = "audit" THEN Append(@, reply) ELSE @]
    /\ UNCHANGED <<policy, call, rules, asks, ask, out, fired, bans, failed>>

\* A panic anywhere in receive or evaluate: the fallback goes the same way,
\* without the request. evaluate has its id; receive has none to give, whether
\* it panics before Parse or while it sends a refusal.
Recover ==
    /\ stage # "done"
    /\ ~wire.panic
    /\ Send(Fallback("MODSEC_INTERNAL_ERROR", call # NoCall))
    /\ load' = NoLoad
    /\ wire' = [wire EXCEPT !.panic = TRUE, !.known = FALSE]
    /\ UNCHANGED <<policy, call, rules, asks, ask, out, fired, bans, failed>>

\* What a call may look like: only a response has kept state, only a frame is
\* binary, and whoever is refused room saw a full queue.
CallForms ==
    {c \in [phase : {"request", "response", "frame"}, fill : Fills,
            addr : BOOLEAN, state : {"none", "live", "lost", "rebuild", "binary"},
            shed : {"no", "limit", "deadline"}] :
        /\ c.phase = "request" => c.state = "none"
        /\ c.phase = "response" => c.state \in {"live", "lost", "rebuild"}
        /\ c.phase = "frame" => c.state \in {"none", "binary"}
        /\ c.shed = "limit" => c.fill = 100}

Next ==
    \/ \E p \in Policies : Swap(p)
    \/ \E m \in Messages : Receive(m)
    \/ \E c \in CallForms : Begin(c)
    \/ ShedRows
    \/ Select
    \/ ReadRules
    \/ \E a \in Asks : Deliver(a)
    \/ Delivered
    \/ \E l \in Loads : LoadObjects(l)
    \/ Fail
    \/ \E t \in Found : Engine(t)
    \/ FireRows
    \/ MoreRows
    \/ WriteList
    \/ Written
    \/ PublishReply
    \/ AddEvent
    \/ Recover

Spec == Init /\ [][Next]_vars

-----------------------------------------------------------------------------
(* Properties.                                                             *)

Stages == {"received", "shed", "select", "rules", "deliver", "load", "loaded",
           "fire", "overload", "write", "send", "audit", "done"}

TypeOK ==
    /\ policy \in Policies
    /\ call \in CallForms \cup {NoCall}
    /\ stage \in Stages
    /\ ask.skip \in BOOLEAN
    /\ ask.percent \in IF stage = "deliver" \/ wire.panic THEN Int ELSE -100..900
    /\ out.anomaly \in Int /\ out.threshold \in Int
    /\ reply.verdict \in {"none", "allow", "score", "deny", "redirect", "error"}
    /\ reply.score \in 0..100
    /\ failed \in BOOLEAN
    /\ Len(wire.sent) <= 2 /\ Len(wire.events) <= 1

\* The scale of the score. Without asks, 50 is reached exactly when stock CRS
\* would block, and 100 exactly at twice its threshold (as long as the threshold
\* is below 100, where rounding hides no whole point of anomaly). A neighbour
\* moves it only the way it asked: a negative sum never raises it, a positive
\* one never lowers it, -100 takes it away altogether. And the range error of
\* WithScore, which would turn a finding into an allow, is never met.
ScoreScale ==
    LET t == IF out.threshold <= 0 THEN 5 ELSE out.threshold
        raw == Calibrate(out.anomaly, out.threshold)
    IN  /\ reply.code # "MODSEC_SCORE_RANGE"
        /\ reply.verdict = "score" =>
              /\ ask.percent = 0 /\ t < 100 =>
                    /\ reply.score >= 50 <=> out.anomaly >= t
                    /\ reply.score = 100 <=> out.anomaly >= 2 * t
              /\ ask.percent >= 0 => reply.score >= raw
              /\ ask.percent <= 0 => reply.score <= raw
              /\ ask.percent = -100 => reply.score = 0

\* What was taken of all the asks together.
Total(s) ==
    LET upTo[i \in 0..Len(s)] == IF i = 0 THEN 0 ELSE upTo[i - 1] + s[i].took
    IN  upTo[Len(s)]

TakenIsApplied == \A i \in DOMAIN asks : asks[i].took # 0 => asks[i].applied

SkipEndsCall ==
    (/\ stage = "done" /\ ~wire.panic
     /\ \E i \in DOMAIN asks : asks[i].applied /\ asks[i].ask.do = "skip")
    => reply.code = "MODSEC_SKIPPED"

\* What the audit event says of the asks adds up to what was done: the factor
\* is the sum of what was taken, cut to -100..900 after the last one, nothing is
\* taken of an ask no rule accepts, and a skip that was applied ends the call.
AsksAddUp ==
    /\ stage \in {"load", "loaded", "fire", "overload", "write"} =>
          ask.percent = Clamp(Total(asks))
    /\ TakenIsApplied
    /\ SkipEndsCall

\* A list write that could not resolve its subject is not silent: the call is
\* answered with an error, and an error other than a shed carries no asks. A
\* failed AddMany is outside it: the code only logs it.
FailedWriteIsError ==
    stage = "done" =>
        /\ failed => reply.verdict = "error"
        /\ reply.verdict = "error" /\ call.shed = "no" => reply.actions = << >>

\* Rows mean what they say, however the generations change meanwhile: overload
\* rows fire in the request phase only, a shed call fires nothing else, a row of
\* a rule fires on a finding of the call's own phases, so that what the request
\* call has reported of a kept transaction does not fire again with its
\* response, and every ask that leaves has an axis its verb takes; on a deny it
\* is one that writes the record, or that of a rule.
RowsAsMeant ==
    /\ \A i \in DOMAIN fired :
          /\ fired[i].on = "overload" => call.phase = "request"
          /\ fired[i].on = "rule" =>
                \E m \in out.matched :
                    /\ Hit(fired[i], {m})
                    /\ m.phase \in IF call.phase = "response" THEN 3..4 ELSE 1..2
    /\ call.shed # "no" => \A i \in DOMAIN fired : fired[i].on = "overload"
    /\ \A i \in DOMAIN reply.actions :
          LET a == reply.actions[i]
          IN  /\ a.axis \in Range(Verbs[a.do])
              /\ a.do \in ControlVerbs => a.to
              /\ reply.verdict \in {"deny", "redirect"} =>
                    a.do \in RecordVerbs \/ a.on \in {"rule", "overload"}

\* The objects of a call. What the one batch read gives is what single reads
\* would give, as long as the store answers both; data reaches the engine only
\* if it has the digest the proxy recorded for it, or none was; and a body that
\* is lost or cut is an error, never an evaluation of what is left.
ObjectsFaithful ==
    /\ stage = "loaded" =>
          LET l == load.from[1]
              locs == Wanted(call, l)
          IN  /\ l.db.failing = {} =>
                    load.got = [i \in DOMAIN locs |-> Load(l.db, locs[i])]
              /\ \A i \in DOMAIN locs : Seen(load.got[i]) # NoText =>
                    Want(locs[i]) \in {NoDigest, Digest(Seen(load.got[i]))}
              /\ "GET" \in l.db.failing /\ "MGET" \in l.db.failing =>
                    \A i \in DOMAIN locs : locs[i].form = "stored" => ~Available(load.got[i])
    /\ load.code # "none" /\ stage \in {"send", "audit", "done"} =>
          reply.verdict = "error"

\* Every message that is not a release is answered, if there is an address to
\* answer to, and answered once; only a panic behind the publish, in the audit,
\* adds a second reply, an error. Every reply has the id of a message that got
\* as far as the pool, and the audit has at most one event, of the reply that
\* was published first.
OneReply ==
    /\ stage = "done" => wire.mute <=> wire.sent = << >>
    /\ Len(wire.sent) = 2 =>
          /\ wire.panic
          /\ wire.sent[2].code = "MODSEC_INTERNAL_ERROR"
          /\ wire.events = << >>
    /\ \A i \in DOMAIN wire.sent : call # NoCall => wire.sent[i].rid
    /\ wire.events # << >> => wire.events = wire.sent
=============================================================================
