------------------------------- MODULE MCJudge -------------------------------
(***************************************************************************)
(* Judge on small instances: asks that are taken once, twice, by nobody,   *)
(* and past both ends of the range; transactions around the threshold,     *)
(* interrupted in any phase; rows of every kind; a generation without the  *)
(* profile and some that must not load.                                    *)
(***************************************************************************)
EXTENDS Judge

AnAsk(from, do, delta, code, axis) ==
    [from |-> from, do |-> do, delta |-> delta, code |-> code, axis |-> axis]

MCAsks == {AnAsk("ip", "skip", 0, "ALLOWLIST", "request"),
           AnAsk("ip", "threshold", -60, "CLEAN", "request"),
           AnAsk("ip", "threshold", 500, "DIRTY", "request"),
           AnAsk("ip", "threshold", 15, "CLEAN", "session"),
           AnAsk("vlai", "threshold", 15, "DIRTY", "request")}

ARule(from, accept, apply, codes) ==
    [from |-> from, accept |-> accept, apply |-> apply, codes |-> codes]

ARow(on, at, cmp, ids, tags, do, apply, to, net) ==
    [on |-> on, at |-> at, cmp |-> cmp, ids |-> ids, tags |-> tags, do |-> do,
     apply |-> apply, to |-> to, phase |-> IF apply = "conn" THEN "frame" ELSE "",
     net |-> net, fits |-> TRUE]

Strict ==
    [known |-> TRUE,
     rules |-> <<ARule("ip", {"threshold", "skip"}, {"request"}, {}),
                 ARule("ip", {"threshold"}, {}, {"DIRTY"}),
                 ARule("vlai", {"threshold"}, {}, {})>>,
     rows |-> <<ARow("score", 30, "ge", {}, {}, "vote", "conn", TRUE, FALSE),
                ARow("score", 5, "below", {}, {}, "note", "ip", FALSE, FALSE),
                ARow("deny", NoAt, "ge", {}, {}, "", "", FALSE, TRUE),
                ARow("deny", NoAt, "ge", {}, {}, "archive", "", FALSE, FALSE),
                ARow("rule", NoAt, "ge", {<<941, 943>>}, {"sqli"}, "mark", "", FALSE, FALSE),
                ARow("overload", 60, "ge", {}, {}, "", "", FALSE, FALSE),
                ARow("overload", 100, "ge", {}, {}, "challenge", "", FALSE, FALSE)>>]

Loose ==
    [known |-> TRUE,
     rules |-> << >>,
     rows |-> <<ARow("allow", NoAt, "ge", {}, {}, "", "", FALSE, TRUE),
                ARow("score", 50, "eq", {}, {}, "", "", FALSE, FALSE),
                ARow("overload", NoAt, "ge", {}, {}, "", "", FALSE, TRUE)>>]

Gone == [known |-> FALSE, rules |-> << >>, rows |-> << >>]

\* Policies that must not load: an ask on a deny has nowhere to go, a control
\* verb needs an addressee, a note an axis.
Invalid(row) ==
    [known |-> TRUE, rules |-> << >>, rows |-> <<row>>]

MCPolicies ==
    {Strict, Loose, Gone,
     [known |-> TRUE, rules |-> <<ARule("*", {"skip"}, {}, {})>>, rows |-> << >>],
     Invalid(ARow("deny", NoAt, "ge", {}, {}, "challenge", "", FALSE, FALSE)),
     Invalid(ARow("allow", NoAt, "ge", {}, {}, "off", "request", FALSE, FALSE)),
     Invalid(ARow("allow", NoAt, "ge", {}, {}, "note", "", FALSE, FALSE))}

No == NoInterruption
An(action, url) == [action |-> action, url |-> url]

ATx(its, scores, matched) == [its |-> its, vars |-> scores, matched |-> matched]

\* The same score in both directions, and the limit.
Scores(a, t) ==
    [v \in {"blocking_in", "blocking_out", "limit_in", "limit_out"} |->
        IF v \in {"limit_in", "limit_out"} THEN <<t>> ELSE <<a>>]

AMatch(id, phase, tags, finding) ==
    [id |-> id, phase |-> phase, tags |-> tags, finding |-> finding]

\* A finding of the request, one of the response, a match without a message,
\* the blocking rules of both and one that denies by its tag.
Sqli == AMatch(942, 2, {"sqli"}, TRUE)
Leak == AMatch(943, 4, {"sqli"}, TRUE)
Quiet == AMatch(942, 2, {"sqli"}, FALSE)
Block == AMatch(949, 2, {}, TRUE)
BlockOut == AMatch(959, 4, {"never"}, TRUE)

None == <<No, No, No, No>>

MCDenyIDs == {<<949, 949>>, <<980, 989>>}

MCFound ==
    {ATx(None, Scores(a, t), {Sqli}) : a \in {1, 4, 5, 9, 10, 13}, t \in {0, 5, 7}}
    \cup {ATx(None, Scores(0, 5), {}), ATx(None, Scores(5, 5), {Block, BlockOut}),
          ATx(None, Scores(2, 5), {Quiet, Leak}),
          ATx(None, [in |-> <<3>>, blocking_in |-> <<Junk>>, out |-> << >>], {Sqli, Leak}),
          ATx(<<No, An("deny", FALSE), No, No>>, Scores(5, 5), {Sqli}),
          ATx(<<An("redirect", TRUE), No, No, An("drop", FALSE)>>, Scores(0, 5), {}),
          ATx(<<An("redirect", FALSE), No, An("redirect", FALSE), No>>,
              Scores(10, 5), {Sqli})}

AMessage == [json |-> TRUE, rid |-> TRUE, v |-> 2, inspector |-> TRUE, phase |-> TRUE,
             release |-> "no", http |-> TRUE, locators |-> TRUE]

\* One per check of Parse, broken JSON with and without a legible id, another
\* version, and releases.
MCMessages ==
    {[AMessage EXCEPT !.json = FALSE], [AMessage EXCEPT !.json = FALSE, !.rid = FALSE],
     [AMessage EXCEPT !.rid = FALSE], [AMessage EXCEPT !.v = 0],
     [AMessage EXCEPT !.inspector = FALSE], [AMessage EXCEPT !.phase = FALSE],
     [AMessage EXCEPT !.http = FALSE], [AMessage EXCEPT !.locators = FALSE],
     [AMessage EXCEPT !.v = 1], [AMessage EXCEPT !.release = "empty"],
     [AMessage EXCEPT !.release = "token", !.http = FALSE]}

Text(t) == [text |-> t, sealed |-> FALSE]

ALocator(driver, key, enc, truncated, sha, processed) ==
    [form |-> "stored", driver |-> driver, store |-> "a", key |-> key, enc |-> enc,
     truncated |-> truncated, sha |-> sha, processed |-> processed]

Nil == [form |-> "nil"]
Blank == [form |-> "blank"]
LostByProxy == [form |-> "lost"]
Plain(key) == ALocator("redis", key, FALSE, FALSE, Digest(Text(key)), NoDigest)
Sealed(key) == ALocator("redis", key, TRUE, FALSE, Digest(Text(key)), NoDigest)
Cut(key) == ALocator("redis", key, FALSE, TRUE, Digest(Text("all")), Digest(Text(key)))
CutBlind(key) == ALocator("redis", key, FALSE, TRUE, Digest(Text("all")), NoDigest)
Unsigned(key) == ALocator("redis", key, FALSE, FALSE, NoDigest, NoDigest)
Elsewhere(key) == ALocator("s3", key, FALSE, FALSE, Digest(Text(key)), NoDigest)

\* h and s are as stored, x was replaced, m is missing, s is sealed.
Rows == [h |-> Text("h"), x |-> Text("other"), s |-> [text |-> "s", sealed |-> TRUE],
         m |-> Missing]

\* The request before it had the same objects the other way round.
ALoad(headers, args, body, failing, secret, configured) ==
    [headers |-> headers, args |-> args, body |-> body,
     reqHeaders |-> args, reqArgs |-> headers,
     db |-> [configured |-> configured, failing |-> failing, secret |-> secret,
             rows |-> Rows]]

MCLoads ==
    {ALoad(Plain("h"), Plain("x"), Sealed("s"), {}, TRUE, TRUE),
     ALoad(Plain("m"), Nil, Plain("x"), {}, TRUE, TRUE),
     ALoad(Elsewhere("h"), Plain("h"), Plain("h"), {}, TRUE, TRUE),
     ALoad(Plain("h"), Elsewhere("h"), Blank, {}, TRUE, TRUE),
     ALoad(Sealed("s"), Sealed("h"), Unsigned("m"), {}, TRUE, TRUE),
     ALoad(Cut("x"), Cut("h"), CutBlind("x"), {}, TRUE, TRUE),
     ALoad(Plain("h"), Plain("h"), Plain("h"), {"MGET"}, TRUE, TRUE),
     ALoad(Plain("h"), Elsewhere("h"), Plain("h"), {"GET", "MGET"}, TRUE, TRUE),
     ALoad(Sealed("s"), LostByProxy, LostByProxy, {}, FALSE, TRUE),
     ALoad(Plain("h"), Nil, Nil, {}, TRUE, FALSE)}
=============================================================================
