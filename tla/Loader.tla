------------------------------- MODULE Loader -------------------------------
(***************************************************************************)
(* How headers, arguments and body reach a call (internal/body): Load of   *)
(* one locator, LoadMany of several, which asks the store once for those   *)
(* that share a driver and a store, and finish, which decrypts and checks  *)
(* the digest. A locator is                                                *)
(*   form       "nil", "lost" (the proxy could not store it), "blank" or   *)
(*              "stored",                                                  *)
(*   driver, store, key, enc, truncated,                                   *)
(*   sha, processed   the digests the proxy recorded, NoDigest if none.    *)
(* The store is                                                            *)
(*   configured, failing (which commands fail), secret (there is a key to  *)
(*   decrypt with), and rows (key to value, Missing where there is none).  *)
(* A value is a text, sealed or not.                                       *)
(***************************************************************************)
EXTENDS Integers, Sequences, FiniteSets, FiniteSetsExt

NoDigest == << >>
NoText == [text |-> "", sealed |-> FALSE]
Missing == [text |-> "missing", sealed |-> FALSE]

Digest(value) == <<"sha256", value>>

\* Body
Empty == [why |-> "", data |-> NoText, truncated |-> FALSE]
Lost(why) == [Empty EXCEPT !.why = why]
Available(b) == b.why = ""

\* What the data must hash to: the digest of what was processed comes first, and
\* a cut object has only that one.
Want(loc) ==
    IF loc.processed # NoDigest THEN loc.processed
    ELSE IF loc.truncated THEN NoDigest ELSE loc.sha

\* finish; the key opens what was sealed, and nothing else.
Finish(db, loc, raw) ==
    LET data == IF loc.enc THEN [raw EXCEPT !.sealed = FALSE] ELSE raw
    IN  IF loc.enc /\ ~(db.secret /\ raw.sealed) THEN Lost("decrypt_failed")
        ELSE IF Want(loc) \notin {NoDigest, Digest(data)} THEN Lost("digest_mismatch")
        ELSE [why |-> "", data |-> data, truncated |-> loc.truncated]

\* RedisStore.Get and GetMany: the reply to one command, one value of it. A key
\* that is not there is an error of GET and a nil of MGET.
Fetched(db, loc, command) ==
    IF loc.driver # "redis" THEN Lost("unknown_driver")
    ELSE IF command \in db.failing \/ db.rows[loc.key] = Missing THEN Lost("store_error")
    ELSE Finish(db, loc, db.rows[loc.key])

Load(db, loc) ==
    CASE loc.form \in {"nil", "blank"} -> Empty
      [] loc.form = "lost" -> Lost("lost")
      [] loc.form = "stored" ->
            IF db.configured THEN Fetched(db, loc, "GET") ELSE Lost("store_unconfigured")

\* The places of the locators LoadMany reads together: those that name the
\* driver and the store of the first one that names any.
Batch(locs) ==
    LET stored == {i \in DOMAIN locs : locs[i].form = "stored"}
        first == locs[Min(stored)]
    IN  {i \in stored : locs[i].driver = first.driver /\ locs[i].store = first.store}

\* Mutant of LoadMany: whatever is stored goes into one command, and the driver
\* of the first locator decides.
LoadManyMixed(db, locs) ==
    LET stored == {i \in DOMAIN locs : locs[i].form = "stored"}
        driver == locs[Min(stored)].driver
    IN  [i \in DOMAIN locs |->
            IF ~db.configured \/ i \notin stored \/ Cardinality(stored) < 2
            THEN Load(db, locs[i])
            ELSE Fetched(db, [locs[i] EXCEPT !.driver = driver], "MGET")]

LoadMany(db, locs) ==
    [i \in DOMAIN locs |->
        IF ~db.configured \/ i \notin Batch(locs) \/ Cardinality(Batch(locs)) < 2
        THEN Load(db, locs[i])
        ELSE Fetched(db, locs[i], "MGET")]
=============================================================================
