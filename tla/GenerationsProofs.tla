-------------------------- MODULE GenerationsProofs --------------------------
(***************************************************************************)
(* Proofs about Generations: what is served, what the heartbeat says of it *)
(* and what is on disk, for any packs, whichever file operations may fail  *)
(* and however often, and wherever the process stops.                      *)
(***************************************************************************)
EXTENDS Generations, TLAPS

-----------------------------------------------------------------------------
(* The inductive invariant.                                                *)

\* A process that is not running keeps nothing but its disk.
Down ==
    ~up => /\ pc = "idle"
           /\ served = None
           /\ applied = NotApplied
           /\ received = None
           /\ pending = None
           /\ level = None

\* The watcher works on the last pack that arrived, and so does its retry; a
\* pack that Expand refuses never reaches the disk.
JobOK ==
    /\ pc = "idle" => job = None
    /\ pc # "idle" => up /\ job \in Packs /\ job = received
    /\ pc \notin {"idle", "fetch"} => job \notin Hollow
    /\ pending \in {None, received}

\* Where the trees are at each step of Apply.
DiskOK ==
    /\ existed => pc \in {"promote", "reload", "remove", "removed", "restore",
                          "reenter", "clean"}
    /\ pc \in {"unprev", "park", "promote"} => next = job
    /\ pc = "park" => prev \in {None, Partial}
    /\ pc = "promote" => live = None
    /\ pc \in {"reload", "remove", "clean"} => live = job
    /\ pc = "removed" => live = Partial
    /\ pc = "restore" => existed /\ (live = None \/ (live = Partial /\ "remove" \in faults))
    /\ pc = "clean" => live \in Sound /\ served = live

\* The tree that was live when the rollout began, and to which it goes back.
Former ==
    IF pc \notin {"promote", "reload", "remove", "removed", "restore"} THEN live
    ELSE IF existed THEN prev ELSE None

\* A whole generation is served, or remains; remains have a cause.
ServedOK ==
    /\ up => served # None
    /\ (\/ served = Partial
        \/ prev = Partial
        \/ live = Partial /\ pc # "removed") => crashes > 0 \/ "remove" \in faults

\* The tree to go back to is that of what is served, as long as the renames
\* that put it back work.
FormerServed ==
    up /\ "restore" \notin faults =>
        \/ Former = Partial
        \/ Former = IF served = Image THEN None ELSE served

\* During a rollout, too, the heartbeat names what is served, and the tree to
\* go back to is no other generation's.
AppliedServed ==
    applied.pack # None =>
        /\ "remove" \notin faults /\ pc # "clean" =>
               served = applied.pack /\ Former \in {None, applied.pack}
        /\ pc = "idle" /\ applied.apply = "ok" =>
               live = applied.pack /\ applied.pack = received
        /\ applied.pack \notin Silent => level = applied.pack

Inv ==
    /\ TypeOK
    /\ Down
    /\ JobOK
    /\ DiskOK
    /\ ServedOK
    /\ FormerServed
    /\ AppliedServed

-----------------------------------------------------------------------------
(* Types.                                                                  *)

\* The records the heartbeat reports: before the first rollout, after a failed
\* one, and after one that went through.
LEMMA RecordTypes ==
    /\ NotApplied \in Records /\ NotApplied.pack = None
    /\ applied \in Records =>
           /\ Failed \in Records
           /\ Failed.pack = applied.pack
           /\ Failed.apply = "apply_failed"
    /\ \A p \in Sound : LET ok == [pack |-> p, apply |-> "ok"]
                      IN  ok \in Records /\ ok.pack = p /\ ok.apply = "ok"
  BY DEF Records, NotApplied, Failed

\* The first start finds an empty data directory.
LEMMA InvInit == Init => Inv
<1> SUFFICES ASSUME Init PROVE Inv
  OBVIOUS
<1> USE GenerationsAssumption DEF Init
<1>1. TypeOK
  <2>1. updates \in Seq(Packs \cup {Junk}) /\ crashes \in 0..MaxCrashes
    OBVIOUS
  <2>2. applied \in Records
    BY RecordTypes
  <2> QED
    BY <2>1, <2>2 DEF TypeOK, Labels, Trees
<1>2. Down /\ JobOK /\ DiskOK /\ ServedOK
  BY DEF Down, JobOK, DiskOK, ServedOK
<1>3. FormerServed
  BY DEF FormerServed
<1>4. AppliedServed
  BY RecordTypes DEF AppliedServed
<1> QED
  BY <1>1, <1>2, <1>3, <1>4 DEF Inv

\* What handle and Apply do to the watcher's own variables keeps their types.
LEMMA WatchTypes ==
    ASSUME TypeOK,
           \/ Return(Failed)
           \/ job \in Sound /\ Return([pack |-> job, apply |-> "ok"])
           \/ \E label \in Labels : Continue(label)
           \/ ParkLive
    PROVE  /\ applied' \in Records
           /\ pending' \in Packs \cup {None}
           /\ pc' \in Labels
           /\ job' \in Packs \cup {None}
           /\ existed' \in BOOLEAN
<1>1. CASE Return(Failed)
  BY <1>1, RecordTypes DEF TypeOK, Return, Labels
<1>2. CASE job \in Sound /\ Return([pack |-> job, apply |-> "ok"])
  BY <1>2, RecordTypes DEF TypeOK, Return, Labels
<1>3. CASE \E label \in Labels : Continue(label)
  BY <1>3 DEF TypeOK, Continue
<1>4. CASE ParkLive
  BY <1>4 DEF TypeOK, ParkLive, Labels
<1> QED
  BY <1>1, <1>2, <1>3, <1>4

\* The trees that a step of Apply leaves on disk are whole packs or remains.
LEMMA DiskTypes ==
    ASSUME Inv, ApplyStep
    PROVE  live' \in Trees /\ prev' \in Trees /\ next' \in Trees
<1> TypeOK
  BY DEF Inv
<1> USE DEF TypeOK, Trees, diskVars
<1>1. CASE Stage \/ Reload \/ RemoveLive \/ Reenter
  BY <1>1 DEF Stage, Reload, RemoveLive, Reenter
<1>2. CASE Write
  BY <1>2 DEF Write, WriteOK, WriteFails, Inv, JobOK, Packs
<1>3. CASE RemovePrev \/ Clean \/ LiveRemoved
  BY <1>3 DEF RemovePrev, Clean, LiveRemoved
<1>4. CASE ParkTree
  BY <1>4 DEF ParkTree, ParkNothing, ParkLive, ParkFails
<1>5. CASE Promote
  BY <1>5 DEF Promote, PromoteOK, PromoteFails
<1>6. CASE Restore
  BY <1>6 DEF Restore, RestoreOK, RestoreFails
<1> QED
  BY <1>1, <1>2, <1>3, <1>4, <1>5, <1>6, Zenon DEF ApplyStep

\* How a step of Apply leaves the watcher.
LEMMA ApplyOutcome ==
    ASSUME Inv, ApplyStep
    PROVE  \/ Return(Failed)
           \/ Clean /\ job \in Sound /\ Return([pack |-> job, apply |-> "ok"])
           \/ \E label \in Labels \ {"idle"} : Continue(label)
           \/ ParkLive
<1>1. CASE Clean
  BY <1>1 DEF Clean, Inv, DiskOK
<1>2. CASE Stage \/ RemovePrev \/ RemoveLive
  BY <1>2 DEF Stage, RemovePrev, RemoveLive, Labels
<1>3. CASE Write
  BY <1>3 DEF Write, WriteOK, WriteFails, Labels
<1>4. CASE ParkTree
  BY <1>4 DEF ParkTree, ParkNothing, ParkFails, Labels
<1>5. CASE Promote
  BY <1>5 DEF Promote, PromoteOK, PromoteFails, Labels
<1>6. CASE Reload
  BY <1>6 DEF Reload, ReloadOK, ReloadFails, Labels
<1>7. CASE LiveRemoved
  BY <1>7 DEF LiveRemoved, Labels
<1>8. CASE Restore
  BY <1>8 DEF Restore, RestoreOK, RestoreFails, Labels
<1>9. CASE Reenter
  BY <1>9 DEF Reenter
<1> QED
  BY <1>1, <1>2, <1>3, <1>4, <1>5, <1>6, <1>7, <1>8, <1>9, Zenon DEF ApplyStep

\* Only file operations that may fail do, and faults are not forgotten.
LEMMA FaultsGrow ==
    ASSUME ApplyStep
    PROVE  UNCHANGED faults \/ \E ops \in SUBSET Faulty : Fail(ops)
<1>1. CASE Stage \/ RemoveLive
  BY <1>1 DEF Stage, RemoveLive
<1>2. CASE Write \/ ParkTree
  BY <1>2 DEF Write, WriteOK, WriteFails, ParkTree, ParkNothing, ParkLive, ParkFails, Fail
<1>3. CASE RemovePrev \/ LiveRemoved \/ Clean
  BY <1>3 DEF RemovePrev, LiveRemoved, Clean, RemoveAll, Fail
<1>4. CASE Promote
  BY <1>4 DEF Promote, PromoteOK, PromoteFails, Fail
<1>5. CASE Reload \/ Reenter
  BY <1>5 DEF Reload, ReloadOK, ReloadFails, Reenter, Fail
<1>6. CASE Restore
  BY <1>6 DEF Restore, RestoreOK, RestoreFails, Fail
<1> QED
  BY <1>1, <1>2, <1>3, <1>4, <1>5, <1>6, Zenon DEF ApplyStep

\* Every step keeps the types.
LEMMA TypeStep == ASSUME Inv, [Next]_vars PROVE TypeOK'
<1> TypeOK
  BY DEF Inv
<1> USE GenerationsAssumption
<1>1. ASSUME NEW e \in Packs \cup {Junk}, Publish(e) PROVE TypeOK'
  <2>1. updates' \in Seq(Packs \cup {Junk})
    BY <1>1 DEF Publish, TypeOK
  <2> QED
    BY <1>1, <2>1 DEF Publish, TypeOK, watchVars, diskVars, restVars
<1>2. CASE BootImage \/ BootLive \/ BootPartial
  <2>1. PICK set \in Sound \cup {Image, Partial} : BootWith(set)
    BY <1>2 DEF BootImage, BootLive, BootPartial
  <2>2. updates' \in Seq(Packs \cup {Junk})
    BY <2>1 DEF BootWith, TypeOK
  <2> QED
    BY <2>1, <2>2 DEF BootWith, TypeOK, watchVars, diskVars, restVars
<1>3. CASE Stop
  <2>1. updates' \in Seq(Packs \cup {Junk}) /\ crashes' \in 0..MaxCrashes
    BY <1>3 DEF Stop, TypeOK
  <2>2. applied' \in Records
    BY <1>3, RecordTypes DEF Stop
  <2> QED
    BY <1>3, <2>1, <2>2 DEF Stop, TypeOK, diskVars, Labels
<1>4. CASE Receive
  <2>1. updates' \in Seq(Packs \cup {Junk}) /\ Head(updates) \in Packs \cup {Junk}
    BY <1>4 DEF Receive, TypeOK
  <2> QED
    BY <1>4, <2>1
    DEF Receive, ReceiveJunk, ReceivePack, Handle, TypeOK, watchVars, diskVars, restVars,
        Labels
<1>5. CASE Retry
  BY <1>5 DEF Retry, Handle, TypeOK, diskVars, restVars, Labels
<1>6. CASE FetchFails
  BY <1>6, RecordTypes DEF FetchFails, TypeOK, diskVars, restVars, Labels
<1>7. CASE Fetch
  <2>1. Return(Failed) \/ \E label \in Labels : Continue(label)
    BY <1>7 DEF Fetch, Continue, Labels
  <2> QED
    BY <1>7, <2>1, WatchTypes DEF Fetch, TypeOK, diskVars, restVars
<1>8. CASE ApplyStep
  <2>1. UNCHANGED <<kv, updates, up, received, crashes>>
    BY <1>8 DEF ApplyStep
  <2>2. faults' \subseteq Faulty
    BY <1>8, FaultsGrow DEF Fail, TypeOK
  <2>3. served' \in Sound \cup {Image, Partial, None}
    BY <1>8 DEF ApplyStep, Stage, Write, RemovePrev, ParkTree, Promote, Reload, ReloadOK,
                ReloadFails, RemoveLive, LiveRemoved, Restore, Reenter, Clean, TypeOK
  <2>4. level' \in Sound \cup {None}
    BY <1>8 DEF ApplyStep, Clean, Settings, Inv, DiskOK, TypeOK
  <2> QED
    BY <1>8, <2>1, <2>2, <2>3, <2>4, WatchTypes, DiskTypes, ApplyOutcome DEF TypeOK
<1>9. CASE UNCHANGED vars
  BY <1>9 DEF vars, TypeOK
<1> QED
  BY <1>1, <1>2, <1>3, <1>4, <1>5, <1>6, <1>7, <1>8, <1>9 DEF Next

-----------------------------------------------------------------------------
(* The steps of Apply.                                                     *)

\* What is left of a tree has failed to be removed.
LEMMA RemoveLeaves ==
    ASSUME NEW tree, NEW rest, RemoveAll(tree, rest)
    PROVE  rest = None \/ (rest = Partial /\ "remove" \in faults')
  BY DEF RemoveAll, Fail

\* The trees are where each step of Apply expects them.
LEMMA ApplyControl ==
    ASSUME Inv, ApplyStep
    PROVE  Down' /\ JobOK' /\ DiskOK'
<1> USE GenerationsAssumption DEF ApplyStep, diskVars, Packs, Inv, Down, JobOK, DiskOK
<1>1. CASE Stage
  BY <1>1 DEF Stage, Continue
<1>2. CASE Write
  BY <1>2 DEF Write, WriteOK, WriteFails, Continue, Return, Fail
<1>3. CASE RemovePrev
  BY <1>3 DEF RemovePrev, RemoveAll, Continue, Fail
<1>4. CASE ParkTree
  BY <1>4 DEF ParkTree, ParkNothing, ParkLive, ParkFails, Continue, Return, Fail
<1>5. CASE Promote
  BY <1>5 DEF Promote, PromoteOK, PromoteFails, Continue, Return, Fail
<1>6. CASE Reload
  BY <1>6 DEF Reload, ReloadOK, ReloadFails, Continue, Fail
<1>7. CASE RemoveLive
  BY <1>7 DEF RemoveLive, Continue
<1>8. CASE LiveRemoved
  <2>1. live' = None \/ (live' = Partial /\ "remove" \in faults')
    BY <1>8, RemoveLeaves DEF LiveRemoved
  <2> QED
    BY <1>8, <2>1 DEF LiveRemoved, Continue, Return
<1>9. CASE Restore
  BY <1>9 DEF Restore, RestoreOK, RestoreFails, Continue, Return, Fail
<1>10. CASE Reenter
  BY <1>10 DEF Reenter, Return, Fail
<1>11. CASE Clean
  BY <1>11 DEF Clean, Settings, RemoveAll, Return, Fail
<1> QED
  BY <1>1, <1>2, <1>3, <1>4, <1>5, <1>6, <1>7, <1>8, <1>9, <1>10, <1>11

\* Remains, and what is served of them, have a cause: a stop or a failed removal.
LEMMA ApplyServed ==
    ASSUME Inv, ApplyStep
    PROVE  ServedOK'
<1> USE GenerationsAssumption
        DEF ApplyStep, diskVars, Packs, Inv, Down, JobOK, DiskOK, ServedOK
<1>1. CASE Stage
  BY <1>1 DEF Stage, Continue
<1>2. CASE Write
  BY <1>2 DEF Write, WriteOK, WriteFails, Continue, Return, Fail
<1>3. CASE RemovePrev
  BY <1>3 DEF RemovePrev, RemoveAll, Continue, Fail
<1>4. CASE ParkTree
  BY <1>4 DEF ParkTree, ParkNothing, ParkLive, ParkFails, Continue, Return, Fail
<1>5. CASE Promote
  BY <1>5 DEF Promote, PromoteOK, PromoteFails, Continue, Return, Fail
<1>6. CASE Reload
  BY <1>6 DEF Reload, ReloadOK, ReloadFails, Continue, Fail
<1>7. CASE RemoveLive
  BY <1>7 DEF RemoveLive, Continue
<1>8. CASE LiveRemoved
  BY <1>8 DEF LiveRemoved, RemoveAll, Continue, Return, Fail
<1>9. CASE Restore
  BY <1>9 DEF Restore, RestoreOK, RestoreFails, Continue, Return, Fail
<1>10. CASE Reenter
  BY <1>10 DEF Reenter, Return, Fail
<1>11. CASE Clean
  BY <1>11 DEF Clean, Settings, RemoveAll, Return, Fail
<1> QED
  BY <1>1, <1>2, <1>3, <1>4, <1>5, <1>6, <1>7, <1>8, <1>9, <1>10, <1>11

\* Every step of a rollout and of its rollback keeps the tree to go back to.
LEMMA ApplyFormer ==
    ASSUME Inv, ApplyStep
    PROVE  FormerServed'
<1> USE GenerationsAssumption
        DEF ApplyStep, diskVars, Packs, Inv, Down, JobOK, DiskOK, FormerServed, Former,
            ServedOK, TypeOK
<1>1. CASE Stage
  BY <1>1 DEF Stage, Continue
<1>2. CASE Write
  BY <1>2 DEF Write, WriteOK, WriteFails, Continue, Return, Fail
<1>3. CASE RemovePrev
  BY <1>3 DEF RemovePrev, RemoveAll, Continue, Fail
<1>4. CASE ParkTree
  BY <1>4 DEF ParkTree, ParkNothing, ParkLive, ParkFails, Continue, Return, Fail
<1>5. CASE Promote
  BY <1>5 DEF Promote, PromoteOK, PromoteFails, Continue, Return, Fail
<1>6. CASE Reload
  BY <1>6 DEF Reload, ReloadOK, ReloadFails, Continue, Fail
<1>7. CASE RemoveLive
  BY <1>7 DEF RemoveLive, Continue
<1>8. CASE LiveRemoved
  BY <1>8 DEF LiveRemoved, RemoveAll, Continue, Return, Fail
<1>9. CASE Restore
  BY <1>9 DEF Restore, RestoreOK, RestoreFails, Continue, Return, Fail
<1>10. CASE Reenter
  BY <1>10 DEF Reenter, Return, Fail
<1>11. CASE Clean
  BY <1>11 DEF Clean, Settings, RemoveAll, Return, Fail
<1> QED
  BY <1>1, <1>2, <1>3, <1>4, <1>5, <1>6, <1>7, <1>8, <1>9, <1>10, <1>11

\* The heartbeat names what is served through a rollout and its rollback, and
\* the new generation when the rollout is done.
LEMMA ApplyApplied ==
    ASSUME Inv, ApplyStep
    PROVE  AppliedServed'
<1>1. CASE Clean
  <2>1. /\ applied' = [pack |-> job, apply |-> "ok"]
        /\ job \notin Silent => level' = job
        /\ live' = job /\ served' = job /\ Former' = job
        /\ received' = received /\ job = received
    BY <1>1 DEF Clean, Return, Settings, ApplyStep, Inv, DiskOK, JobOK, Former
  <2>2. applied'.pack = job
    BY <2>1
  <2> QED
    BY <2>1, <2>2 DEF AppliedServed
<1>2. CASE ~Clean
  <2>1. applied' = applied \/ applied' = Failed
    <3>1. Return(Failed) \/ ParkLive \/ \E label \in Labels \ {"idle"} : Continue(label)
      BY <1>2, ApplyOutcome
    <3>2. Return(Failed) => applied' = Failed
      BY DEF Return
    <3>3. ParkLive => applied' = applied
      BY DEF ParkLive
    <3>4. ASSUME NEW label, Continue(label) PROVE applied' = applied
      BY <3>4 DEF Continue
    <3> QED
      BY <3>1, <3>2, <3>3, <3>4
  <2>2. applied'.pack = applied.pack
    BY <2>1, RecordTypes DEF Inv, TypeOK
  <2>3. pc' = "idle" => applied'.apply # "ok"
    <3>1. pc' = "idle" => Return(Failed)
      BY <1>2, ApplyOutcome DEF Continue, ParkLive
    <3> QED
      BY <3>1, RecordTypes DEF Inv, TypeOK, Return
  <2>4. level' = level
    BY <1>2 DEF ApplyStep
  <2>5. ASSUME NEW a \in Sound, applied.pack = a, "remove" \notin faults', pc' # "clean"
        PROVE  served' = a /\ Former' \in {None, a}
    <3>1. "remove" \notin faults /\ pc # "clean"
      <4>1. pc = "clean" => Clean
        BY DEF ApplyStep, Stage, Write, RemovePrev, ParkTree, Promote, Reload, RemoveLive,
               LiveRemoved, Restore, Reenter
      <4> QED
        BY <1>2, <2>5, <4>1, FaultsGrow DEF Fail
    <3>2. served = a /\ Former \in {None, a} /\ a # None /\ a # Partial
      BY <2>5, <3>1, GenerationsAssumption DEF Inv, AppliedServed, Packs
    <3> USE DEF Former, Inv, DiskOK, diskVars
    <3>3. CASE Stage \/ Write
      BY <3>2, <3>3 DEF Stage, Write, WriteOK, WriteFails, Continue, Return
    <3>4. CASE RemovePrev
      BY <3>2, <3>4 DEF RemovePrev, Continue
    <3>5. CASE ParkTree
      BY <3>2, <3>5 DEF ParkTree, ParkNothing, ParkLive, ParkFails, Continue, Return
    <3>6. CASE Promote
      BY <3>2, <3>6 DEF Promote, PromoteOK, PromoteFails, Continue, Return
    <3>7. CASE Reload
      BY <2>5, <3>2, <3>7 DEF Reload, ReloadOK, ReloadFails, Continue
    <3>8. CASE RemoveLive
      BY <3>2, <3>8 DEF RemoveLive, Continue
    <3>9. CASE LiveRemoved
      BY <2>5, <3>2, <3>9 DEF LiveRemoved, RemoveAll, Fail, Continue, Return
    <3>10. CASE Restore
      BY <3>1, <3>2, <3>10 DEF Restore, RestoreOK, RestoreFails, Continue, Return
    <3>11. CASE Reenter
      BY <3>2, <3>11, GenerationsAssumption DEF Reenter, Return, Packs
    <3> QED
      BY <1>2, <3>3, <3>4, <3>5, <3>6, <3>7, <3>8, <3>9, <3>10, <3>11 DEF ApplyStep
  <2> QED
    BY <1>2, <2>2, <2>3, <2>4, <2>5 DEF AppliedServed, Inv, TypeOK, Records
<1> QED
  BY <1>1, <1>2

-----------------------------------------------------------------------------
(* The other steps, and the theorems.                                      *)

\* A start takes the tree that is live, or the image when there is none.
LEMMA BootStep ==
    ASSUME Inv, BootImage \/ BootLive \/ BootPartial
    PROVE  Down' /\ JobOK' /\ DiskOK' /\ ServedOK' /\ FormerServed' /\ AppliedServed'
<1> PICK set : set \in Sound \cup {Image, Partial} /\ BootWith(set)
  BY DEF BootImage, BootLive, BootPartial
<1> USE GenerationsAssumption
        DEF Inv, BootWith, Down, watchVars, diskVars, restVars
<1>1. Down' /\ JobOK' /\ DiskOK'
  BY DEF JobOK, DiskOK
<1>2. live = Partial \/ live = IF set = Image THEN None ELSE set
  BY DEF BootImage, BootLive, BootPartial, Packs
<1>3. set = Partial => live = Partial
  BY DEF BootImage, BootLive, BootPartial, Packs
<1>4. ServedOK'
  BY <1>3 DEF ServedOK, Packs
<1>5. FormerServed'
  BY <1>2 DEF FormerServed, Former
<1>6. AppliedServed'
  BY RecordTypes DEF AppliedServed
<1> QED
  BY <1>1, <1>4, <1>5, <1>6

\* A stop leaves the disk as it is, and forgets the rest.
LEMMA StopStep ==
    ASSUME Inv, Stop
    PROVE  Down' /\ JobOK' /\ DiskOK' /\ ServedOK' /\ FormerServed' /\ AppliedServed'
<1> USE GenerationsAssumption DEF Inv, Stop, diskVars
<1>1. Down' /\ JobOK' /\ DiskOK'
  BY DEF Down, JobOK, DiskOK
<1>2. ServedOK'
  BY DEF ServedOK, TypeOK
<1>3. FormerServed'
  BY DEF FormerServed
<1>4. AppliedServed'
  BY RecordTypes DEF AppliedServed
<1> QED
  BY <1>1, <1>2, <1>3, <1>4

\* The watcher between two rollouts: a pack arrives, a retry begins, blobs are
\* fetched or not. The disk and what is served stay as they are.
LEMMA HandleStep ==
    ASSUME Inv, Receive \/ Retry \/ FetchFails \/ Fetch
    PROVE  Down' /\ JobOK' /\ DiskOK' /\ ServedOK' /\ FormerServed' /\ AppliedServed'
<1> USE GenerationsAssumption DEF Inv, diskVars, restVars, watchVars
<1>1. /\ UNCHANGED <<up, served, live, prev, next, level, faults, crashes>>
      /\ up /\ pc \in {"idle", "fetch"} /\ pc' \in {"idle", "fetch", "stage"}
      /\ existed' = existed \/ existed' = FALSE
  BY DEF Receive, ReceiveJunk, ReceivePack, Handle, Retry, FetchFails, Fetch, Return,
         JobOK
<1>2. Down' /\ DiskOK' /\ ServedOK' /\ FormerServed'
  BY <1>1 DEF Down, DiskOK, ServedOK, FormerServed, Former
<1>3. JobOK'
  <2>1. CASE Receive
    BY <2>1 DEF Receive, ReceiveJunk, ReceivePack, Handle, JobOK, Packs
  <2>2. CASE Retry
    BY <2>2 DEF Retry, Handle, JobOK, TypeOK
  <2>3. CASE FetchFails \/ Fetch
    BY <2>3 DEF FetchFails, Fetch, Return, JobOK
  <2> QED
    BY <2>1, <2>2, <2>3
<1>4. AppliedServed'
  <2>1. CASE applied' = applied
    <3>1. pc' = "idle" /\ applied.apply = "ok" =>
            /\ pc = "idle"
            /\ applied.pack = received => applied.pack = received'
      <4>1. CASE Receive \/ Retry
        BY <4>1 DEF Receive, ReceiveJunk, ReceivePack, Retry, Handle
      <4>2. CASE FetchFails \/ Fetch
        BY <2>1, <4>2, RecordTypes DEF FetchFails, Fetch, Return, TypeOK
      <4> QED
        BY <4>1, <4>2
    <3> QED
      BY <1>1, <2>1, <3>1 DEF AppliedServed, Former
  <2>2. CASE applied' = Failed
    BY <1>1, <2>2, RecordTypes DEF AppliedServed, Former, TypeOK
  <2> QED
    BY <2>1, <2>2 DEF Receive, ReceiveJunk, ReceivePack, Handle, Retry, FetchFails, Fetch,
                      Return
<1> QED
  BY <1>2, <1>3, <1>4
\* Every step keeps the invariant.
LEMMA InvStep == ASSUME Inv, [Next]_vars PROVE Inv'
<1>1. TypeOK'
  BY TypeStep
<1>2. CASE UNCHANGED vars \/ \E e \in Packs \cup {Junk} : Publish(e)
  <2>1. UNCHANGED <<up, served, watchVars, diskVars, restVars>>
    BY <1>2 DEF vars, Publish, watchVars, diskVars, restVars
  <2> QED
    BY <1>1, <2>1 DEF Inv, Down, JobOK, DiskOK, ServedOK, FormerServed, AppliedServed,
                      Former, watchVars, diskVars, restVars
<1>3. CASE BootImage \/ BootLive \/ BootPartial
  BY <1>1, <1>3, BootStep DEF Inv
<1>4. CASE Stop
  BY <1>1, <1>4, StopStep DEF Inv
<1>5. CASE Receive \/ Retry \/ FetchFails \/ Fetch
  BY <1>1, <1>5, HandleStep DEF Inv
<1>6. CASE ApplyStep
  BY <1>1, <1>6, ApplyControl, ApplyServed, ApplyFormer, ApplyApplied DEF Inv
<1> QED
  BY <1>2, <1>3, <1>4, <1>5, <1>6 DEF Next

\* The invariant holds in every reachable state.
LEMMA Invariance == Spec => []Inv
  BY InvInit, InvStep, PTL DEF Spec

\* The watcher's variables, the registry and the directories have their types.
THEOREM TypeCorrect == Spec => []TypeOK
<1>1. Inv => TypeOK
  BY DEF Inv
<1> QED
  BY <1>1, Invariance, PTL

\* Whatever is published, wherever the process stops and whichever file
\* operations fail, requests are judged by a whole generation that compiled or
\* by the image's profiles; remains pass for one only after a stop or a failed
\* removal.
THEOREM WholeGenerationServed == Spec => []ServedCompiles
<1>1. Inv => ServedCompiles
  BY DEF Inv, ServedOK, ServedCompiles, TypeOK
<1> QED
  BY <1>1, Invariance, PTL

\* Between rollouts the heartbeat names the generation that is served; one it
\* calls ok is live on disk and is the last that arrived, so no late retry has
\* put an overtaken one back.
THEOREM HeartbeatTellsTruth == Spec => []HeartbeatHonest
<1>1. Inv => HeartbeatHonest
  BY DEF Inv, AppliedServed, HeartbeatHonest
<1> QED
  BY <1>1, Invariance, PTL

\* A rollout that fails anywhere, except in the renames that put a tree back,
\* does not lose the last good generation: its tree is on disk at every step,
\* and live again between rollouts.
THEOREM RollbackKeepsLastGood == Spec => []LastGoodKept
<1>1. Inv => LastGoodKept
  <2> SUFFICES ASSUME Inv, up, "restore" \notin faults, ~Remains
               PROVE  /\ served \in Sound => served \in {live, prev}
                      /\ pc = "idle" => live = IF served = Image THEN None ELSE served
    BY DEF LastGoodKept
  <2>1. Former # Partial
    BY GenerationsAssumption DEF Remains, Former
  <2>2. Former = IF served = Image THEN None ELSE served
    BY <2>1 DEF Inv, FormerServed
  <2> QED
    BY <2>2, GenerationsAssumption DEF Former, Packs
<1> QED
  BY <1>1, Invariance, PTL
=============================================================================
