----------------------------- MODULE Generations -----------------------------
(***************************************************************************)
(* How a rule generation reaches the inspector: the watcher goroutine of   *)
(* internal/desired (Watch), the rollout on disk (Apply), the registry of  *)
(* compiled profiles (internal/rules) and the start of the process, which  *)
(* reads the same disk. The process may stop between any two steps: a      *)
(* signal makes main return without waiting for the watcher.               *)
(*                                                                         *)
(* A generation is a pack: a sound one compiles, a broken one is written   *)
(* and does not compile, a hollow one is refused by Expand. What is on     *)
(* disk under a directory is a pack's tree, nothing, or what an            *)
(* interrupted RemoveAll or write left of one.                             *)
(***************************************************************************)
EXTENDS Integers, Sequences

CONSTANTS
    Sound, Broken, Hollow,   \* the packs
    Silent,      \* those that have no settings
    Junk,        \* a deletion, or a value ParsePack refuses
    Image,       \* the profiles of the image (cfg.ProfilesDir)
    Partial,     \* an incomplete tree
    None,        \* no pack, no tree, no registry
    Faulty,      \* the file operations that may fail
    MaxUpdates,  \* bound on undelivered updates
    MaxCrashes   \* bound on stops of the process

Packs == Sound \cup Broken \cup Hollow

ASSUME GenerationsAssumption ==
    /\ Sound \cap Broken = {}
    /\ Hollow \cap (Sound \cup Broken) = {}
    /\ {Junk, Image, Partial, None} \cap Packs = {}
    /\ None \notin {Junk, Image, Partial}
    /\ Image # Partial
    /\ Silent \subseteq Packs
    /\ Faulty \subseteq {"write", "rename", "restore", "read", "remove"}
    /\ MaxUpdates \in Nat
    /\ MaxCrashes \in Nat

VARIABLES
    kv,        \* the value of the desired key
    updates,   \* entries on their way to this process
    up,        \* the process has started
    served,    \* Registry.current
    applied,   \* the Applied record the heartbeat reports
    received,  \* the last pack ParsePack accepted in this process
    pending,   \* the pack waiting for a retry
    pc,        \* where the watcher goroutine is
    job,       \* the pack it handles
    existed,   \* liveExisted
    live,      \* DataDir/profiles
    prev,      \* DataDir/.prev
    next,      \* DataDir/.next; what a failed removal leaves of it nobody reads
    level,     \* the pack whose log level is in force; None is the configured one
    faults,    \* the kinds of file operations that have failed so far
    crashes    \* stops so far

diskVars == <<live, prev, next>>
restVars == <<level, faults, crashes>>
watchVars == <<applied, received, pending, pc, job, existed>>
vars == <<kv, updates, up, served, applied, received, pending, pc, job,
          existed, live, prev, next, level, faults, crashes>>

NotApplied == [pack |-> None, apply |-> ""]

Init ==
    /\ kv = None
    /\ updates = << >>
    /\ up = FALSE
    /\ served = None
    /\ applied = NotApplied
    /\ received = None
    /\ pending = None
    /\ pc = "idle"
    /\ job = None
    /\ existed = FALSE
    /\ live = None
    /\ prev = None
    /\ next = None
    /\ level = None
    /\ faults = {}
    /\ crashes = 0

-----------------------------------------------------------------------------
(* The controller, and the start and stop of the process.                  *)

Publish(e) ==
    /\ Len(updates) < MaxUpdates
    /\ kv' = e
    /\ updates' = IF up THEN Append(updates, e) ELSE updates
    /\ UNCHANGED <<up, served, watchVars, diskVars, restVars>>

\* run: the registry is compiled first, and a failure ends the process. Then
\* the watch delivers the present value of the key.
BootWith(set) ==
    /\ ~up
    /\ up' = TRUE
    /\ served' = set
    /\ updates' = IF kv = None THEN << >> ELSE <<kv>>
    /\ UNCHANGED <<kv, watchVars, diskVars, restVars>>

\* rules.New when HasDefault(DataDir) does not hold.
BootImage == live = None /\ BootWith(Image)

\* A pack that Expand accepts has a default profile with a .conf file, so its
\* tree is taken whether it compiles or not.
BootLive == live \in Sound /\ BootWith(live)

\* Whether the remains of a tree have a default profile, and compile, depends
\* on what is left of them.
BootPartial == live = Partial /\ \E set \in {Image, Partial} : BootWith(set)

Stop ==
    /\ up
    /\ crashes < MaxCrashes
    /\ crashes' = crashes + 1
    /\ up' = FALSE
    /\ served' = None
    /\ updates' = << >>
    /\ applied' = NotApplied
    /\ received' = None
    /\ pending' = None
    /\ pc' = "idle"
    /\ job' = None
    /\ existed' = FALSE
    /\ level' = None
    /\ UNCHANGED <<kv, diskVars, faults>>

-----------------------------------------------------------------------------
(* Watch: the select loop and handle.                                      *)

\* handle returns false: a pack that was being retried is done with.
Return(record) ==
    /\ applied' = record
    /\ pending' = IF pending = job THEN None ELSE pending
    /\ job' = None
    /\ existed' = FALSE
    /\ pc' = "idle"

\* What the heartbeat says after a failure: the generation before it.
Failed == [applied EXCEPT !.apply = "apply_failed"]

\* The entry of handle, with waiting as the pending pack meanwhile: nothing to
\* do for the generation that is in place.
Handle(p, waiting) ==
    IF applied = [pack |-> p, apply |-> "ok"]
    THEN /\ pending' = None
         /\ UNCHANGED <<applied, job, pc>>
    ELSE /\ job' = p
         /\ pc' = "fetch"
         /\ pending' = waiting
         /\ UNCHANGED applied

ReceiveJunk ==
    /\ Head(updates) = Junk
    /\ UNCHANGED watchVars

\* Mutant of ReceivePack: the pack waiting for its retry is not forgotten.
ReceivePackLate ==
    /\ Head(updates) \in Packs
    /\ received' = Head(updates)
    /\ Handle(Head(updates), pending)
    /\ UNCHANGED existed

ReceivePack ==
    /\ Head(updates) \in Packs
    /\ received' = Head(updates)
    /\ Handle(Head(updates), None)
    /\ UNCHANGED existed

Receive ==
    /\ up /\ pc = "idle" /\ updates # << >>
    /\ updates' = Tail(updates)
    /\ ReceiveJunk \/ ReceivePack
    /\ UNCHANGED <<kv, up, served, diskVars, restVars>>

Retry ==
    /\ up /\ pc = "idle" /\ pending # None
    /\ Handle(pending, pending)
    /\ UNCHANGED <<kv, updates, up, served, received, existed, diskVars, restVars>>

\* Mutant of FetchFails: no retry.
FetchFailsForgets ==
    /\ pc = "fetch"
    /\ applied' = Failed
    /\ pending' = None
    /\ job' = None
    /\ pc' = "idle"
    /\ UNCHANGED <<kv, updates, up, served, received, existed, diskVars, restVars>>

\* FetchBlobs fails: the same pack is tried again later.
FetchFails ==
    /\ pc = "fetch"
    /\ applied' = Failed
    /\ pending' = job
    /\ job' = None
    /\ pc' = "idle"
    /\ UNCHANGED <<kv, updates, up, served, received, existed, diskVars, restVars>>

\* FetchBlobs succeeds, and Expand refuses the pack or not.
Fetch ==
    /\ pc = "fetch"
    /\ \/ /\ job \in Hollow
          /\ Return(Failed)
       \/ /\ job \notin Hollow
          /\ pc' = "stage"
          /\ UNCHANGED <<applied, pending, job, existed>>
    /\ UNCHANGED <<kv, updates, up, served, received, diskVars, restVars>>

-----------------------------------------------------------------------------
(* Apply.                                                                  *)

\* File operations fail.
Fail(ops) ==
    /\ ops \subseteq Faulty
    /\ faults' = faults \cup ops

\* os.RemoveAll, its error ignored: rest is what is left of the tree.
RemoveAll(tree, rest) ==
    \/ rest = None /\ UNCHANGED faults
    \/ tree # None /\ rest = Partial /\ Fail({"remove"})

\* A step of Apply that goes on to the next one.
Continue(label) ==
    /\ pc' = label
    /\ UNCHANGED <<applied, pending, job, existed>>

\* writeTree: the old staging tree goes first.
Stage ==
    /\ pc = "stage"
    /\ next' = Partial
    /\ Continue("write")
    /\ UNCHANGED <<served, live, prev, faults>>

WriteOK ==
    /\ next' = job
    /\ Continue("unprev")
    /\ UNCHANGED faults

WriteFails ==
    /\ Fail({"write"})
    /\ next' = None
    /\ Return(Failed)

Write ==
    /\ pc = "write"
    /\ WriteOK \/ WriteFails
    /\ UNCHANGED <<served, live, prev>>

RemovePrev ==
    /\ pc = "unprev"
    /\ prev' \in {None, Partial}
    /\ RemoveAll(prev, prev')
    /\ Continue("park")
    /\ UNCHANGED <<served, live, next>>

\* os.Rename(live, prev): not over what is left of an older prev. Go's os.Rename
\* looks at the target first and refuses any directory (EEXIST), an empty one
\* too, although rename(2) would replace it; the same goes for the renames below.
ParkNothing ==
    /\ live = None
    /\ Continue("promote")
    /\ UNCHANGED <<diskVars, faults>>

ParkLive ==
    /\ live # None /\ prev = None
    /\ existed' = TRUE
    /\ prev' = live
    /\ live' = None
    /\ pc' = "promote"
    /\ UNCHANGED <<applied, pending, job, next, faults>>

ParkFails ==
    /\ live # None
    /\ \/ prev # None /\ UNCHANGED faults
       \/ Fail({"rename"})
    /\ next' = None
    /\ Return(Failed)
    /\ UNCHANGED <<live, prev>>

ParkTree ==
    /\ pc = "park"
    /\ ParkNothing \/ ParkLive \/ ParkFails
    /\ UNCHANGED served

\* os.Rename of the staging tree, and the removal of the staging directory.
PromoteOK ==
    /\ live' = next
    /\ next' = None
    /\ Continue("reload")
    /\ UNCHANGED <<prev, faults>>

PromoteFails ==
    /\ \/ existed /\ Fail({"rename"}) /\ live' = prev /\ prev' = None
       \/ ~existed /\ Fail({"rename"}) /\ UNCHANGED <<live, prev>>
       \/ existed /\ Fail({"rename", "restore"}) /\ UNCHANGED <<live, prev>>
    /\ next' = None
    /\ Return(Failed)

Promote ==
    /\ pc = "promote"
    /\ PromoteOK \/ PromoteFails
    /\ UNCHANGED served

\* Mutant of ReloadOK: stores the set whether it compiled or not.
ReloadAny ==
    /\ served' = live
    /\ Continue("clean")
    /\ UNCHANGED faults

\* reg.ReloadFrom(dataDir): the generation is compiled where it is live, and
\* stored only when that succeeds.
ReloadOK ==
    /\ live \in Sound
    /\ served' = live
    /\ Continue("clean")
    /\ UNCHANGED faults

ReloadFails ==
    /\ \/ live \notin Sound /\ UNCHANGED faults
       \/ Fail({"read"})
    /\ Continue("remove")
    /\ UNCHANGED served

Reload ==
    /\ pc = "reload"
    /\ ReloadOK \/ ReloadFails
    /\ UNCHANGED diskVars

\* os.RemoveAll(live) takes its time.
RemoveLive ==
    /\ pc = "remove"
    /\ live' = Partial
    /\ Continue("removed")
    /\ UNCHANGED <<served, prev, next, faults>>

\* Mutant of LiveRemoved: what was set aside is not restored.
LiveRemovedOnly ==
    /\ pc = "removed"
    /\ live' \in {None, Partial}
    /\ RemoveAll(live, live')
    /\ Return(Failed)
    /\ UNCHANGED <<served, prev, next>>

LiveRemoved ==
    /\ pc = "removed"
    /\ live' \in {None, Partial}
    /\ RemoveAll(live, live')
    /\ IF existed THEN Continue("restore") ELSE Return(Failed)
    /\ UNCHANGED <<served, prev, next>>

RestoreOK ==
    /\ live = None
    /\ live' = prev
    /\ prev' = None
    /\ Continue("reenter")
    /\ UNCHANGED faults

RestoreFails ==
    /\ \/ live # None /\ UNCHANGED faults
       \/ Fail({"restore"})
    /\ Return(Failed)
    /\ UNCHANGED <<live, prev>>

Restore ==
    /\ pc = "restore"
    /\ RestoreOK \/ RestoreFails
    /\ UNCHANGED <<served, next>>

\* The second ReloadFrom, its error ignored.
Reenter ==
    /\ pc = "reenter"
    /\ \/ live \in Sound \cup {Partial} /\ served' = live /\ UNCHANGED faults
       \/ live \notin Sound /\ UNCHANGED <<served, faults>>
       \/ Fail({"read"}) /\ UNCHANGED served
    /\ Return(Failed)
    /\ UNCHANGED diskVars

\* Settings.apply: a pack without settings leaves the level as it is.
Settings == level' = IF job \in Silent THEN level ELSE job

\* The last RemoveAll, and applied.set and the settings in handle.
Clean ==
    /\ pc = "clean"
    /\ prev' \in {None, Partial}
    /\ RemoveAll(prev, prev')
    /\ Return([pack |-> job, apply |-> "ok"])
    /\ Settings
    /\ UNCHANGED <<served, live, next>>

ApplyStep ==
    /\ \/ /\ \/ Stage \/ Write \/ RemovePrev \/ ParkTree \/ Promote \/ Reload
             \/ RemoveLive \/ LiveRemoved \/ Restore \/ Reenter
          /\ UNCHANGED level
       \/ Clean
    /\ UNCHANGED <<kv, updates, up, received, crashes>>

Next ==
    \/ \E e \in Packs \cup {Junk} : Publish(e)
    \/ BootImage \/ BootLive \/ BootPartial
    \/ Stop
    \/ Receive
    \/ Retry
    \/ FetchFails
    \/ Fetch
    \/ ApplyStep

Spec == Init /\ [][Next]_vars

(***************************************************************************)
(* The process is started again when it has stopped, the watcher runs, its *)
(* select does not prefer the timer to the updates for ever, and the blob  *)
(* store answers one of infinitely many fetches. Nothing obliges the       *)
(* controller to publish.                                                  *)
(***************************************************************************)
FairSpec ==
    /\ Spec
    /\ WF_vars(BootImage \/ BootLive)
    /\ SF_vars(Receive)
    /\ WF_vars(Retry)
    /\ WF_vars(FetchFails \/ Fetch)
    /\ SF_vars(Fetch)
    /\ WF_vars(ApplyStep)

-----------------------------------------------------------------------------
(* Properties.                                                             *)

Labels == {"idle", "fetch", "stage", "write", "unprev", "park", "promote",
           "reload", "remove", "removed", "restore", "reenter", "clean"}

Trees == Sound \cup Broken \cup {None, Partial}

Records == [pack : Sound \cup {None}, apply : {"", "ok", "apply_failed"}]

TypeOK ==
    /\ kv \in Packs \cup {Junk, None}
    /\ updates \in Seq(Packs \cup {Junk})
    /\ up \in BOOLEAN
    /\ served \in Sound \cup {Image, Partial, None}
    /\ applied \in Records
    /\ received \in Packs \cup {None}
    /\ pending \in Packs \cup {None}
    /\ pc \in Labels
    /\ job \in Packs \cup {None}
    /\ existed \in BOOLEAN
    /\ live \in Trees /\ prev \in Trees /\ next \in Trees
    /\ level \in Sound \cup {None}
    /\ faults \subseteq Faulty
    /\ crashes \in 0..MaxCrashes

\* Between rollouts the heartbeat tells the truth: it names the generation the
\* requests are judged by, also after a failed rollout; one it calls ok is the
\* one on disk and the last pack that arrived, so that no late retry put back
\* one that a newer pack had overtaken; and the log level is the one it asks for.
\* Only remains that a failed removal left may be served behind its back.
HeartbeatHonest ==
    up /\ pc = "idle" /\ applied.pack # None =>
        /\ "remove" \notin faults => served = applied.pack
        /\ applied.apply = "ok" => live = applied.pack /\ applied.pack = received
        /\ applied.pack \notin Silent => level = applied.pack

\* Requests are judged by a whole generation that compiled, or by the image's.
\* Only a stop, or a removal that fails, may leave remains that pass for one.
ServedCompiles ==
    up => \/ served \in Sound \cup {Image}
          \/ served = Partial /\ (crashes > 0 \/ "remove" \in faults)

\* A removal that was cut short, by a stop or by a fault, left remains.
Remains == Partial \in {live, prev}

\* However many file operations fail, except the renames that put a tree back,
\* the last good generation is not lost: at every point of a rollout and of its
\* rollback the tree of what is served is on disk, live or set aside, and
\* between rollouts the next start would load it.
LastGoodKept ==
    up /\ "restore" \notin faults /\ ~Remains =>
        /\ served \in Sound => served \in {live, prev}
        /\ pc = "idle" => live = IF served = Image THEN None ELSE served

\* What README.md says of a generation that does not compile, at the moment
\* the process has stopped: it is not the one the next start takes.
BrokenNotApplied == ~up => live \notin Broken

\* The published generation comes into service if it compiles and stays
\* published, unless a file operation fails, which is not tried again, or a
\* stop in the middle of a rollback left remains or a tree that the start does
\* not survive.
Converges ==
    \A p \in Sound :
        kv = p ~> \/ kv # p
                  \/ up /\ served = p
                  \/ faults # {}
                  \/ ~up /\ live \in Broken \cup {Partial}
=============================================================================
