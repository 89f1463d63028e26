-------------------------------- MODULE Packs --------------------------------
(***************************************************************************)
(* How a published pack becomes rule files (internal/desired): which       *)
(* profiles a pack stands for (RuntimeProfiles), the two rounds in which   *)
(* its blobs are fetched by hash (FetchBlobs), the manifest they expand to *)
(* (Expand), the tree that is written (writeTree) and the files the        *)
(* registry then compiles, in which order (rules.buildTree). Generations   *)
(* has what happens to the tree on disk; here is what is in it.            *)
(*                                                                         *)
(* Blobs are addressed by their content, so a content is its own hash. The *)
(* store is not ours: every fetch finds what it finds. A pack maps         *)
(* profile names to list blobs, file ids to rule blobs, profile names to   *)
(* policies and file names to data blobs. A profile name is a number of    *)
(* leading "pack-" and the rest; a file name is its characters, as         *)
(* numbers in their order, and whether it ends in .conf.                   *)
(***************************************************************************)
EXTENDS Integers, Sequences, FiniteSets, FiniteSetsExt, Functions

CONSTANTS
    PackSet,     \* the packs the controller may publish
    Lists,       \* the ids in a list blob
    Contents,    \* the contents of blobs
    Missing,     \* what the store says of a key it does not have
    Default,     \* the rest of the name of the default profile
    Volumes,     \* names that begin with "crs-prof-"
    Unsafe,      \* characters and names that make safeName fail
    PolicyName,  \* the characters of policy.yaml
    Base,        \* the digits a number is written with (10 in the code)
    Width        \* the digits "%02d" writes at least (2 in the code)

ASSUME PacksAssumption ==
    /\ Base \in Nat \ {0, 1}
    /\ Width \in Nat \ {0}
    /\ Missing \notin Contents
    /\ DOMAIN Lists \subseteq Contents
    /\ \A c \in DOMAIN Lists : Lists[c] \in Seq(Int)
    /\ Default \notin Volumes
    /\ \A p \in PackSet :
          /\ \A n \in DOMAIN p.profiles : n = <<n[1], n[2]>> /\ n[1] \in Nat
          /\ Range(p.profiles) \cup Range(p.files) \subseteq Contents
          /\ Range(p.policies) \cup Range(p.data) \subseteq Contents
          /\ IsFiniteSet(DOMAIN p.data)
          /\ \A n \in DOMAIN p.data : n \in [text : Seq(Int), conf : BOOLEAN]

VARIABLES
    pack,      \* the pack in hand
    pc,        \* how far handle has come with it
    runtime,   \* what FetchBlobs found RuntimeProfiles to be
    blobs,     \* what it fetched so far
    manifest,  \* the files of each profile, from Expand
    loaded     \* what buildTree hands to the engine, and the policy beside it

vars == <<pack, pc, runtime, blobs, manifest, loaded>>

\* A map without entries.
Empty == [x \in {} |-> x]
NoPack == [profiles |-> Empty, files |-> Empty, policies |-> Empty, data |-> Empty]

Init ==
    /\ pack = NoPack
    /\ pc = "idle"
    /\ runtime = Empty
    /\ blobs = Empty
    /\ manifest = Empty
    /\ loaded = Empty

-----------------------------------------------------------------------------
(* Names.                                                                  *)

Short(name) == <<name[1] - 1, name[2]>>

\* RuntimeProfiles leaves out volumes, and a long name whose short one exists.
IsRuntime(p, name) ==
    /\ name[1] > 0 \/ name[2] \notin Volumes
    /\ name[1] > 0 => Short(name) \notin DOMAIN p.profiles

Dest(name) == IF name[1] > 0 THEN Short(name) ELSE name

\* The map RuntimeProfiles returns. It is filled in the random order of a range
\* over a map, so two names with one destination would leave either list.
RuntimeProfiles(p) ==
    LET names == {n \in DOMAIN p.profiles : IsRuntime(p, n)}
        dests == {Dest(n) : n \in names}
    IN  {f \in [dests -> Range(p.profiles)] :
            \A d \in dests : \E n \in names : Dest(n) = d /\ f[d] = p.profiles[n]}

\* What is left of n after each division, and the digits of "%02d": as many as
\* it takes, but Width at least.
Quotients(n) ==
    LET q[k \in 0..(Width + n)] == IF k = 0 THEN n ELSE q[k - 1] \div Base
    IN  q
Digits(n) ==
    LET q == Quotients(n)
        len == Min({k \in Width..(Width + n) : q[k] = 0})
    IN  [k \in 1..len |-> q[len - k] % Base]

\* A dash comes before every digit, a digit before every letter.
Dash == 0

\* The name Expand gives the i-th rule file, counted from zero.
RuleFile(i, id) ==
    [text |-> [k \in DOMAIN Digits(i) |-> Digits(i)[k] + 1] \o <<Dash, id>>,
     conf |-> TRUE]
PolicyFile == [text |-> PolicyName, conf |-> FALSE]

SafeName(text) == text # << >> /\ Range(text) \cap Unsafe = {}

\* sort.Strings
Before(s, t) ==
    LET Same(k) == \A j \in 1..(k - 1) : s[j] = t[j]
    IN  \/ Len(s) < Len(t) /\ Same(Len(s) + 1)
        \/ \E k \in 1..Min({Len(s), Len(t)}) : Same(k) /\ s[k] < t[k]

-----------------------------------------------------------------------------
(* FetchBlobs.                                                             *)

\* What the store may answer: every blob, or not, or something else for one.
Answers(hashes) ==
    LET right == [h \in hashes |-> h]
    IN  {right} \cup {[right EXCEPT ![h] = c] : h \in hashes,
                                               c \in Contents \cup {Missing}}

\* Mutant of Sound: neither a missing nor another blob is noticed.
SoundAlways(answer) == TRUE

\* mgetHashes: every blob is there and has the hash it is stored under.
Sound(answer) == \A h \in DOMAIN answer : answer[h] = h

\* parseUUIDList; other blobs hold no list of known ids.
Ids(content) == IF content \in DOMAIN Lists THEN Lists[content] ELSE << >>

\* The checks both FetchBlobs and Expand make of a profile's list.
ListOK(content) ==
    Ids(content) # << >> /\ Range(Ids(content)) \subseteq DOMAIN pack.files

\* Mutant of Policies: looked up under the names of the pack.
PoliciesByName(rt) ==
    {pack.policies[n] : n \in DOMAIN pack.policies \cap DOMAIN pack.profiles}

Policies(rt) == {pack.policies[d] : d \in DOMAIN pack.policies \cap DOMAIN rt}

\* What the second round asks for.
FileHashes(rt, got) ==
    Range(pack.data) \cup Policies(rt)
    \cup UNION {{pack.files[id] : id \in Range(Ids(got[rt[d]]))} : d \in DOMAIN rt}

\* ParsePack refuses a pack without files or profiles. A newer pack replaces
\* one that waits for its retry.
Receive(p) ==
    /\ pc \in {"idle", "retry", "refused", "done"}
    /\ DOMAIN p.files # {} /\ DOMAIN p.profiles # {}
    /\ pack' = p
    /\ pc' = "lists"
    /\ runtime' = Empty /\ blobs' = Empty /\ manifest' = Empty /\ loaded' = Empty

FetchListsOK ==
    /\ \E rt \in RuntimeProfiles(pack) : \E answer \in Answers(Range(rt)) :
        /\ Sound(answer)
        /\ \A d \in DOMAIN rt : ListOK(answer[rt[d]])
        /\ runtime' = rt
        /\ blobs' = answer
    /\ pc' = "files"
    /\ UNCHANGED <<pack, manifest, loaded>>

\* The store fails, or a list is empty or names a file the pack does not have:
\* the error is the same to handle, which tries the pack again later.
FetchListsFails ==
    /\ pc' = "retry"
    /\ UNCHANGED <<pack, runtime, blobs, manifest, loaded>>

FetchLists == pc = "lists" /\ (FetchListsOK \/ FetchListsFails)

FetchFilesOK ==
    /\ \E answer \in Answers(FileHashes(runtime, blobs)) :
        /\ Sound(answer)
        /\ blobs' = [h \in DOMAIN blobs \cup DOMAIN answer |->
                        IF h \in DOMAIN answer THEN answer[h] ELSE blobs[h]]
    /\ pc' = "expand"
    /\ UNCHANGED <<pack, runtime, manifest, loaded>>

FetchFilesFails ==
    /\ pc' = "retry"
    /\ blobs' = Empty /\ runtime' = Empty
    /\ UNCHANGED <<pack, manifest, loaded>>

FetchFiles == pc = "files" /\ (FetchFilesOK \/ FetchFilesFails)

\* Mutant of Retry: the pack is not kept for it.
RetryForgets ==
    /\ pc = "retry"
    /\ pc' = "idle"
    /\ UNCHANGED <<pack, runtime, blobs, manifest, loaded>>

Retry ==
    /\ pc = "retry"
    /\ pc' = "lists"
    /\ UNCHANGED <<pack, runtime, blobs, manifest, loaded>>

-----------------------------------------------------------------------------
(* Expand, writeTree and buildTree.                                        *)

RuleFiles(ids) ==
    [i \in DOMAIN ids |-> [name |-> RuleFile(i - 1, ids[i]),
                           text |-> blobs[pack.files[ids[i]]]]]

\* The files of profile d: its policy, then the rules in the order of the list.
Expanded(d, rt) ==
    LET policy == IF d \in DOMAIN pack.policies
                  THEN <<[name |-> PolicyFile, text |-> blobs[pack.policies[d]]]>>
                  ELSE << >>
    IN  policy \o RuleFiles(Ids(blobs[rt[d]]))

\* Every blob Expand looks up: a missing one would end the rollout for good.
Needed(rt) ==
    Range(rt) \cup Range(pack.data)
    \cup {pack.policies[d] : d \in DOMAIN pack.policies \cap DOMAIN rt}
    \cup UNION {{pack.files[id] : id \in Range(Ids(rt[d]))} : d \in DOMAIN rt}

Expandable(rt) ==
    /\ <<0, Default>> \in DOMAIN rt
    /\ \A n \in DOMAIN pack.data : SafeName(n.text)
    /\ Needed(rt) \subseteq DOMAIN blobs
    /\ \A d \in DOMAIN rt : ListOK(blobs[rt[d]])

Expand ==
    /\ pc = "expand"
    /\ \E rt \in RuntimeProfiles(pack) :
        \/ /\ Expandable(rt)
           /\ manifest' = [d \in DOMAIN rt |-> Expanded(d, rt)]
           /\ pc' = "write"
        \/ /\ ~Expandable(rt)
           /\ pc' = "refused"
           /\ UNCHANGED manifest
    /\ UNCHANGED <<pack, runtime, blobs, loaded>>

\* rewriteFromFile: a rule that reads a data file is pointed to the one in the
\* directory its profile will have once the tree is live. A data file is written
\* as it is.
Rewritten(text, d) == [text |-> text, refs |-> d]
AsIs(text) == [text |-> text, refs |-> << >>]

\* Mutant of Tree: the data files are written last.
TreeDataLast(d) ==
    LET names == {manifest[d][i].name : i \in DOMAIN manifest[d]}
    IN  [n \in names \cup DOMAIN pack.data |->
            IF n \in DOMAIN pack.data THEN AsIs(blobs[pack.data[n]])
            ELSE Rewritten((CHOOSE f \in Range(manifest[d]) : f.name = n).text, d)]

\* The directory of profile d: the data files first, the profile's own files
\* over them.
Tree(d) ==
    LET names == {manifest[d][i].name : i \in DOMAIN manifest[d]}
    IN  [n \in names \cup DOMAIN pack.data |->
            IF n \in names
            THEN Rewritten((CHOOSE f \in Range(manifest[d]) : f.name = n).text, d)
            ELSE AsIs(blobs[pack.data[n]])]

\* filepath.Glob of *.conf, sorted, and the policy of LoadDir.
Loaded(tree) ==
    LET confs == {n \in DOMAIN tree : n.conf}
        nth(i) == CHOOSE n \in confs :
                     Cardinality({m \in confs : Before(m.text, n.text)}) = i - 1
        order == [i \in 1..Cardinality(confs) |-> nth(i)]
    IN  [names |-> order,
         rules |-> [i \in DOMAIN order |-> tree[order[i]]],
         policy |-> IF PolicyFile \in DOMAIN tree THEN tree[PolicyFile].text ELSE Missing]

SafeTree ==
    \A d \in DOMAIN manifest :
        /\ d[2] \notin Unsafe
        /\ \A i \in DOMAIN manifest[d] : SafeName(manifest[d][i].name.text)

\* A name that is not safe fails Apply, and that is not tried again.
Write ==
    /\ pc = "write"
    /\ \/ /\ SafeTree
          /\ loaded' = [d \in DOMAIN manifest |-> Loaded(Tree(d))]
          /\ pc' = "done"
       \/ /\ ~SafeTree
          /\ pc' = "refused"
          /\ UNCHANGED loaded
    /\ UNCHANGED <<pack, runtime, blobs, manifest>>

Next ==
    \/ \E p \in PackSet : Receive(p)
    \/ FetchLists
    \/ FetchFiles
    \/ Retry
    \/ Expand
    \/ Write

Spec == Init /\ [][Next]_vars

(***************************************************************************)
(* The watcher runs, and of infinitely many fetches of a kind one finds    *)
(* everything in place. Nobody is obliged to publish.                      *)
(***************************************************************************)
FairSpec ==
    /\ Spec
    /\ WF_vars(FetchLists) /\ SF_vars(FetchLists /\ FetchListsOK)
    /\ WF_vars(FetchFiles) /\ SF_vars(FetchFiles /\ FetchFilesOK)
    /\ WF_vars(Retry)
    /\ WF_vars(Expand)
    /\ WF_vars(Write)

-----------------------------------------------------------------------------
(* Properties.                                                             *)

TypeOK ==
    /\ pack \in PackSet \cup {NoPack}
    /\ pc \in {"idle", "lists", "files", "retry", "expand", "write", "refused", "done"}
    /\ Range(blobs) \subseteq Contents
    /\ Range(runtime) \subseteq DOMAIN blobs

\* The profile of the pack that a runtime profile stands for.
Source(d) == IF d \in DOMAIN pack.profiles THEN d ELSE <<d[1] + 1, d[2]>>

\* The list of profile d, as the pack has it.
Listed(d) == Ids(pack.profiles[Source(d)])

\* The rules of profile d, in the order in which the engine reads them; a data
\* file called *.conf is read, too, and stands in no list.
ListedNames(d) == {RuleFile(i - 1, Listed(d)[i]) : i \in DOMAIN Listed(d)}
RulesOf(d) ==
    LET at == {k \in DOMAIN loaded[d].names : loaded[d].names[k] \in ListedNames(d)}
    IN  {<<loaded[d].names[k], loaded[d].rules[k]>> : k \in at}

\* How many numbers Width digits can write: a hundred.
Numbers ==
    LET power[k \in 0..Width] == IF k = 0 THEN 1 ELSE Base * power[k - 1]
    IN  power[Width]

AllServed ==
    \A n \in DOMAIN pack.profiles :
        n[1] <= 1 /\ n[2] \notin Volumes => Dest(n) \in DOMAIN loaded

RulesAsListed(d) ==
    LET at(i) == CHOOSE k \in DOMAIN loaded[d].names :
                    loaded[d].names[k] = RuleFile(i - 1, Listed(d)[i])
    IN  /\ RulesOf(d) = {<<RuleFile(i - 1, Listed(d)[i]),
                           Rewritten(pack.files[Listed(d)[i]], d)>> :
                            i \in DOMAIN Listed(d)}
        /\ Len(Listed(d)) <= Numbers =>
              \A i, j \in DOMAIN Listed(d) : i < j => at(i) < at(j)

OwnPolicy(d) == d \in DOMAIN pack.policies => loaded[d].policy = pack.policies[d]

\* What the engine reads is what the pack says, blob by blob, whatever the
\* store answered in between and in whatever order the maps were walked: every
\* profile x or pack-x that is no volume is served under the name x, with the
\* files of its own list, pointed to the data files beside them, and its own
\* policy, over which no data file prevails; and the files are read in the order
\* of the list, because the number in front of a name sorts like the list, as
\* long as it fits the width.
ServedAsPublished ==
    pc = "done" =>
        /\ AllServed
        /\ \A d \in DOMAIN loaded : RulesAsListed(d) /\ OwnPolicy(d)

\* FetchBlobs and Expand work out separately which blobs a pack needs; they
\* agree, so Expand never gives up, for good, on a blob that was not fetched.
FetchCoversExpand ==
    pc = "expand" => \A rt \in RuntimeProfiles(pack) : Needed(rt) \subseteq DOMAIN blobs

\* What is enough for a pack to be served.
WellFormed(p) ==
    LET kept == {n \in DOMAIN p.profiles : n[1] > 0 \/ n[2] \notin Volumes}
    IN  /\ \E n \in kept : Dest(n) = <<0, Default>>
        /\ \A n \in kept :
              /\ n[2] \notin Unsafe
              /\ Ids(p.profiles[n]) # << >>
              /\ Range(Ids(p.profiles[n])) \subseteq DOMAIN p.files \ Unsafe
        /\ \A n \in DOMAIN p.data : SafeName(n.text)

\* A well-formed pack is written in the end, however often its blobs were late:
\* it, or a newer one that took its place, unless that one is not well-formed.
WellFormedIsServed ==
    pc = "lists" /\ WellFormed(pack) ~> pc = "done" \/ ~WellFormed(pack)
=============================================================================
