---------------------------- MODULE RuntimeStore ----------------------------
(***************************************************************************)
(* The runtimes a factory pins - compilers, a JRE, a package manager - in  *)
(* the store that all workspaces of a user share                           *)
(* (internal/controller/runtimecontroller), with the fetch and install     *)
(* engines it calls.  Provision takes descriptions of the pinned runtimes, *)
(* checks what they need, brings each into its store entry under the       *)
(* entry's lock, and links its programs into the workspace's .forge/bin.   *)
(*                                                                         *)
(* An entry holds files, each from one artifact.  Removing an entry takes  *)
(* its files one by one, while others look; renaming the staged prefix     *)
(* over it lands them all.  What a process stages is named after the entry *)
(* and its process id, which processes of two containers may share.  A     *)
(* failed call is an abort; a process killed leaves what it staged.        *)
(***************************************************************************)
EXTENDS Naturals

CONSTANTS
    Proc,       \* forge-factory processes
    Nobody,     \* "no process"
    Pid,        \* Pid[p]: the process id of p
    Workspace,  \* workspaces of the user
    Nowhere,    \* "no workspace"
    Entry,      \* entries of the store
    NoEntry,    \* "no entry"
    File,       \* paths under a prefix
    Artifact,   \* artifacts, known by the digests that pin them
    NoArtifact, \* "no artifact"
    Desc,       \* descriptions the engines answer
    NoDesc,     \* "no description"
    Capability, \* what a runtime may need
    Plans,      \* the sets of runtimes a factory may pin
    EntryOf,    \* EntryOf[d]: the store entry of d
    Rank,       \* Rank[d]: the place of d's runtime in the order of names
    Artifacts,  \* Artifacts[d]: what d says to fetch
    Bins,       \* Bins[d]: the programs of d
    Env,        \* Env[d]: whether d has an environment
    Needs,      \* Needs[d]: what d needs
    Provides,   \* Provides[d]: what d provides
    Host,       \* what is found on this machine
    Satisfy,    \* Satisfy[w][c]: a description, "host", or "unset"
    Lays,       \* Lays[a]: the files installing a lays out
    Served,     \* Served[a]: the bytes a server may answer for a
    MaxJobs,    \* bound: jobs started
    MaxAborts   \* bound: jobs killed or failing on their own

Bytes == Artifact \cup UNION {Served[a] : a \in Artifact}

ASSUME RuntimeAssumption ==
    /\ Nobody \notin Proc
    /\ Nowhere \notin Workspace
    /\ NoEntry \notin Entry
    /\ NoArtifact \notin Bytes
    /\ NoDesc \notin Desc
    /\ {"host", "unset"} \cap Desc = {}
    /\ Plans \subseteq SUBSET Desc
    /\ EntryOf \in [Desc -> Entry]
    /\ Rank \in [Desc -> Nat]
    /\ Artifacts \in [Desc -> SUBSET Artifact]
    /\ Bins \in [Desc -> SUBSET File]
    /\ Env \in [Desc -> BOOLEAN]
    /\ Needs \in [Desc -> SUBSET Capability]
    /\ Provides \in [Desc -> SUBSET Capability]
    /\ Satisfy \in [Workspace -> [Capability -> Desc \cup {"host", "unset"}]]
    /\ Lays \in [Bytes -> SUBSET File]

ASSUME RuntimeBounds == MaxJobs \in Nat /\ MaxAborts \in Nat

VARIABLES
    dir,      \* dir[e]: whether the prefix of e exists
    has,      \* has[e][f]: the artifact that file f of the prefix comes from
    staged,   \* staged[i][e]: the files staged for e under process id i
    bin,      \* bin[w][f]: the entry that the name of f in .forge/bin leads to
    env,      \* env[w]: the runtimes whose environment .forge/env sets
    torn,     \* torn[w]: whether .forge/env is half written
    lock,     \* lock[e]: who holds the file lock of e
    job,      \* job[p]: what process p is doing
    started,  \* how many jobs were started
    aborts    \* how many of them were cut short

vars == <<dir, has, staged, bin, env, torn, lock, job, started, aborts>>
store == <<dir, has>>
exposed == <<bin, env, torn>>
rest == <<started, aborts>>

-----------------------------------------------------------------------------
Files == [File -> Bytes \cup {NoArtifact}]
NoFiles == [f \in File |-> NoArtifact]

Pc == {"idle", "check", "look", "lock", "recheck", "remove", "clear",
       "fetch", "install", "land", "expose", "link", "env", "refused"}

\* todo: runtimes not yet in the store; got: the bytes fetched for the runtime
\* at hand; links: the programs still to link, hand: the one whose
\* old link is gone; at: the runtime at hand.
Job == [pc : Pc, ws : Workspace \cup {Nowhere}, plan : SUBSET Desc,
        todo : SUBSET Desc, at : Desc \cup {NoDesc},
        fetch : SUBSET Artifact, got : SUBSET Bytes,
        links : SUBSET (Desc \X File), hand : SUBSET File]

Idle == [pc |-> "idle", ws |-> Nowhere, plan |-> {}, todo |-> {},
         at |-> NoDesc, fetch |-> {}, got |-> {}, links |-> {}, hand |-> {}]

\* The type of every variable, and the bounds of the counters.
TypeOK ==
    /\ dir \in [Entry -> BOOLEAN]
    /\ has \in [Entry -> Files]
    /\ staged \in [{Pid[p] : p \in Proc} -> [Entry -> Files]]
    /\ bin \in [Workspace -> [File -> Entry \cup {NoEntry}]]
    /\ env \in [Workspace -> SUBSET Desc]
    /\ torn \in [Workspace -> BOOLEAN]
    /\ lock \in [Entry -> Proc \cup {Nobody}]
    /\ job \in [Proc -> Job]
    /\ started \in 0..MaxJobs
    /\ aborts \in 0..MaxAborts

Init ==
    /\ dir = [e \in Entry |-> FALSE]
    /\ has = [e \in Entry |-> NoFiles]
    /\ staged = [i \in {Pid[p] : p \in Proc} |-> [e \in Entry |-> NoFiles]]
    /\ bin = [w \in Workspace |-> [f \in File |-> NoEntry]]
    /\ env = [w \in Workspace |-> {}]
    /\ torn = [w \in Workspace |-> FALSE]
    /\ lock = [e \in Entry |-> Nobody]
    /\ job = [p \in Proc |-> Idle]
    /\ started = 0
    /\ aborts = 0

Goto(p, pc) == job' = [job EXCEPT ![p].pc = pc]

\* The entry of the runtime that p has at hand.
At(p) == IF job[p].at = NoDesc THEN NoEntry ELSE EntryOf[job[p].at]

\* Whether p is inside materialize, between Lock and its release.
Holding(p) ==
    job[p].pc \in {"recheck", "remove", "clear", "fetch", "install", "land"}

\* Whether p is replacing the entry it has locked.
Replacing(p) == Holding(p) /\ job[p].pc # "recheck"

\* Whether the entry of d stands and has every program d describes.
Carries(d) == dir[EntryOf[d]] /\ \A f \in Bins[d] : has[EntryOf[d]][f] # NoArtifact

-----------------------------------------------------------------------------
(* Jobs start and end. *)

Provision(p) ==
    \E w \in Workspace, plan \in Plans :
        /\ job[p].pc = "idle"
        /\ started < MaxJobs
        /\ started' = started + 1
        /\ job' = [job EXCEPT ![p] =
               [Idle EXCEPT !.pc = "check", !.ws = w, !.plan = plan, !.todo = plan]]
        /\ UNCHANGED <<store, staged, exposed, lock, aborts>>

Release(p) == lock' = [e \in Entry |-> IF lock[e] = p THEN Nobody ELSE lock[e]]

Leave(p) == job' = [job EXCEPT ![p] = Idle] /\ Release(p)

\* The process dies: the kernel releases its lock, and what it staged stays.
Kill(p) ==
    /\ job[p].pc # "idle"
    /\ aborts < MaxAborts
    /\ aborts' = aborts + 1
    /\ Leave(p)
    /\ UNCHANGED <<store, staged, exposed, started>>

\* Removing what p staged for the entry it is bringing in.
Unstaged(p) == [staged EXCEPT ![Pid[p]][At(p)] = NoFiles]

-----------------------------------------------------------------------------
(* checkPrerequisites: nothing is fetched unless every need is met. *)

\* The runtime of the plan that provides c: the last by name, when several do.
Providers(plan, c) ==
    {d \in plan : /\ c \in Provides[d]
                  /\ \A e \in plan : c \in Provides[e] => Rank[e] <= Rank[d]}

Satisfied(w, plan, c) ==
    CASE Satisfy[w][c] = "host" -> c \in Host
      [] Satisfy[w][c] = "unset" -> Providers(plan, c) # {} \/ c \in Host
      [] OTHER -> Satisfy[w][c] \in Providers(plan, c)

\* Faulty: a need that a declared runtime could meet is taken as met.
CheckNothing(p) ==
    /\ job[p].pc = "check"
    /\ Goto(p, "look")
    /\ UNCHANGED <<store, staged, exposed, lock, rest>>

CheckPrerequisites(p) ==
    LET plan == job[p].plan
    IN  /\ job[p].pc = "check"
        /\ IF \A d \in plan : \A c \in Needs[d] : Satisfied(job[p].ws, plan, c)
           THEN Goto(p, "look") ELSE Goto(p, "refused")
        /\ UNCHANGED <<store, staged, exposed, lock, rest>>

-----------------------------------------------------------------------------
(* materialize: one runtime into its entry. *)

\* The runtimes are brought in by name.
First(d, ds) == d \in ds /\ \A e \in ds : Rank[d] <= Rank[e]

\* An entry that stands with the programs of d is used as it is, without a lock.
Look(p) ==
    /\ job[p].pc = "look"
    /\ \E d \in Desc :
           /\ First(d, job[p].todo)
           /\ job' = IF Carries(d) THEN [job EXCEPT ![p].todo = @ \ {d}]
                     ELSE [job EXCEPT ![p].at = d, ![p].pc = "lock"]
    /\ UNCHANGED <<store, staged, exposed, lock, rest>>

LockEntry(p) ==
    /\ job[p].pc = "lock"
    /\ lock[At(p)] = Nobody
    /\ lock' = [lock EXCEPT ![At(p)] = p]
    /\ Goto(p, "recheck")
    /\ UNCHANGED <<store, staged, exposed, rest>>

\* The runtime at hand is in the store: its lock is released.
Have(p) ==
    /\ job' = [job EXCEPT ![p].todo = @ \ {job[p].at}, ![p].at = NoDesc,
                          ![p].fetch = {}, ![p].got = {}, ![p].pc = "look"]
    /\ Release(p)

\* Faulty: the entry that the winner of the race landed is taken for stale.
RecheckNothing(p) ==
    /\ job[p].pc = "recheck"
    /\ Goto(p, IF dir[At(p)] THEN "remove" ELSE "clear")
    /\ UNCHANGED <<store, staged, exposed, lock, rest>>

\* The loser of a race has the winner's entry; an entry without the programs
\* is stale.
Recheck(p) ==
    /\ job[p].pc = "recheck"
    /\ IF Carries(job[p].at) THEN Have(p)
       ELSE /\ Goto(p, IF dir[At(p)] THEN "remove" ELSE "clear")
            /\ UNCHANGED lock
    /\ UNCHANGED <<store, staged, exposed, rest>>

\* RemoveAll takes the files in an order of its own, then the directory.
RemoveStale(p) ==
    /\ job[p].pc = "remove"
    /\ IF has[At(p)] = NoFiles
       THEN /\ dir' = [dir EXCEPT ![At(p)] = FALSE]
            /\ Goto(p, "clear")
            /\ UNCHANGED has
       ELSE /\ \E f \in File :
                   /\ has[At(p)][f] # NoArtifact
                   /\ has' = [has EXCEPT ![At(p)][f] = NoArtifact]
            /\ UNCHANGED <<dir, job>>
    /\ UNCHANGED <<staged, exposed, lock, rest>>

\* Faulty: what an earlier process of this id staged is not removed.
ClearNothing(p) ==
    /\ job[p].pc = "clear"
    /\ job' = [job EXCEPT ![p].fetch = Artifacts[job[p].at], ![p].pc = "fetch"]
    /\ UNCHANGED <<store, staged, exposed, lock, rest>>

Clear(p) ==
    /\ job[p].pc = "clear"
    /\ staged' = Unstaged(p)
    /\ job' = [job EXCEPT ![p].fetch = Artifacts[job[p].at], ![p].pc = "fetch"]
    /\ UNCHANGED <<store, exposed, lock, rest>>

\* The fetch engine: bytes that do not hash to the pin are refused, and the
\* whole runtime with them.
Fetch(p) ==
    /\ job[p].pc = "fetch"
    /\ \E a \in job[p].fetch : \E b \in Served[a] \cup {a} :
           IF b = a
           THEN /\ job' = [job EXCEPT ![p].fetch = @ \ {a}, ![p].got = @ \cup {b}]
                /\ UNCHANGED <<staged, aborts>>
           ELSE /\ aborts < MaxAborts
                /\ aborts' = aborts + 1
                /\ Goto(p, "refused")
                /\ staged' = Unstaged(p)
    /\ UNCHANGED <<store, exposed, lock, started>>

Fetched(p) ==
    /\ job[p].pc = "fetch" /\ job[p].fetch = {}
    /\ Goto(p, "install")
    /\ UNCHANGED <<store, staged, exposed, lock, rest>>

\* The install engine lays one archive out in the staged prefix.
Install(p) ==
    /\ job[p].pc = "install"
    /\ \E b \in job[p].got :
           /\ staged' = [staged EXCEPT ![Pid[p]][At(p)] =
                  [f \in File |-> IF f \in Lays[b] THEN b ELSE @[f]]]
           /\ job' = [job EXCEPT ![p].got = @ \ {b}]
    /\ UNCHANGED <<store, exposed, lock, rest>>

\* Faulty: the prefix lands before every archive is laid out.
InstalledEarly(p) ==
    /\ job[p].pc = "install"
    /\ job' = [job EXCEPT ![p].got = {}, ![p].pc = "land"]
    /\ UNCHANGED <<store, staged, exposed, lock, rest>>

Installed(p) ==
    /\ job[p].pc = "install" /\ job[p].got = {}
    /\ Goto(p, "land")
    /\ UNCHANGED <<store, staged, exposed, lock, rest>>

\* The engine of one archive fails: the staged files go, the lock with them.
FailInstall(p) ==
    /\ job[p].pc = "install"
    /\ aborts < MaxAborts
    /\ aborts' = aborts + 1
    /\ Goto(p, "refused")
    /\ staged' = Unstaged(p)
    /\ UNCHANGED <<store, exposed, lock, started>>

\* A directory with files in it cannot be renamed over.
Land(p) ==
    /\ job[p].pc = "land"
    /\ IF dir[At(p)] /\ has[At(p)] # NoFiles
       THEN /\ Goto(p, "refused")
            /\ UNCHANGED <<store, lock>>
       ELSE /\ dir' = [dir EXCEPT ![At(p)] = TRUE]
            /\ has' = [has EXCEPT ![At(p)] = staged[Pid[p]][At(p)]]
            /\ Have(p)
    /\ staged' = Unstaged(p)
    /\ UNCHANGED <<exposed, rest>>

\* Faulty: an error returns without releasing the lock.
ReportLocked(p) ==
    /\ job[p].pc = "refused"
    /\ job' = [job EXCEPT ![p] = Idle]
    /\ UNCHANGED <<store, staged, exposed, lock, rest>>

\* An error releases the lock by its deferred call and is reported.
Report(p) ==
    /\ job[p].pc = "refused"
    /\ Leave(p)
    /\ UNCHANGED <<store, staged, exposed, rest>>

-----------------------------------------------------------------------------
(* expose: the programs and the environment of the workspace. *)

\* The programs of a plan, each with the runtime it belongs to.
Programs(plan) == {l \in Desc \X File : l[1] \in plan /\ l[2] \in Bins[l[1]]}

\* Faulty: the programs are linked while runtimes are still missing.
MaterializedEarly(p) ==
    /\ job[p].pc = "look"
    /\ job' = [job EXCEPT ![p].pc = "expose",
           ![p].links = Programs(job[p].plan)]
    /\ UNCHANGED <<store, staged, exposed, lock, rest>>

Materialized(p) ==
    /\ job[p].pc = "look" /\ job[p].todo = {}
    /\ job' = [job EXCEPT ![p].pc = "expose",
           ![p].links = Programs(job[p].plan)]
    /\ UNCHANGED <<store, staged, exposed, lock, rest>>

\* The links are made in the order of the runtimes' names.
NextLink(p) ==
    {l \in job[p].links : \A m \in job[p].links : Rank[l[1]] <= Rank[m[1]]}

Unlink(p) ==
    /\ job[p].pc = "expose"
    /\ \E l \in NextLink(p) :
           /\ bin' = [bin EXCEPT ![job[p].ws][l[2]] = NoEntry]
           /\ job' = [job EXCEPT ![p].links = @ \ {l}, ![p].at = l[1],
                                 ![p].hand = {l[2]}, ![p].pc = "link"]
    /\ UNCHANGED <<store, staged, env, torn, lock, rest>>

\* Faulty: a name leads to the description and not to its entry.
LinkDescription(p) ==
    /\ job[p].pc = "link"
    /\ \E f \in job[p].hand :
           bin' = [bin EXCEPT ![job[p].ws][f] = job[p].at]
    /\ job' = [job EXCEPT ![p].at = NoDesc, ![p].hand = {}, ![p].pc = "expose"]
    /\ UNCHANGED <<store, staged, env, torn, lock, rest>>

\* A link that came back meanwhile is an error.
Link(p) ==
    LET w == job[p].ws
    IN  /\ job[p].pc = "link"
        /\ \E f \in job[p].hand :
               IF bin[w][f] # NoEntry
               THEN Goto(p, "refused") /\ UNCHANGED bin
               ELSE /\ bin' = [bin EXCEPT ![w][f] = At(p)]
                    /\ job' = [job EXCEPT ![p].at = NoDesc, ![p].hand = {},
                                          ![p].pc = "expose"]
        /\ UNCHANGED <<store, staged, env, torn, lock, rest>>

Linked(p) ==
    /\ job[p].pc = "expose" /\ job[p].links = {}
    /\ torn' = [torn EXCEPT ![job[p].ws] = TRUE]
    /\ Goto(p, "env")
    /\ UNCHANGED <<store, staged, bin, env, lock, rest>>

WriteEnv(p) ==
    /\ job[p].pc = "env"
    /\ env' = [env EXCEPT ![job[p].ws] = {d \in job[p].plan : Env[d]}]
    /\ torn' = [torn EXCEPT ![job[p].ws] = FALSE]
    /\ Leave(p)
    /\ UNCHANGED <<store, staged, bin, rest>>

-----------------------------------------------------------------------------
Step(p) ==
    \/ CheckPrerequisites(p) \/ Look(p) \/ LockEntry(p) \/ Recheck(p)
    \/ RemoveStale(p) \/ Clear(p) \/ Fetch(p) \/ Fetched(p) \/ Install(p)
    \/ Installed(p) \/ Land(p) \/ Report(p)
    \/ Materialized(p) \/ Unlink(p) \/ Link(p) \/ Linked(p) \/ WriteEnv(p)

Next == \E p \in Proc : Provision(p) \/ Step(p) \/ FailInstall(p) \/ Kill(p)

Spec == Init /\ [][Next]_vars

FairSpec == Spec /\ \A p \in Proc : WF_vars(Step(p))

-----------------------------------------------------------------------------
(* Properties. *)

\* What stands in a prefix was fetched and verified for one description of that
\* entry: never the bytes another server answered, never a mixture of two
\* descriptions or with what a killed process of the same id left staged.
EntriesOfOneBuild ==
    \A e \in Entry : has[e] # NoFiles => \E d \in Desc :
        /\ EntryOf[d] = e
        /\ \A f \in File : has[e][f] # NoArtifact =>
               has[e][f] \in Artifacts[d] /\ f \in Lays[has[e][f]]

\* The process that renames a prefix into place holds its lock and finds the
\* place free, so "landing" never fails and never buries another's build.
LandsOnNothing ==
    \A p \in Proc : job[p].pc \in {"clear", "fetch", "install", "land"} =>
        lock[At(p)] = p /\ ~dir[At(p)]

\* While nothing dies, an entry lacks a file of the description it was built
\* from only while a process that holds its lock removes it.
Whole(e) == \E d \in Desc : /\ EntryOf[d] = e
                            /\ \A f \in File : has[e][f] = NoArtifact =>
                                   \A a \in Artifacts[d] : f \notin Lays[a]

PartialOnlyByRemoval ==
    aborts = 0 => \A e \in Entry : dir[e] =>
        Whole(e) \/ \E p \in Proc : job[p].pc = "remove" /\ At(p) = e /\ lock[e] = p

\* Of two descriptions of an entry one knows every program of the other, as
\* when an engine learns of a program it did not link before.
Growing ==
    \A d, e \in Desc : EntryOf[d] = EntryOf[e] =>
        Bins[d] \subseteq Bins[e] \/ Bins[e] \subseteq Bins[d]

\* Every program of a description is a file that its artifacts lay out.
ProgramsLaidOut ==
    \A d \in Desc : \A f \in Bins[d] : \E a \in Artifacts[d] : f \in Lays[a]

\* While nothing dies, a name in .forge/bin leads nowhere only while some
\* process replaces the entry it leads to.
LinksLeadToFiles ==
    aborts = 0 => \A w \in Workspace, f \in File :
        LET e == bin[w][f]
        IN  e # NoEntry => \/ has[e][f] # NoArtifact
                           \/ \E p \in Proc : At(p) = e /\ Replacing(p)

\* A runtime whose environment a workspace sets finds what it needs there or on
\* the host: the links of its provider are made first, and a link is gone only
\* between the two calls that renew it.
NeedsAreMet ==
    \A w \in Workspace : \A d \in env[w] : \A c \in Needs[d] :
        c \in Host \/ \E e \in Desc :
            /\ c \in Provides[e]
            /\ \A f \in Bins[e] : \/ bin[w][f] # NoEntry
                                  \/ aborts > 0
                                  \/ \E p \in Proc : job[p].ws = w /\ f \in job[p].hand

\* An entry that carries the programs of everything described for it is never
\* touched again, however many processes saw it missing before.
FullEntriesStay ==
    [][\A e \in Entry :
           (\A d \in Desc : EntryOf[d] = e => Carries(d)) =>
               has'[e] = has[e] /\ dir'[e] = dir[e]]_vars

\* Every provision ends: nobody waits for a lock that is never released.
ProvisionsEnd == \A p \in Proc : job[p].pc # "idle" ~> job[p].pc = "idle"

-----------------------------------------------------------------------------
(* What a comment of the code says, and the code does not do. *)

\* "A store restored from a cache, or one shared between a container job and a
\* host job, is read on more than one architecture": what a workspace of one
\* platform is given was fetched for its own description.
ReuseFitsPlatform ==
    \A p \in Proc : job[p].pc = "expose" => \A d \in job[p].plan :
        Carries(d) => \A f \in Bins[d] : has[EntryOf[d]][f] \in Artifacts[d]
=============================================================================
