------------------------------ MODULE RunCache ------------------------------
(***************************************************************************)
(* The cache `forge-factory run` keeps under ~/.cache/forge-factory: one   *)
(* clone per repository and one run root per resolved tuple, shared by     *)
(* every process of the user (internal/controller/runcontroller).  Each    *)
(* clone and each run root has an advisory file lock of its own            *)
(* (internal/adapter/lockadapter).                                         *)
(*                                                                         *)
(* A run root holds a worktree of the member that runs and one of the      *)
(* register.  Of the clones only these two have worktrees; the factory's   *)
(* and the state repository's are refreshed the same way and only read, so *)
(* they are left out.  The register floats at its default branch.  The     *)
(* root a run resolves to is chosen when it starts: what it is chosen from *)
(* never depends on the cache.                                             *)
(***************************************************************************)
EXTENDS Naturals, FiniteSets

CONSTANTS
    Proc,       \* forge-factory processes
    Nobody,     \* "no process"
    Remote,     \* run roots of remote runs, <module>@<sha>+<factory>@<sha>
    Local,      \* run roots of local checkouts, local-<path>+<factory>@<sha>
    NoRoot,     \* "no root"
    Forces,     \* the values --force is given
    MaxRev,     \* bound: revisions the register publishes
    MaxJobs,    \* bound: commands started
    MaxAborts   \* bound: commands killed or failing on their own

Root == Remote \cup Local
Part == {"member", "register"}
Key == Root \cup Part

ASSUME CacheAssumption ==
    /\ Nobody \notin Proc
    /\ Remote \cap Local = {}
    /\ NoRoot \notin Root
    /\ Root \cap Part = {}
    /\ Forces \subseteq BOOLEAN

ASSUME CacheBounds == MaxRev \in Nat /\ MaxJobs \in Nat /\ MaxAborts \in Nat

VARIABLES
    upstream,    \* the revision the register's default branch is at
    head,        \* the revision the register's clone last fetched
    clone,       \* clone[c]: absent, partial or whole
    registered,  \* registered[c]: the roots git holds a worktree of c for
    dir,         \* dir[r][c]: the worktree of c in run root r
    at,          \* at[r]: the revision the register's worktree was added at
    synced,      \* synced[r]: how much of the sync of r is on disk
    marker,      \* the roots holding .forge-materialised
    tuple,       \* the roots a warm tuple file under run/.ready points at
    lock,        \* lock[k]: who holds the file lock of k
    job,         \* job[p]: what process p is doing
    started,     \* how many commands were started
    aborts       \* how many of them were cut short

vars == <<upstream, head, clone, registered, dir, at, synced, marker, tuple,
          lock, job, started, aborts>>
roots == <<dir, at, synced, marker, tuple>>
clones == <<head, clone, registered>>
counts == <<upstream, started, aborts>>

-----------------------------------------------------------------------------
State == {"absent", "partial", "whole"}

Idle == [kind |-> "none", pc |-> "idle", root |-> NoRoot, force |-> FALSE,
         pinned |-> FALSE, part |-> "member", reg |-> 0]

Pc == {"idle", "tuple", "clone", "refresh", "cloning", "resolve", "root",
       "inspect", "discard", "checkout", "worktree", "adding", "sync",
       "syncing", "mark", "inputs", "exec"}

Job == [kind : {"none", "remote", "local"}, pc : Pc,
        root : Root \cup {NoRoot}, force : BOOLEAN, pinned : BOOLEAN,
        part : Part, reg : 0..MaxRev]

\* The type of every variable, and the bounds of the counters.
TypeOK ==
    /\ upstream \in 0..MaxRev
    /\ head \in 0..MaxRev
    /\ clone \in [Part -> State]
    /\ registered \in [Part -> SUBSET Root]
    /\ dir \in [Root -> [Part -> State]]
    /\ at \in [Root -> 0..MaxRev]
    /\ synced \in [Root -> {"none", "partial", "done"}]
    /\ marker \subseteq Root
    /\ tuple \subseteq Root
    /\ lock \in [Key -> Proc \cup {Nobody}]
    /\ job \in [Proc -> Job]
    /\ started \in 0..MaxJobs
    /\ aborts \in 0..MaxAborts

Init ==
    /\ upstream = 0
    /\ head = 0
    /\ clone = [c \in Part |-> "absent"]
    /\ registered = [c \in Part |-> {}]
    /\ dir = [r \in Root |-> [c \in Part |-> "absent"]]
    /\ at = [r \in Root |-> 0]
    /\ synced = [r \in Root |-> "none"]
    /\ marker = {}
    /\ tuple = {}
    /\ lock = [k \in Key |-> Nobody]
    /\ job = [p \in Proc |-> Idle]
    /\ started = 0
    /\ aborts = 0

\* The sections of the code between a Lock and its release.
InRoot(p) ==
    \/ /\ job[p].kind = "remote"
       /\ job[p].pc \in {"inspect", "discard", "checkout", "worktree",
                         "adding", "sync", "syncing", "mark"}
    \/ /\ job[p].kind = "local"
       /\ job[p].pc \in {"clone", "refresh", "cloning", "resolve", "checkout",
                         "worktree", "adding", "sync", "syncing", "inputs",
                         "exec"}

InClone(p) == job[p].pc \in {"refresh", "cloning", "worktree", "adding"}

-----------------------------------------------------------------------------
(* Locks, and how a command starts and ends. *)

\* flock blocks while another process holds the file.
Acquire(p, k) ==
    /\ lock[k] = Nobody
    /\ lock' = [lock EXCEPT ![k] = p]

\* A process frees only what it holds.
Release(p, k) == lock' = [lock EXCEPT ![k] = IF @ = p THEN Nobody ELSE @]

Goto(p, pc) == job' = [job EXCEPT ![p].pc = pc]
GotoPart(p, c, pc) == job' = [job EXCEPT ![p].part = c, ![p].pc = pc]

Start(p, j) ==
    /\ job[p].pc = "idle"
    /\ started < MaxJobs
    /\ started' = started + 1
    /\ job' = [job EXCEPT ![p] = j]
    /\ UNCHANGED <<upstream, head, clone, registered, roots, lock, aborts>>

\* pinned: target and --factory both name a full sha.
RunRemote(p) ==
    \E r \in Remote, force \in Forces, pinned \in BOOLEAN :
        Start(p, [Idle EXCEPT !.kind = "remote", !.root = r, !.force = force,
                    !.pinned = pinned,
                    !.pc = IF pinned /\ ~force THEN "tuple" ELSE "clone"])

RunLocal(p) ==
    \E r \in Local :
        Start(p, [Idle EXCEPT !.kind = "local", !.root = r,
                    !.part = "register", !.pc = "root"])

\* Every lock p holds is released, by its deferred calls or by the kernel.
Leave(p) ==
    /\ job' = [job EXCEPT ![p] = Idle]
    /\ lock' = [k \in Key |-> IF lock[k] = p THEN Nobody ELSE lock[k]]

End(p) ==
    /\ job[p].pc = "exec"
    /\ Leave(p)
    /\ UNCHANGED <<upstream, head, clone, registered, roots, started, aborts>>

\* p is killed, or a call outside the model fails (network, git, an engine, a
\* missing input): what it left half done stays.
Abort(p) ==
    /\ job[p].pc # "idle"
    /\ aborts < MaxAborts
    /\ aborts' = aborts + 1
    /\ Leave(p)
    /\ UNCHANGED <<upstream, head, clone, registered, roots, started>>

\* The register publishes a revision.
Publish ==
    /\ upstream < MaxRev
    /\ upstream' = upstream + 1
    /\ UNCHANGED <<head, clone, registered, roots, lock, job, started, aborts>>

-----------------------------------------------------------------------------
(* cloneOrFetch, for the member and then the register. *)

\* A tuple file whose member directory stands: straight to the inputs, with
\* no lock and no look at the marker.
EnterTuple(p) ==
    /\ job[p].pc = "tuple"
    /\ IF job[p].root \in tuple /\ dir[job[p].root]["member"] # "absent"
       THEN Goto(p, "exec")
       ELSE Goto(p, "clone")
    /\ UNCHANGED <<clones, roots, lock, counts>>

LockClone(p) ==
    /\ job[p].pc = "clone"
    /\ Acquire(p, job[p].part)
    /\ Goto(p, "refresh")
    /\ UNCHANGED <<clones, roots, counts>>

\* Faulty: the lock of the clone is kept until the run ends.
RefreshedHolding(p) ==
    /\ UNCHANGED lock
    /\ IF job[p].part = "member"
       THEN GotoPart(p, "register", "clone")
       ELSE Goto(p, "resolve")
    /\ head' = IF job[p].part = "register" THEN upstream ELSE head

\* Faulty: the revision is counted on before it is fetched.
RefreshedAhead(p) ==
    /\ Release(p, job[p].part)
    /\ IF job[p].part = "member"
       THEN GotoPart(p, "register", "clone")
       ELSE Goto(p, "resolve")
    /\ head' = IF job[p].part = "register" THEN head + 1 ELSE head

\* What follows the refresh of one clone.
Refreshed(p) ==
    /\ Release(p, job[p].part)
    /\ IF job[p].part = "member"
       THEN GotoPart(p, "register", "clone")
       ELSE Goto(p, "resolve")
    /\ head' = IF job[p].part = "register" THEN upstream ELSE head

Fetch(p) ==
    /\ job[p].pc = "refresh"
    /\ clone[job[p].part] = "whole"
    /\ Refreshed(p)
    /\ UNCHANGED <<clone, registered, roots, counts>>

\* A clone cut short is a directory git cannot fetch or resolve in.
FetchFails(p) ==
    /\ job[p].pc = "refresh"
    /\ clone[job[p].part] = "partial"
    /\ Leave(p)
    /\ UNCHANGED <<clones, roots, counts>>

BeginClone(p) ==
    /\ job[p].pc = "refresh"
    /\ clone[job[p].part] = "absent"
    /\ clone' = [clone EXCEPT ![job[p].part] = "partial"]
    /\ Goto(p, "cloning")
    /\ UNCHANGED <<head, registered, roots, lock, counts>>

EndClone(p) ==
    /\ job[p].pc = "cloning"
    /\ clone' = [clone EXCEPT ![job[p].part] = "whole"]
    /\ Refreshed(p)
    /\ UNCHANGED <<registered, roots, counts>>

\* The register's revision is read without a lock, so another process may
\* have fetched since.
Resolve(p) ==
    /\ job[p].pc = "resolve"
    /\ clone["register"] = "whole"
    /\ job' = IF job[p].kind = "remote"
              THEN [job EXCEPT ![p].reg = head, ![p].part = "member",
                               ![p].pc = "root"]
              ELSE [job EXCEPT ![p].reg = head, ![p].pc = "checkout"]
    /\ UNCHANGED <<clones, roots, lock, counts>>

-----------------------------------------------------------------------------
(* The run root, under its lock. *)

\* Faulty: the root is entered without its lock.
LockRootFree(p) ==
    /\ job[p].pc = "root"
    /\ Goto(p, IF job[p].kind = "remote" THEN "inspect" ELSE "clone")
    /\ UNCHANGED <<clones, roots, lock, counts>>

LockRoot(p) ==
    /\ job[p].pc = "root"
    /\ Acquire(p, job[p].root)
    /\ Goto(p, IF job[p].kind = "remote" THEN "inspect" ELSE "clone")
    /\ UNCHANGED <<clones, roots, counts>>

\* Faulty: a marked root is synced again by every run.
InspectAnew(p) ==
    LET r == job[p].root
        warm == dir[r]["member"] # "absent"
    IN  /\ job[p].pc = "inspect"
        /\ \/ /\ warm /\ r \notin marker
              /\ Goto(p, "discard")
           \/ /\ ~warm \/ r \in marker
              /\ Goto(p, "checkout")
        /\ UNCHANGED <<clones, roots, lock, counts>>

\* warm: the member's directory stands, whatever it holds.
Inspect(p) ==
    LET r == job[p].root
        warm == dir[r]["member"] # "absent"
    IN  /\ job[p].pc = "inspect"
        /\ \/ /\ warm /\ r \notin marker
              /\ Goto(p, "discard")
              /\ UNCHANGED lock
           \/ /\ warm /\ r \in marker /\ ~job[p].force
              /\ Goto(p, "inputs")
              /\ Release(p, r)
           \/ /\ ~warm \/ (r \in marker /\ job[p].force)
              /\ Goto(p, "checkout")
              /\ UNCHANGED lock
        /\ UNCHANGED <<clones, roots, counts>>

\* Removing a tree takes it from whole to partial to absent.
Wear(s) == IF s = "whole" THEN "partial" ELSE "absent"

\* os.RemoveAll visits the root's entries in no order that can be told.
Discard(p) ==
    LET r == job[p].root
    IN  /\ job[p].pc = "discard"
        /\ \/ /\ \E c \in Part :
                    /\ dir[r][c] # "absent"
                    /\ dir' = [dir EXCEPT ![r][c] = Wear(@)]
              /\ UNCHANGED <<synced, job>>
           \/ /\ synced[r] # "none"
              /\ synced' = [synced EXCEPT ![r] = "none"]
              /\ UNCHANGED <<dir, job>>
           \/ /\ \A c \in Part : dir[r][c] = "absent"
              /\ synced[r] = "none"
              /\ Goto(p, "checkout")
              /\ UNCHANGED <<dir, synced>>
        /\ UNCHANGED <<clones, at, marker, tuple, lock, counts>>

\* The member's worktree is followed by the register's, then by the sync.
Placed(p) ==
    IF job[p].part = "member"
    THEN GotoPart(p, "register", "checkout")
    ELSE Goto(p, "sync")

\* A directory that stands is taken as it is.
Keep(p) ==
    /\ job[p].pc = "checkout"
    /\ dir[job[p].root][job[p].part] # "absent"
    /\ Placed(p)
    /\ UNCHANGED <<clones, roots, lock, counts>>

\* Faulty: a worktree is added without the lock of its clone.
LockWorktreeFree(p) ==
    /\ job[p].pc = "checkout"
    /\ dir[job[p].root][job[p].part] = "absent"
    /\ Goto(p, "worktree")
    /\ UNCHANGED <<clones, roots, lock, counts>>

LockWorktree(p) ==
    /\ job[p].pc = "checkout"
    /\ dir[job[p].root][job[p].part] = "absent"
    /\ Acquire(p, job[p].part)
    /\ Goto(p, "worktree")
    /\ UNCHANGED <<clones, roots, counts>>

\* Faulty: the refusal of a dangling registration is final.
PruneNothing(p) ==
    /\ job[p].pc = "worktree"
    /\ job[p].root \in registered[job[p].part]
    /\ Leave(p)
    /\ UNCHANGED <<clones, roots, counts>>

\* git refuses a path it holds a worktree for; the registrations whose
\* directory is gone, or lost the file that points back, are dropped.
Prune(p) ==
    LET c == job[p].part
    IN  /\ job[p].pc = "worktree"
        /\ job[p].root \in registered[c]
        /\ \E torn \in SUBSET {r \in registered[c] : dir[r][c] = "partial"} :
              registered' = [registered EXCEPT ![c] =
                  {r \in @ : dir[r][c] # "absent"} \ torn]
        /\ UNCHANGED <<head, clone, roots, lock, job, counts>>

BeginAdd(p) ==
    LET r == job[p].root
        c == job[p].part
    IN  /\ job[p].pc = "worktree"
        /\ clone[c] = "whole"
        /\ r \notin registered[c]
        /\ registered' = [registered EXCEPT ![c] = @ \cup {r}]
        /\ dir' = [dir EXCEPT ![r][c] = "partial"]
        /\ at' = IF c = "register" THEN [at EXCEPT ![r] = job[p].reg] ELSE at
        /\ Goto(p, "adding")
        /\ UNCHANGED <<head, clone, synced, marker, tuple, lock, counts>>

EndAdd(p) ==
    /\ job[p].pc = "adding"
    /\ dir' = [dir EXCEPT ![job[p].root][job[p].part] = "whole"]
    /\ Release(p, job[p].part)
    /\ Placed(p)
    /\ UNCHANGED <<clones, at, synced, marker, tuple, counts>>

\* Faulty: the root is marked before it is synced.
BeginSyncMarking(p) ==
    /\ job[p].pc = "sync"
    /\ synced' = [synced EXCEPT ![job[p].root] = "partial"]
    /\ marker' = IF job[p].kind = "remote"
                 THEN marker \cup {job[p].root} ELSE marker
    /\ Goto(p, "syncing")
    /\ UNCHANGED <<clones, dir, at, tuple, lock, counts>>

\* Sync and Lock of the workspace at the root, against the register's
\* worktree.
BeginSync(p) ==
    /\ job[p].pc = "sync"
    /\ synced' = [synced EXCEPT ![job[p].root] = "partial"]
    /\ Goto(p, "syncing")
    /\ UNCHANGED <<clones, dir, at, marker, tuple, lock, counts>>

EndSync(p) ==
    /\ job[p].pc = "syncing"
    /\ synced' = [synced EXCEPT ![job[p].root] = "done"]
    /\ Goto(p, IF job[p].kind = "remote" THEN "mark" ELSE "inputs")
    /\ UNCHANGED <<clones, dir, at, marker, tuple, lock, counts>>

Mark(p) ==
    /\ job[p].pc = "mark"
    /\ marker' = marker \cup {job[p].root}
    /\ Release(p, job[p].root)
    /\ Goto(p, "inputs")
    /\ UNCHANGED <<clones, dir, at, synced, tuple, counts>>

\* warmTupleKey: a remote run whose target and factory are both at full shas
\* has a name that the next run of the same finds without resolving anything.
Keyed(p) == job[p].pinned

\* writeWarmTuple.
Tupled(p) == IF Keyed(p) THEN tuple \cup {job[p].root} ELSE tuple

CheckInputs(p) ==
    /\ job[p].pc = "inputs"
    /\ tuple' = Tupled(p)
    /\ Goto(p, "exec")
    /\ UNCHANGED <<clones, dir, at, synced, marker, lock, counts>>

-----------------------------------------------------------------------------
(* Specifications. *)

\* One step of a run by itself.
Step(p) ==
    \/ EnterTuple(p) \/ LockClone(p) \/ Fetch(p) \/ FetchFails(p)
    \/ BeginClone(p) \/ EndClone(p) \/ Resolve(p)
    \/ LockRoot(p) \/ Inspect(p) \/ Discard(p)
    \/ Keep(p) \/ LockWorktree(p) \/ Prune(p) \/ BeginAdd(p) \/ EndAdd(p)
    \/ BeginSync(p) \/ EndSync(p) \/ Mark(p) \/ CheckInputs(p) \/ End(p)

Next ==
    \/ \E p \in Proc : RunRemote(p) \/ RunLocal(p) \/ Step(p) \/ Abort(p)
    \/ Publish

Spec == Init /\ [][Next]_vars

\* A process that can go on is scheduled; the command it runs ends.
FairSpec == Spec /\ \A p \in Proc : WF_vars(Step(p))

-----------------------------------------------------------------------------
(* Properties. *)

\* Two processes never work in one run root, nor in one clone, at a time:
\* what every Lock of the run controller is for.
OneAtATime ==
    \A p, q \in Proc : p # q =>
        /\ InRoot(p) /\ InRoot(q) => job[p].root # job[q].root
        /\ InClone(p) /\ InClone(q) => job[p].part # job[q].part

\* A root that a later run may enter warm, by its marker or by a tuple file,
\* holds a whole worktree of the member, whatever was killed before.
WarmRootsWhole ==
    \A r \in marker \cup tuple : dir[r]["member"] = "whole"

\* A remote run executes in a whole worktree of the member, though it holds
\* no lock by then and another process may be rebuilding the same root.
ExecWhole ==
    \A p \in Proc :
        job[p].kind = "remote" /\ job[p].pc \in {"inputs", "exec"} =>
            dir[job[p].root]["member"] = "whole"

\* git still knows every whole worktree: no prune, run while another process
\* adds or discards one, forgets it.
WholeIsRegistered ==
    \A r \in Root, c \in Part :
        dir[r][c] = "whole" => r \in registered[c]

\* A marked root nobody works in is wholly synced: "a materialisation that
\* died halfway leaves a run root without its marker".
MarkedSynced ==
    \A r \in marker :
        (\A p \in Proc : InRoot(p) => job[p].root # r) => synced[r] = "done"

\* The roots of remote runs as their users see them.
ExecutesIn(p) ==
    IF job[p].kind = "remote" /\ job[p].pc = "exec" THEN job[p].root ELSE NoRoot

\* A forced run syncs its root again, marked or not.
Redoes(p) == InRoot(p) /\ job[p].force

Warm == INSTANCE WarmRoots WITH
    Root <- Remote, Empty <- "absent", Whole <- "whole",
    tree <- [r \in Remote |-> dir[r]["member"]],
    made <- [r \in Remote |-> synced[r]],
    warm <- marker,
    maker <- [r \in Remote |-> lock[r]],
    redo <- {r \in Remote : \E p \in Proc : Redoes(p) /\ job[p].root = r},
    user <- [p \in Proc |-> ExecutesIn(p)]

\* The cache implements WarmRoots: whatever is forced, killed, pruned or found
\* by a tuple file, only the holder of a root's lock changes it; once a root is
\* marked the member's worktree in it stays as it is, and what the sync made in
\* it changes under a forced run only; a root is marked when all of it is there;
\* and a remote run executes in marked roots only.
KeepsWarmRoots == Warm!Spec

\* Every command ends: no two wait for each other's locks, in the order root
\* then clone in which they take them.
JobsEnd == \A p \in Proc : job[p].pc # "idle" ~> job[p].pc = "idle"

\* Whatever was killed before, a remote run that starts from clones git can
\* read reaches its exec: incomplete roots are discarded, registrations of
\* lost worktrees pruned.
RunsReachExec ==
    \A p \in Proc :
        ( /\ job[p].kind = "remote" /\ job[p].pc = "clone"
          /\ aborts = MaxAborts
          /\ \A c \in Part : clone[c] # "partial" )
        ~> job[p].pc = "exec"

=============================================================================
