----------------------------- MODULE Workspace -----------------------------
(***************************************************************************)
(* The verbs that move a workspace: clone, sync, add, bump and checkout,   *)
(* and what status then says of it (clidriver, clonecontroller,            *)
(* revisioncontroller, statuscontroller, gitadapter), over the members'    *)
(* directories, what a sync leaves in them and what git says of them.      *)
(*                                                                         *)
(* One verb runs at a time, a person edits, commits, pulls and removes,    *)
(* and saves another factory file, between any two of its steps, and it    *)
(* may be cut short at any of them.                                        *)
(* A sync is what concerns the members' directories: RenderRecord has its  *)
(* record, DeclaredVersions its merged files, Resolve its versions.        *)
(***************************************************************************)
EXTENDS FactoryFile

CONSTANTS
    Member,      \* repositories the factory may name
    Language,    \* the language of each
    Manifest,    \* what the identity of each says of its manifest
    Ignores,     \* the commits, per member, whose .gitignore has the entries
    MaxCommit,   \* bound: commits of a member's main, and versions of the dependency
    Revision,    \* the revisions the state engine holds
    Proven,      \* the commit a revision names for a member, or 0
    Closures,    \* the places a revision holds a lockfile for
    Files,       \* what a person may make the factory file
    Foreign,     \* a lockfile that no revision was proven with
    MaxEdits,    \* bound: a person's changes
    MaxVerbs,    \* bound: verbs
    MaxKills     \* bound: verbs cut short

Root == "root"
Commit == 1..MaxCommit
Languages == {Language[m] : m \in Member}
Place == Member \cup {Root}

\* The version a manifest requires of the one dependency is 0 when it requires none.
NoManifest == -1

\* Parse gives each line its place: an item names a member, a dependency has a version.
Readable(f) ==
    /\ KeyedOnce(f)
    /\ f \in Seq(Range(f))
    /\ \A i \in DOMAIN f : /\ f[i] = Line(f[i].at, f[i].name, f[i].value)
                           /\ f[i].at = "item" => f[i].name \in Member
                           /\ f[i].at = "dep" => f[i].value \in (-MaxCommit)..MaxCommit

\* The commits a revision was proven with are on main: nobody rebases it.
ASSUME WorkspaceAssumption ==
    /\ Root \notin Member
    /\ Manifest \in [Member -> {"own", "committed", "generated"}]
    /\ Ignores \in [Member -> SUBSET Commit]
    /\ Proven \in [Revision -> [Member -> 0..MaxCommit]]
    /\ Closures \in [Revision -> SUBSET Place]
    /\ \A f \in Files : Valid(f) /\ Readable(f)

ASSUME WorkspaceBounds ==
    MaxCommit \in Nat \ {0} /\ MaxEdits \in Nat /\ MaxVerbs \in Nat /\ MaxKills \in Nat

VARIABLES
    file,   \* the lines of forge-factory.yaml
    loaded, \* those that the verb works with
    repo,   \* repo[m]: the directory of the member m
    main,   \* main[m]: the last commit of its main, where it is cloned from
    lock,   \* lock[l]: the lockfile at the place l
    roots,  \* roots[g]: what the workspace file of the language g lists
    job,    \* the verb that runs
    done,   \* ghost: the last verb that succeeded, when no person changed a member
            \* while it ran, until one does
    counts  \* bounds: changes, verbs and kills so far

vars == <<file, loaded, repo, main, lock, roots, job, done, counts>>

-----------------------------------------------------------------------------
(* A member's directory: none, one that is no repository, a clone cut       *)
(* short, or a repository at a commit of main or at one of the person's own.*)
(* kept is what the commit holds: whether its .gitignore has the entries,   *)
(* and the version of a manifest that it tracks.                            *)

\* Of the rendered manifests only a Go member's may be committed.
Tracked(m) == Manifest[m] = "own" \/ (Language[m] = "go" /\ Manifest[m] = "committed")

Content == [ignored : BOOLEAN, manifest : NoManifest..MaxCommit]

Directory == [is : {"none", "plain", "broken", "repo"}, head : 0..MaxCommit, own : BOOLEAN,
              kept : Content, now : Content, envrc : BOOLEAN, edited : BOOLEAN]

Empty == [ignored |-> FALSE, manifest |-> NoManifest]

NoDirectory == [is |-> "none", head |-> 0, own |-> FALSE, kept |-> Empty, now |-> Empty,
                envrc |-> FALSE, edited |-> FALSE]

\* The first commit of main requires version 1, the next version 2.
CommitOf(m, c) ==
    [ignored |-> c \in Ignores[m], manifest |-> IF Tracked(m) THEN c ELSE NoManifest]

At(m, c) == [NoDirectory EXCEPT !.is = "repo", !.head = c,
                                !.kept = CommitOf(m, c), !.now = CommitOf(m, c)]

\* A commit checked out over a clean tree: what git does not track stays.
Onto(m, c) ==
    [At(m, c) EXCEPT !.envrc = repo[m].envrc, !.edited = repo[m].edited,
                     !.now.manifest = IF Tracked(m) THEN @ ELSE repo[m].now.manifest]

\* git status --porcelain: what is edited, tracked and not as committed, or new.
Dirty(m) ==
    \/ repo[m].edited
    \/ repo[m].now.ignored # repo[m].kept.ignored
    \/ Tracked(m) /\ repo[m].now.manifest # repo[m].kept.manifest
    \/ ~repo[m].now.ignored /\ (repo[m].envrc \/ (~Tracked(m) /\ repo[m].now.manifest # NoManifest))

\* git rev-parse --git-dir, in a workspace that lies in no repository.
IsRepo(m) == repo[m].is \in {"repo", "broken"}

\* Writing into a directory that is not there creates it.
Made(d) == IF d.is = "none" THEN [d EXCEPT !.is = "plain"] ELSE d

-----------------------------------------------------------------------------
(* What a language renders (rendercontroller). *)

\* manifest: one in every member that does not own its manifest; merged: into what
\* is there; identity: the manifest needs a name from the member's forge.yaml; root: a
\* list of the members at the workspace's root; lock: where the lock command of a
\* manifest runs.
GoRenders ==
    [manifest |-> TRUE, merged |-> TRUE, identity |-> TRUE, root |-> TRUE, lock |-> "member"]
PythonRenders ==
    [manifest |-> TRUE, merged |-> FALSE, identity |-> TRUE, root |-> FALSE, lock |-> "member"]
RustRenders ==
    [manifest |-> FALSE, merged |-> FALSE, identity |-> FALSE, root |-> TRUE, lock |-> "root"]
TypeScriptRenders ==
    [manifest |-> TRUE, merged |-> FALSE, identity |-> FALSE, root |-> TRUE, lock |-> "root"]

EngineFor ==
    [go |-> GoRenders, python |-> PythonRenders, rust |-> RustRenders, typescript |-> TypeScriptRenders]

LockPlace(m) == IF EngineFor[Language[m]].lock = "member" THEN m ELSE Root

Speaking(members, g) == {m \in members : Language[m] = g}

\* The members whose manifest the language renders.
Rendered(members, g) ==
    {m \in Speaking(members, g) : EngineFor[g].manifest /\ Manifest[m] # "own"}

Identified(members, g) ==
    EngineFor[g].identity => \A m \in Rendered(members, g) : repo[m].is = "repo"

-----------------------------------------------------------------------------
(* A verb. *)

Declared(f) ==
    [g \in Languages |->
        LET D == {d \in DepsIn(f, "dependencies") : d.language = g}
        IN  IF D = {} THEN 0 ELSE Version((CHOOSE d \in D : TRUE).value)]

Verbs == {"clone", "sync", "add", "bump", "checkout"}

\* members, declared: of what is synced; asked: the members that the verb is about;
\* changed: where this sync has to run a lock command; pruned: --prune-pins has been
\* served.  Ghosts: alone, no person changed a member; ran, where a lock command ran;
\* held, the members whose manifest had the dependency and has kept it.
Idle == [pc |-> "idle", verb |-> "sync", members |-> {}, declared |-> Declared(<<>>),
         asked |-> {}, rev |-> CHOOSE r \in Revision : TRUE, todo |-> {}, looked |-> 0,
         changed |-> {}, pruned |-> FALSE, alone |-> TRUE, ran |-> {}, held |-> {}]

Nobody == [verb |-> "none"]

Job == [pc : {"idle", "clone", "get", "look", "move", "restore",
              "envrc", "render", "ignore", "lock", "prune"},
        verb : Verbs, members : SUBSET Member, declared : [Languages -> 0..MaxCommit],
        asked : SUBSET Member, rev : Revision, todo : SUBSET (Place \cup Languages),
        looked : 0..MaxEdits, changed : SUBSET Place, pruned : BOOLEAN,
        alone : BOOLEAN, ran : SUBSET Place, held : SUBSET Member]

Done == [verb : Verbs, members : SUBSET Member, declared : [Languages -> 0..MaxCommit],
         asked : SUBSET Member, rev : Revision, ran : SUBSET Place, held : SUBSET Member]

\* The type of every variable, and the bounds of the counters.
TypeOK ==
    /\ Valid(file)
    /\ repo \in [Member -> Directory]
    /\ main \in [Member -> Commit]
    /\ lock \in [Place -> Revision \cup {"none", "tidied"}]
    /\ roots \in [Languages -> SUBSET Member]
    /\ job \in Job
    /\ done \in Done \cup {Nobody}
    /\ counts \in [edits : 0..MaxEdits, verbs : 0..MaxVerbs, kills : 0..MaxKills]

Init ==
    /\ file \in Files /\ loaded = file
    /\ main \in {[m \in Member |-> c] : c \in Commit}
    /\ \E cloned \in SUBSET Member :
           repo = [m \in Member |-> IF m \in cloned THEN At(m, main[m]) ELSE NoDirectory]
    /\ lock = [l \in Place |-> "none"]
    /\ roots = [g \in Languages |-> {}]
    /\ job = Idle
    /\ done = Nobody
    /\ counts = [edits |-> 0, verbs |-> 0, kills |-> 0]

-----------------------------------------------------------------------------
(* The person. *)

Change(d, m) ==
    /\ counts.edits < MaxEdits
    /\ repo' = [repo EXCEPT ![m] = d]
    /\ counts' = [counts EXCEPT !.edits = @ + 1]
    /\ job' = IF job.pc = "idle" THEN job ELSE [job EXCEPT !.alone = FALSE]
    /\ done' = Nobody

EditMember ==
    \E m \in Member :
        /\ repo[m].is = "repo"
        /\ ~repo[m].edited
        /\ Change([repo[m] EXCEPT !.edited = TRUE], m)
        /\ UNCHANGED <<file, loaded, main, lock, roots>>

\* What is tracked, and .gitignore; a new file stays new.
CommitMember ==
    \E m \in Member :
        /\ repo[m].is = "repo"
        /\ repo[m].edited \/ repo[m].now # repo[m].kept
        /\ Change([repo[m] EXCEPT !.own = TRUE, !.edited = FALSE, !.kept = repo[m].now], m)
        /\ UNCHANGED <<file, loaded, main, lock, roots>>

\* git fetch and git checkout of main, by somebody without work of their own.
Pull ==
    \E m \in Member :
        /\ repo[m].is = "repo"
        /\ ~Dirty(m) /\ ~repo[m].own
        /\ repo[m].head # main[m]
        /\ Change(Onto(m, main[m]), m)
        /\ UNCHANGED <<file, loaded, main, lock, roots>>

\* Somebody pushes to a member's main.
Push ==
    \E m \in Member :
        /\ main[m] < MaxCommit /\ counts.edits < MaxEdits
        /\ main' = [main EXCEPT ![m] = @ + 1]
        /\ counts' = [counts EXCEPT !.edits = @ + 1]
        /\ UNCHANGED <<file, loaded, repo, lock, roots, job, done>>

Discard ==
    \E m \in Member :
        /\ repo[m].is \in {"plain", "broken"}
        /\ Change(NoDirectory, m)
        /\ UNCHANGED <<file, loaded, main, lock, roots>>

EditFile ==
    \E f \in Files :
        /\ f # file /\ counts.edits < MaxEdits
        /\ file' = f
        /\ counts' = [counts EXCEPT !.edits = @ + 1]
        /\ UNCHANGED <<loaded, repo, main, lock, roots, job, done>>

-----------------------------------------------------------------------------
(* clidriver: load, then the verb. *)

MayStart == job.pc = "idle" /\ counts.verbs < MaxVerbs

Start(verb, f) ==
    /\ MayStart
    /\ counts' = [counts EXCEPT !.verbs = @ + 1]
    /\ done' = Nobody
    /\ loaded' = f
    /\ job' = [Idle EXCEPT !.verb = verb, !.members = MembersOf(f), !.declared = Declared(f),
                           !.asked = MembersOf(f), !.todo = MembersOf(f),
                           !.pc = CASE verb = "clone" -> "clone" [] verb = "checkout" -> "get"
                                    [] OTHER -> "envrc"]
    /\ UNCHANGED <<repo, main, lock, roots>>

Clone == Start("clone", file) /\ UNCHANGED file
Sync == Start("sync", file) /\ UNCHANGED file
Checkout == Start("checkout", file) /\ UNCHANGED file

\* add and bump rewrite the file and sync what they wrote.
Add ==
    \E m \in Member :
        /\ MayStart /\ CanAdd(file, m)
        /\ file' = Added(file, m)
        /\ Start("add", file')

Bump ==
    \E g \in Languages \cup {""}, v \in Commit :
        /\ MayStart /\ CanBump(file, g, "lib")
        /\ file' = Bumped(file, g, "lib", v)
        /\ Start("bump", file')

\* Faulty: behind counts as diverged.
AgreesFresh(fetched) ==
    /\ \A m \in MembersOf(file) : IsRepo(m) /\ ~(m \in fetched /\ repo[m].head < main[m])
    /\ \A m \in Member \ MembersOf(file) : ~IsRepo(m)

\* statuscontroller: every member is a repository, none diverged from a main that
\* could be fetched, and no other repository lies beside them.
Agrees(fetched) ==
    /\ \A m \in MembersOf(file) :
           IsRepo(m) /\ ~(m \in fetched /\ repo[m].own /\ repo[m].head < main[m])
    /\ \A m \in Member \ MembersOf(file) : ~IsRepo(m)

Stop == job' = Idle /\ done' = Nobody

Fail == Stop /\ UNCHANGED <<file, loaded, repo, main, lock, roots, counts>>

Quiet == UNCHANGED <<file, loaded, main, done, counts>>

\* The verbs go through the members in the order of the file.
First == CHOOSE m \in job.todo : \E i \in ItemsOf(loaded) :
             loaded[i].name = m /\ \A j \in ItemsOf(loaded) : loaded[j].name \in job.todo => i <= j

\* The next phase, over its own list.
Goes(pc, todo) == job' = [job EXCEPT !.pc = pc, !.todo = todo]

-----------------------------------------------------------------------------
(* clonecontroller. *)

CloneFails == Fail

\* What is there is left alone; git removes what it could not finish.
CloneMember ==
    /\ job.pc = "clone" /\ job.todo # {}
    /\ IF repo[First].is # "none"
       THEN /\ job' = [job EXCEPT !.todo = @ \ {First}]
            /\ UNCHANGED <<repo, lock, roots>> /\ Quiet
       ELSE \/ /\ repo' = [repo EXCEPT ![First] = At(First, main[First])]
               /\ job' = [job EXCEPT !.todo = @ \ {First}]
               /\ UNCHANGED <<lock, roots>> /\ Quiet
            \/ CloneFails

Cloned ==
    /\ job.pc = "clone" /\ job.todo = {}
    /\ Goes("envrc", job.members)
    /\ UNCHANGED <<repo, lock, roots>> /\ Quiet

-----------------------------------------------------------------------------
(* revisioncontroller. *)

\* Get: the engine has the revision, or the verb fails.
Get ==
    /\ job.pc = "get"
    /\ \/ \E r \in Revision :
           /\ LET named == {m \in job.members : Proven[r][m] # 0}
              IN  job' = [job EXCEPT !.pc = "look", !.rev = r, !.asked = named, !.todo = named]
           /\ UNCHANGED <<repo, lock, roots>> /\ Quiet
       \/ Fail

\* Faulty: git's own refusal is relied on.
LooksCleanAlways(m) == TRUE

LooksClean(m) == repo[m].is = "repo" /\ ~Dirty(m)

Look ==
    /\ job.pc = "look" /\ job.todo # {}
    /\ IF IsRepo(First) /\ LooksClean(First)
       THEN /\ job' = [job EXCEPT !.pc = "move", !.looked = counts.edits]
            /\ UNCHANGED <<repo, lock, roots>> /\ Quiet
       ELSE Fail

\* git checkout --detach: it knows the commits of its last fetch, and carries an
\* edit the person made since the look over, or refuses to.
Move ==
    /\ job.pc = "move"
    /\ \/ /\ repo[First].is = "repo" /\ Proven[job.rev][First] <= main[First]
          /\ repo[First].now.ignored = repo[First].kept.ignored
          /\ Tracked(First) => repo[First].now.manifest = repo[First].kept.manifest
          /\ repo' = [repo EXCEPT ![First] = Onto(First, Proven[job.rev][First])]
          /\ job' = [job EXCEPT !.pc = "look", !.todo = @ \ {First}]
          /\ UNCHANGED <<lock, roots>> /\ Quiet
       \/ Fail

\* The lockfiles the revision was proven with, as the engine lists them.
List ==
    /\ job.pc = "look" /\ job.todo = {}
    /\ \/ Goes("restore", Closures[job.rev]) /\ UNCHANGED <<repo, lock, roots>> /\ Quiet
       \/ Fail

\* Faulty: the digest is not compared.
HashesToAnything(content) == TRUE

HashesTo(content) == content = job.rev

\* The record may be gone, or not hash to its digest, and then the verb fails.
Restore ==
    /\ job.pc = "restore"
    /\ \E l \in job.todo :
           \/ \E content \in {job.rev, Foreign} :
                  /\ HashesTo(content)
                  /\ lock' = [lock EXCEPT ![l] = content]
                  /\ repo' = IF l \in Member THEN [repo EXCEPT ![l] = Made(@)] ELSE repo
                  /\ job' = [job EXCEPT !.todo = @ \ {l}]
                  /\ UNCHANGED roots /\ Quiet
           \/ Fail

Restored ==
    /\ job.pc = "restore" /\ job.todo = {}
    /\ Goes("envrc", job.members)
    /\ UNCHANGED <<repo, lock, roots>> /\ Quiet

-----------------------------------------------------------------------------
(* synccontroller's Sync, where it touches a member's directory. *)

\* ensureEnvrcs: a block in the .envrc of every member, there or not.
Envrc ==
    /\ job.pc = "envrc"
    /\ IF job.todo = {} THEN Goes("render", {Language[m] : m \in job.members}) /\ UNCHANGED repo
       ELSE /\ repo' = [repo EXCEPT ![First] = [Made(@) EXCEPT !.envrc = TRUE]]
            /\ job' = [job EXCEPT !.todo = @ \ {First}]
    /\ UNCHANGED <<lock, roots>> /\ Quiet

\* What a manifest requires once it is rendered.  One that is merged is not given a
\* requirement, and keeps one that is not declared.
Required(m, version) ==
    LET old == repo[m].now.manifest
    IN  CASE ~EngineFor[Language[m]].merged -> version
          [] EngineFor[Language[m]].merged /\ old = NoManifest -> 0
          [] EngineFor[Language[m]].merged /\ old # NoManifest ->
                 IF 0 \in {old, version} THEN old ELSE version

\* Faulty: a member that is not cloned yet is passed over.
RequiringCloned(m, version) ==
    IF repo[m].is = "repo" THEN [repo[m] EXCEPT !.now.manifest = Required(m, version)] ELSE repo[m]

\* The member with its manifest rendered.
Requiring(m, version) == [Made(repo[m]) EXCEPT !.now.manifest = Required(m, version)]

Holding(members) == {m \in members : repo[m].now.manifest > 0}

\* A language at a time.  One whose members lack an identity fails the sync, and so
\* may any guard on what is rendered.
Render ==
    /\ job.pc = "render"
    /\ \E g \in job.todo :
           LET listed == Speaking(job.members, g)
               rendered == Rendered(job.members, g)
               moved == IF EngineFor[g].root /\ roots[g] # listed THEN listed
                        ELSE {m \in rendered :
                                 repo[m].now.manifest # Required(m, job.declared[g])}
           IN  \/ /\ Identified(job.members, g)
                  /\ repo' = [m \in Member |->
                         IF m \in rendered THEN Requiring(m, job.declared[g]) ELSE repo[m]]
                  /\ roots' = IF EngineFor[g].root THEN [roots EXCEPT ![g] = listed] ELSE roots
                  /\ job' = [job EXCEPT !.todo = @ \ {g},
                                        !.changed = @ \cup {LockPlace(m) : m \in moved},
                                        !.held = (@ \ rendered) \cup Holding(rendered)]
                  /\ UNCHANGED lock /\ Quiet
               \/ Fail

\* go mod tidy and go work sync, run or failing half way, raise what a manifest
\* requires, drop it, or add it; the other tools leave the manifest.
Tidied(m, places) ==
    LET old == repo[m].now.manifest
    IN  IF EngineFor[Language[m]].merged /\ m \in places /\ old # NoManifest
        THEN {0} \cup old..MaxCommit ELSE {old}

Tidy(places) ==
    /\ lock' = [l \in Place |-> IF l \in places THEN "tidied" ELSE lock[l]]
    /\ \E manifest \in [Member -> NoManifest..MaxCommit] :
           /\ \A m \in Member : manifest[m] \in Tidied(m, places)
           /\ repo' = [m \in Member |-> [repo[m] EXCEPT !.now.manifest = manifest[m]]]

\* The lock commands of what changed run, or are skipped where they cannot.
Settle ==
    /\ job.pc = "render" /\ job.todo = {}
    /\ \E places \in SUBSET job.changed :
           /\ Tidy(places)
           /\ job' = [job EXCEPT !.pc = "ignore", !.ran = @ \cup places,
                                 !.held = {m \in @ : repo'[m].now.manifest > 0}]
    /\ UNCHANGED roots /\ Quiet

Succeed(ran) ==
    /\ job' = Idle
    /\ done' = IF ~job.alone THEN Nobody ELSE
           [verb |-> job.verb, members |-> job.members, declared |-> job.declared,
            asked |-> job.asked, rev |-> job.rev, ran |-> ran, held |-> job.held]

\* A bump locks what it synced.
Synced ==
    IF job.verb = "bump" THEN Goes("lock", {}) /\ UNCHANGED done ELSE Succeed(job.ran)

Pins(f) == {d \in DepsIn(f, "dependencies") \cup DepsIn(f, "devDependencies") : d.value < 0}

\* ensureIgnored: .envrc of every member, and the manifest of a generated one.  A lock
\* command that had to run, an entry that is not registered, the tooling and a lock
\* that was skipped fail the verb only now.
Ignore ==
    /\ job.pc = "ignore"
    /\ repo' = [m \in Member |-> IF m \in job.members
                                 THEN [Made(repo[m]) EXCEPT !.now.ignored = TRUE] ELSE repo[m]]
    /\ \/ Synced
       \/ ~job.pruned /\ Pins(loaded) # {} /\ Goes("prune", {}) /\ UNCHANGED done
       \/ Stop
    /\ UNCHANGED <<file, loaded, main, lock, roots, counts>>

\* The factory file is rewritten, and synced again.
Resync(f) ==
    /\ file' = f
    /\ loaded' = f
    /\ job' = [job EXCEPT !.pc = "envrc", !.members = MembersOf(f), !.declared = Declared(f),
                          !.todo = MembersOf(f), !.changed = {}, !.pruned = TRUE]
    /\ UNCHANGED <<repo, main, lock, roots, done, counts>>

\* Faulty: what the sync loaded is edited and written back.
PruneLoaded ==
    /\ job.pc = "prune"
    /\ \E dead \in SUBSET Pins(loaded) : dead # {} /\ Resync(Pruned(loaded, dead))

\* --prune-pins: the file as it is by now loses the pins that the sync found dead in
\* what it had loaded, once.  Which are dead is the register's affair.
Prune ==
    /\ job.pc = "prune"
    /\ \/ \E dead \in SUBSET Pins(loaded) :
              dead # {} /\ CanPrune(file, dead) /\ Resync(Pruned(file, dead))
       \/ Fail

\* Every lock command of the members that the bump was begun with.
Lock ==
    /\ job.pc = "lock"
    /\ \E places \in SUBSET {LockPlace(m) : m \in job.asked} :
           /\ Tidy(places)
           /\ Succeed(job.ran \cup places) \/ Stop
    /\ UNCHANGED <<file, loaded, main, roots, counts>>

\* Cut short: a clone may leave a directory, with or without its .git.
Kill ==
    /\ job.pc # "idle" /\ counts.kills < MaxKills
    /\ counts' = [counts EXCEPT !.kills = @ + 1]
    /\ IF job.pc = "clone" /\ job.todo # {} /\ repo[First].is = "none"
       THEN \E is \in {"none", "plain", "broken"} : repo' = [repo EXCEPT ![First].is = is]
       ELSE UNCHANGED repo
    /\ job' = Idle
    /\ UNCHANGED <<file, loaded, main, lock, roots, done>>

Person == EditMember \/ CommitMember \/ Pull \/ Push \/ Discard \/ EditFile

Begin == Clone \/ Sync \/ Checkout \/ Add \/ Bump

Step ==
    \/ CloneMember \/ Cloned \/ Get \/ Look \/ Move \/ List \/ Restore \/ Restored
    \/ Envrc \/ Render \/ Settle \/ Ignore \/ Lock
    \/ Prune

Next == Person \/ Begin \/ Step \/ Kill

Spec == Init /\ [][Next]_vars

-----------------------------------------------------------------------------
(* Properties. *)

\* A checkout that succeeded left every member its revision names on the proven
\* commit, and every lockfile of the revision as proven, unless the sync that
\* follows ran the command of its place.
CheckedOut ==
    done.verb = "checkout" =>
        /\ \A m \in done.asked : repo[m].head = Proven[done.rev][m] /\ ~repo[m].own
        /\ \A l \in Closures[done.rev] \ done.ran : lock[l] = done.rev

\* What a language may leave in a manifest: what is declared, or, where it merges into
\* what is there, no requirement, one that is not declared, or the declared version;
\* a tidy may have raised that, and is free in a manifest that did not require it.
Suits(manifest, g, version, tidied, held) ==
    IF ~EngineFor[g].merged THEN manifest = version
    ELSE /\ manifest # NoManifest
         /\ 0 \notin {manifest, version} /\ (held \/ ~tidied)
            => manifest = version \/ (tidied /\ manifest > version)

\* A verb that succeeded left each member what its factory declares, each
\* workspace file the members it lists, and nothing that git would call new.
SyncedAsDeclared ==
    done.verb \in Verbs => \A m \in done.members :
        /\ m \in Rendered(done.members, Language[m])
              => Suits(repo[m].now.manifest, Language[m], done.declared[Language[m]],
                       m \in done.ran, m \in done.held)
        /\ EngineFor[Language[m]].root => m \in roots[Language[m]]
        /\ repo[m].envrc => repo[m].now.ignored

\* After a checkout that moved every member of the file, status agrees, whatever it
\* could fetch, until a person changes something or a stray repository is there.
CheckoutAgrees ==
    /\ done.verb = "checkout" /\ job.pc = "idle"
    /\ MembersOf(file) \subseteq done.asked
    /\ \A m \in Member \ MembersOf(file) : repo[m].is = "none"
    => \A fetched \in SUBSET MembersOf(file) : Agrees(fetched)

\* Nobody but the person gives up an uncommitted edit, and a checkout moves a
\* member that has one only if the person made it after the checkout had looked.
WorkStays ==
    [][\A m \in Member : repo[m].edited =>
         /\ repo'[m].edited \/ counts'.edits > counts.edits
         /\ job.pc = "move" /\ repo'[m].head # repo[m].head => counts.edits > job.looked]_vars

\* What a prune makes of a dependency: its version without its pin, or, when the name
\* is in both sections, that of the entry in dependencies.
Unpins(f, section, d) ==
    LET Entry(s, value) == [d EXCEPT !.value = value] \in DepsIn(f, s)
    IN  /\ d.value >= 0
        /\ \/ Entry(section, -d.value)
           \/ /\ Entry("dependencies", d.value) \/ Entry("dependencies", -d.value)
              /\ \E e \in DepsIn(f, "devDependencies") : e.language = d.language /\ e.name = d.name

\* g is f with the pins of a prune gone, or with one dependency or one member changed.
EditedOne(f, g, pruned) ==
    LET Names(h, section) == {[d EXCEPT !.value = 0] : d \in DepsIn(h, section)}
        Changed(section) == DepsIn(g, section) \ DepsIn(f, section)
        added == MembersOf(g) \ MembersOf(f)
    IN  /\ MembersOf(f) \subseteq MembersOf(g)
        /\ \A section \in {"dependencies", "devDependencies"} :
               Names(g, section) = Names(f, section)
        /\ IF pruned
           THEN /\ added = {}
                /\ \A section \in {"dependencies", "devDependencies"} :
                       \A d \in Changed(section) : Unpins(f, section, d)
           ELSE /\ Changed("devDependencies") = {}
                /\ Cardinality(Changed("dependencies")) + Cardinality(added) = 1

\* An edit by a verb keeps what the factory file names by then, whatever the person
\* saved since the verb loaded it.  A prune takes pins away, a bump changes one
\* dependency, an add one member.
EditsOne ==
    [][file' # file => \/ counts'.edits > counts.edits
                      \/ EditedOne(file, file', job.pc = "prune")]_vars

\* clonecontroller.go says that a clone fetches every member that is not there yet.
CloneFetches ==
    done.verb = "clone" => \A m \in done.members : repo[m].is = "repo"
=============================================================================
