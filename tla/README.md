# forge-factory: verification project

forge-factory keeps one dependency declaration for a workspace of many
repositories.  It clones the members, resolves every dependency against a
register, asks per-language engines to render the native manifests, runs the
native lock commands, provisions tools and runtimes, and runs a member's
generators, from the workspace or from a remote revision it materialises in a
shared cache.  Nothing in it is a server: it is a command-line tool whose
processes meet only in files.  What is hard to get right is therefore what
happens to those files when a process fails or is killed half way, when two
processes overlap, and when a person edits between two runs.

## 1. The system

| component | source | state it keeps | operations | modelled in |
|---|---|---|---|---|
| render record | `synccontroller` | `.forge/factory-generated.json`, the rendered files, `*.bak`, `.forge/dependency-locks.json` | `Sync`, `Lock`, `Take`, and `Bootstrap` of the run controller | `RenderRecord` |
| declared versions | the same, `util/gomod` | the versions the record holds per merged `go.mod` | `guardDeclaredVersions`, `entryOf`, `settledNotes` | `DeclaredVersions` |
| run cache | `runcontroller` | `~/.cache/forge-factory`: clones, run roots, the marker, warm tuples, lock files | `Run` (local and remote), `cache clean` | `RunCache`, `RunTarget`, `WarmRoots` |
| file locks | `lockadapter` | `flock` on sibling files | `Lock` and its release | the lock variables of `RunCache`, `ToolStore`, `RuntimeStore` |
| tool store | `toolingcontroller` | content-addressed blobs, staging files, binaries, `.forge/bin` links | `Apply`, `ApplyBinaries`, `buildBinary` | `ToolStore` |
| runtime store | `runtimecontroller` | runtime prefixes, staged prefixes, exposed links, `.forge/env` | `Apply`, `materialize`, `expose` | `RuntimeStore` |
| runtime descriptions | `describecontroller` | none | one table per language and one of archives | `Runtimes` |
| fetch, install | `fetchcontroller`, `installcontroller` | a fetched file, one prefix | `Fetch`, `Install` | `Runtimes`, `RuntimeStore` |
| resolve | `resolvecontroller`, the driver's `runSync` | pins, tracks, request files in the register's checkout | `Resolve`, `ResolveMembers`, `ResolveToolchain`, `--register-head`, `--prune-pins` | `Tracks`, `Resolve` |
| advisory gate | the same | acknowledgements | `advisoryGate`, the report of a refusal, reachability | `Tracks`, `Advice` |
| checkout | `revisioncontroller` | member checkouts, restored locks | `Checkout` | `Workspace` |
| clone | `clonecontroller` | member clones | `Clone` | `Workspace` |
| status | `statuscontroller` | none | `Status` | `Workspace` (`Agrees`) |
| factory file edits | `speccontroller` | `forge-factory.yaml`, line by line | `Bump`, `Add`, pin removal | `FactoryFile` |
| render text | `rendercontroller` | none | the manifests' text | `Workspace`, `DeclaredVersions` (what is rendered, not how it reads) |
| configuration | `pkg/config` | none | `Parse`, `Validate` | the assumptions of `Resolve`, `Valid` of `FactoryFile` |
| register and git access | `gitadapter`, `repoadapter` | none | git, the register's trees | actions and answers of `RunCache`, `Resolve`, `Workspace` |
| command line | `driver/clidriver` | none | one verb per command line | how every module's jobs start and end |
| engine calls | `engineadapter` | none | one MCP call per subprocess | answers and failures only |
| documentation generator | cmd/docgen | none | markdown at build time | not modelled |

They interact through files only.  `Sync` calls resolve, the engines and the
render text as functions, writes the workspace, and then provisions tools and
runtimes through the stores; `Run` fills a cached run root by calling the same
`Sync` in it, then executes a command; `Bootstrap` places files and ends in a
`Sync`; `Clone`, `Checkout`, `Add` and `Bump` end in a `Sync`.  Two processes
share a workspace (no lock at all), the run cache (file locks), the stores (file
locks in part) and a register's checkout (no lock).

What is hard in each, and what makes it correct:

- **Render record.**  Files, record and lock list are written one after another,
  with lock commands of foreign tools in between that rewrite the files, and
  nothing locks the workspace.  Correct when no hand edit on record is lost, when
  the record tells what is on disk after a run, and when nothing leaves the
  record unless a person takes it or the factory drops it.
- **Declared versions.**  A `go.mod` is shared with a person: only requirements
  are guarded, one by one.  Correct when a person's version stays, and when the
  guard never blames a person for what a `go mod tidy` did.
- **Run cache.**  Clones are fetched and worktrees added, discarded and pruned by
  many processes; a run may be killed at any call and leaves no journal, only a
  marker file.  Correct when the locks exclude, when a root that is entered
  without work is whole, when the run after a crash succeeds, and when no two
  processes wait for each other.  A root is found by a name: correct when one
  name never means two roots.
- **Tool store.**  Blobs are staged and renamed without a lock, built binaries
  under one; workspaces link to both while others replace the links.  Correct
  when a blob in place is whole, no link dangles and an entry is built once.
- **Runtime store.**  A prefix is checked without its lock, removed file by file
  and rebuilt under it, staged under a process id that containers repeat, and
  renamed.  Correct when a prefix is one verified build, when a full one is never
  touched, and when what a workspace exposes has its needs met.
- **Resolve, advisories.**  Choices over pins, tracks, deprecation windows and
  findings, and one effect, a request that must be filed once.  Correct when what
  the gate refuses never becomes a version, when a pinned revision gives the same
  versions twice, and when what is missing is asked for.
- **Checkout, clone, status, factory file.**  Loops over members that stop at the
  first error, edits by lines, and a person who works in the members meanwhile.
  Correct when a verb that succeeded left what it says, and nobody's work is lost.

## 2. The modules

| module | what it is | proofs |
|---|---|---|
| `RenderRecord` | sync, lock, take and bootstrap on one workspace | `RenderRecord_proofs` |
| `DeclaredVersions` | the merged files of a workspace | `DeclaredVersions_proofs` |
| `RunCache` | runs on one user's cache | `RunCache_proofs` |
| `RunTarget` | what a run request selects: operators, no state | |
| `WarmRoots` | what the run cache promises, as an abstract specification | |
| `ToolStore` | tooling apply and binary provisioning on one user's store | `ToolStore_proofs` |
| `RuntimeStore` | provisioning of runtimes on one user's store | `RuntimeStore_proofs` |
| `Runtimes` | the engines' tables and where archive files land: operators | |
| `Tracks`, `Advice` | the choice of a version, the gate, the report: operators | |
| `Resolve` | syncs that resolve over a register's checkout | `Resolve_proofs` |
| `FactoryFile` | `forge-factory.yaml` as lines: operators | `FactoryFile_proofs` (lemmas) |
| `Workspace` | clone, sync, add, bump, checkout and status on the members | `Workspace_proofs` |

`MCRenderRecord`, `MCRunCache`, `MCToolStore`, `MCRuntimeStore`,
`MCDeclaredVersions`, `MCResolve` and `MCWorkspace` are the instances TLC checks,
with one `.cfg` for each run.

The state machines share no state: a run root and the stores lie outside every
workspace they serve, and within a workspace each module keeps the files the
others do not.  What one needs of another appears in it as a step: the sync of a
run root is `BeginSync` and `EndSync` of `RunCache`, the rendering at the end of a
`Resolve` is one step whose inside is `RenderRecord`, and the lock commands of a
`Workspace` sync may leave any of their places tidied.  They compose where one
computes another's data: `MCRunCache` takes its run roots from `RunTarget`,
`MCRuntimeStore` its descriptions from `Runtimes`, `Resolve` extends `Advice` and
`Tracks`, `Workspace` extends `FactoryFile`.

All are written alike.  A process is a program counter with the local variables
that live across calls, in `job[p]`; every call that other processes, a person or
a kill can tell apart is one action; `Abort` or `Kill` is a kill, or a failure of
a call that changes nothing, at any point.  A `Tear...` action or a `"partial"`
state is a write cut short.  An operator under a comment that begins with *Faulty*
is not part of the specification: it is a plausible bug of the definition below
it, and each property has one that violates it.

### 2.1 RenderRecord

| state | in the code |
|---|---|
| `factory` | `forge-factory.yaml`: its revision, and the files that its members and languages ask for |
| `disk`, `backups` | the rendered files and their `.bak`, `.bak.2`, ... |
| `record`, `readable` | `.forge/factory-generated.json`, and whether it parses |
| `manifest` | `.forge/dependency-locks.json` |
| `job[p]` | the locals of `Sync`, `Lock`, `Take`, `Bootstrap`: the record as read (`snap`), languages and files to go, what was generated, kept and locked, the entries of the next record |
| `edit`, `disturbed` | history: the last hand edit made while nothing ran, and the runs that overlapped another |

`Begin` reads the record; `RenderLanguage` or `SkipLanguage` follow the engine's
answer; `Guard` and `Write` are `guardWholeFile` and the write of one file,
`GuardRendered` the check of every file before the first command, `RunCommand`
one lock command, `ReadBack` `recordOnDisk`, `WriteRecord` and `RecordLockfiles`
the two JSON files; `Take`, `Backup` and `Unlist` are the verb `take`;
`Bootstrap` is its placing of files.  `Bump` is a new revision of the factory,
which may drop a member or a language or take one back (`Factories` are the sets of
files it may ask for); a job reads it once.  `Edit`, `Delete` and `DiscardRecord`,
the removal of the record, torn or whole, are a person.

Abstractions.  A digest is the text it was computed from.  Texts are known by
where they came from: a render of revision *n*, that render after a lock command,
an edit, a torn write.  Languages, files and commands come in any order, which
covers the code's sorted order.  `WriteRecord` reads and writes in one step.  A
lock command rewrites what was rendered in its directory and leaves a person's
text alone (otherwise no guard of forge-factory's could keep an edit).  The
lockfiles of an engine are not among its rendered files.  Edits are made at any
time, between a guard and its write too, but only those made while no process runs
are on the history: nothing could promise more.  A language whose entry is not
registered is one that does not resolve, whatever it would have rendered before.
The history lets go of an edit that is no longer on record: when a sync or a lock
records a factory that does not ask for the file, when a person removes the record,
and when a take that dies tears the backup another take has just made.
`engines.yaml`, which the same verbs refresh and no guard reads, is left out.

### 2.2 DeclaredVersions

| state | in the code |
|---|---|
| `declared` | the version the factory, or the register, gives a module |
| `disk`, `missing`, `record` | the requirements of each `go.mod`, those that are not there, and the versions the render record holds of each |
| `job` | the locals of `Sync` and `Lock`: versions resolved (`deps`), texts rendered, files and commands to go |
| `mine`, `touched`, `loose` | history: versions a person may count on, what a person changed since the record, files a job changed and has not recorded |

`Render` is `gomod.Edit` on every file before the first is written; `Guard` is
`guardDeclaredVersions` on one file and `Put` its write, with a person between them;
`GuardRendered` is the guard of a lock, `Settle` one `go mod tidy` or `go work sync`,
which may add and drop requirements and never lowers one, `Record` is `entryOf` for
every file that is there, while one that is missing keeps the versions it had, and
`Take` drops the entry of one.  `Edit`, `Remove` and `Declare` are a person and the
factory, at any point of a job.

Abstractions.  Versions are numbers in their order.  A `go.mod` is what it
requires; `replace` and the like are text.  One job runs at a time, the overlaps
being `RenderRecord`'s.  `Respected` says which edits a job has to respect: one it
can still see.

### 2.3 RunCache, RunTarget, WarmRoots

| state | in the code |
|---|---|
| `clone`, `head`, `registered` | the member's and the register's clone, the revision fetched, the worktrees git has on its list |
| `dir`, `at` | the worktrees in a run root |
| `synced` | how far the sync of the root got |
| `marker`, `tuple` | `.forge-materialised`, and the files under `run/.ready` |
| `lock` | the kernel's `flock` of each clone and root |
| `job[p]` | the locals of `Run` |

The actions follow `Run` in order: the warm tuple, each clone locked and fetched
or made, the resolution, the root locked and inspected, discarded unless marked,
pruned, each worktree added, the sync, the marker, the inputs check, the exec.
A local run takes its root's lock first and clone locks inside it.

`RunTarget` is how a request comes to its root: whether the target is a module or
a path, its revision and the runnable in it, the factory (`--factory` before what
the runnable declares), the commit (the one named; otherwise the one that proved
the register's current version; otherwise the version's tag), the root's name and
the warm tuple's, and for a local target the enclosing workspace that claims it.
`internalCurrent` there takes prefixes in the order of their text, as the code
does.

`WarmRoots` is what a user may rely on: one maker of a root at a time, sources
that change only in a root that is not warm, warm for good and only when the
sources are whole and all that a sync makes is made, commands in warm roots only.
What was made in a warm root changes in a step of its own, `Redo`, by a maker that
was told to: even while others execute there, and a death in the middle leaves it
warm and made in part.  That is what `--force` does.  `KeepsWarmRoots` states that
`RunCache` implements it (`INSTANCE ... WITH`: the tree is the member's worktree,
made is `synced`, warm is the marker, the maker holds the root's lock, the roots to
redo are those of the forced runs in them).

Abstractions.  Only the two clones that get worktrees are kept.  Each root has at
most one tuple file.  A partial clone makes every fetch fail, as git does.  A
killed process's git child is ended with it.  `cache clean` removes the cache and
the lock files in it under whoever holds them; nothing of this section survives
that, and it is not an action: the module is about users who do not clean while
others run.  A run by rule 2 is a sync of the enclosing workspace: that is
`RenderRecord`.  `RunTarget` has names as sequences of words; `sanitize` and the
short form of a commit, which could make two names one, are left out.

### 2.4 ToolStore

| state | in the code |
|---|---|
| `stage`, `blob` | `tmp/<digest>` and `blobs/sha256/<digest>` |
| `view` | `rev/<revision>/<platform>/bin` |
| `entry` | the link of `tools/<module>@<version>/<platform>` |
| `bin` | `.forge/bin` of each workspace |
| `lock` | the `flock` of an entry |
| `superuser` | whether mode 0555 keeps the owner from writing: not for root |
| `job[p]` | the locals of `Apply` and `buildBinary`; `hand` is where the file behind an open descriptor is by now |

`OpenStage`, `Fill` and `Rename` are `WriteExecutable` and `Rename` of one blob,
apart because a second process's truncation falls between them and because the
bytes follow the descriptor when the file is moved.  `UnlinkView`/`LinkView` and
`UnlinkBin`/`LinkBin` are the two system calls of `Symlink`.  `Find`, `LockEntry`,
`Recheck`, `Build`, `Land`, `NameEntry` are `buildBinary`.

Abstractions.  A digest stands for its bytes.  The tools of an index come in any
order.  A build's own staging names carry the process id and are seen by nobody
else, so `Land` writes and renames in one step; process ids that repeat across
containers are modelled for runtimes, and listed as a hazard here.  `index.json`
and `tooling.json` are written last and read by nothing modelled here.
`superuser` is chosen at the start and is the same for all.

### 2.5 RuntimeStore and Runtimes

| state | in the code |
|---|---|
| `dir`, `has` | the prefix of each store entry, and the artifact each of its files comes from |
| `staged` | the staged prefix, by process id |
| `bin`, `env`, `torn` | the links of `.forge/bin`, the runtimes `.forge/env` sets, whether it is half written |
| `lock` | the `flock` of an entry |
| `job[p]` | the locals of `Apply`: the plan, what is still to be materialised, the runtime at hand, what was fetched, the links to renew |

`CheckPrerequisites` is `checkPrerequisites`; `Look` the check without the lock,
`LockEntry` and `Recheck` the one under it, `RemoveStale` `RemoveAll`, a file at a
time, `Clear` the staged prefix that an earlier process of the same id left,
`Fetch`, `Install` and `Land` the engines and the rename; `Unlink`, `Link` and
`WriteEnv` are `expose`.

`Runtimes` is what the engines answer: per runtime its artifacts, programs,
environment, needs and what it provides, for a platform and targets, or nothing
where the table has no row; and where a file of an archive lands under `strip` and
`picks`.

Abstractions.  Bytes that a server answers are an artifact's, or other bytes, which do
not hash to the pin.  What archives hold is chosen by the instance: the tables pin
digests only.  `Look` is one step, while the code asks for one program after another:
what it finds decides only whether the lock is taken, or, if all are there, whether an
entry is used that a removal may be about to take apart, and a removal that begins
just after `Look` is the same.  `DescriptionsAreLaidOut` (an `ASSUME` TLC evaluates)
says that every program a table names is a file its archives lay out.

### 2.6 Tracks, Advice, Resolve

| state | in the code |
|---|---|
| `origin`, `checkout`, `revision` | the register's index on its main, in the checkout's working tree, and at the revision the factory names |
| `cache` | whether the checkout is a run's copy, in which nothing is filed |
| `requests`, `answered`, `verdicts` | request files of the checkout, those the pipeline answered, those whose answer the checkout holds |
| `specs` | what `forge-factory.yaml` says of an entry |
| `job[p]` | the locals of a sync's resolution: the factory as read, entries to go, the track found, what resolved, what is missing, which pins are dead |
| `manifest` | what a language, or the toolchain, was last rendered from |
| `now` | half days |

`Tracks` has the operators: `applyPin`, `advisoryGate`, the grace of a deprecation,
`compareVersions` and `defaultTrack`'s loop over a listing (`Highest`).  `Advice` adds
the notes and the report of a refusal, for whatever a reachability engine answers.  In
`Resolve`, `Begin` loads the factory; `Take` resolves one entry, tools first; `Look`
and `File` are `openRequest` and `fileRequest`; `Gate` the advisory gate and the
grace; `Finish` what is rendered when something is missing; `Prune` the removal of
dead pins and the sync that follows.  `Publish`, `Answer` and `Pull` are the
register's pipeline and the person who pulls, `EditFactory` the person who edits,
`Tick` time.

Abstractions.  Requests of other factories are left out.  A request carries its
package, kind and time.  An entry is resolved by itself: which members require it is
`DeclaredVersions`' `Internal`.  A tool's version is persisted when nothing is
missing; the code writes the toolchain image's as soon as it has it
(`synccontroller.go:291`), before it knows what else is missing.  Half days are the
grain at which an expiry (a midnight) and an acknowledgement (the end of a day)
differ.

### 2.7 FactoryFile, Workspace

| state | in the code |
|---|---|
| `file`, `loaded` | the lines of `forge-factory.yaml`, and those that the verb at work has read or written |
| `repo` | a member's directory: absent, not a repository, a clone cut short, or a repository at a commit, with what is committed and what is on disk of its `.gitignore`, manifest, `.envrc` and edits |
| `main` | the last commit of its main |
| `lock`, `roots` | the lockfile at each place, what each language's workspace file lists |
| `job`, `done` | the verb that runs, and the last that succeeded while no person changed a member; with them history: where a lock command `ran`, and the members whose manifest has `held` the requirement from the render on |

`CloneMember` is `Clone`; `Get`, `Look`, `Move`, `List` and `Restore` are
`Checkout`; `Envrc`, `Render`, `Settle` and `Ignore` what a sync does in a member's
directory; `Add`, `Bump` and `Prune` write the file and sync it, a bump also locks.
`Prune` may end any sync, of whatever verb, that was asked for it: it takes the pins
that were dead in what was loaded out of the file as it is by then.  `Agrees` is
`Status`.  `EditMember`, `CommitMember`, `Pull`, `Push` and `Discard` are people,
and `EditFile` is one who saves another factory file, between any two steps.

A manifest is the version it requires of one dependency, none of it, or no manifest.
`Required` is what a render makes of it: an engine that writes the whole manifest
puts the declared version there, and Go's, which merges, sets the version of a
requirement that is there, adds none and keeps one that nobody declares.  `Tidied` is
what `go mod tidy` and `go work sync` may then do: raise it, drop it, or add it.

Abstractions.  One verb runs at a time.  `add`, `bump` and the pruning read the
factory file and write it back in one step.  A sync that fails for an entry that is
not registered does so at its end (`Ignore`) or where it stands, and not after
rendering some languages and not others.  Every commit a revision was proven with
is on its member's main (`WorkspaceAssumption`): after a rebase of main, status calls
a member that was just checked out diverged (`statuscontroller.go:184`), which
`CheckoutAgrees` therefore does not cover.  A member's tree is what git says of the
files forge-factory writes, and whether anything else is edited.  The workspace
lies in no repository of its own (inside one, git would take a plain directory for
a part of it).  Which pins are dead is the register's affair, so any set may be.

## 3. What is checked

Every passing run is exhaustive within its bounds.  `CHECK_DEADLOCK FALSE` stands
in every configuration because the system really stops: once the bounded jobs,
edits and kills are used up, everybody is idle.  That a job does not get stuck is
the liveness property of `cache_live` and of `runtime_shared`.

| run | instance | result |
|---|---|---|
| `record_solo` | one process, two languages with one file each, the command directory of one inside the other's; 2 revisions, of which either may have dropped a member, 1 edit, 3 jobs | types; what is recorded is what is on disk; an entry is forgotten by a take of it or by a factory without it |
| `record_pair` | two processes, one language, its file; 3 revisions, with the file or without, 1 edit, 3 jobs | an edit survives for as long as it is on record, and holds commands back, while syncs, locks and takes overlap |
| `cache_remote` | two processes, two remote roots sharing their clones, forced or not, pinned or not; 4 runs, 2 kills | types; the locks exclude; git forgets no worktree; the cache implements `WarmRoots`: forced runs redo what was made, never the sources |
| `cache_live` | two processes, a remote and a local root, the register moves on once; 3 runs, 2 kills | without `--force`, marked roots are synced; every run ends; the run after any two kills reaches its exec |
| `store_shared` | two processes, two revisions sharing one tool, two workspaces, one built binary; 3 jobs, 1 kill; as user and as root | types; blobs are whole for a user, no link dangles, an entry is built once, only a kill leaves a gap |
| `runtime_shared` | two processes of one process id, two workspaces, four descriptions in three entries (a JRE and what needs it, a package manager as two engines describe it), one foreign answer or kill; 3 jobs | types; a prefix is of one verified build, partial only while its holder removes it, full ones stay; links lead to files, needs are met; every provision ends |
| `declared_versions` | two `go.mod`s, one module of three versions that the register pins, 3 changes by a person or the factory, files missing at the start or removed, 1 kill | types; a person's version stays; the record tells what is on disk |
| `resolve` | a dependency and a tool, two tracks, four records, five entries a factory may have (plain, soft pin, hard pin, acknowledgements, own version), two processes; 3 syncs, 2 half days, 1 publication or edit | types; what is missing is asked for, few requests stand, a report settles its refusal; the gate holds, an expired hard pin lets nothing through, a pinned revision is stable, the highest track is followed |
| `workspace` | a Go and a TypeScript member, two factory files (one with a name in both sections, `devDependencies` first), two revisions, one change by a person to a member or to the file; 2 verbs, 1 kill; 1.3 million states | types; what a checkout and a sync that succeeded left; status agrees with a checkout; nobody's work is lost; an edit of the file changes one thing, whatever was saved meanwhile |

Three runs show a disagreement between the code and what it says of itself.  Each
checks one statement, quoted in `PROJECT.json`, and TLC's counterexample is a
trace of the code:

| run | what the code says | what happens |
|---|---|---|
| `record_placed` | files bootstrap places are protected | the sync after bootstrap drops their entries; the next bootstrap overwrites an edit |
| `runtime_platform` | a store is read on more than one architecture | an entry's name leaves the platform out: the second architecture is given the first one's programs |
| `workspace_clone` | clone fetches every member that is not there yet | a sync before the first clone makes a member's directory, and clone then passes it by |

Other disagreements are known and have no run, either because no property of the
code covers them or because they need a run of their own for one line:

- A sync that fails half way leaves files newer than the record; the next one
  refuses its own render with "Somebody edited it by hand"
  (`synccontroller.go:1042`).
- A killed add leaves half a register worktree in a local root; a worktree that
  stands is kept, half or old, for ever (`runcontroller.go:667`).
- `--force` refreshes a root with its marker in place; killed, it is entered warm
  (`runcontroller.go:408`): `MarkedSynced` is about runs without it.
- `cache clean` unlinks the lock files of clones and roots under their holders
  (`clidriver.go:416`): another process then locks a new file of the same name.
- As root, two applies share one staging file and the second truncates what the
  first renames; for a user the second is refused by the first's read-only file
  (`toolingcontroller.go:234`): `UserBlobsWhole` is about users.
- The second sync of `--prune-pins` parses the factory again and resolves at its
  revision, whatever `--register-head` said (`clidriver.go:355`).
- A run takes the highest internal track by the order of text, so v9
  over v10 (`runcontroller.go:890`), where the resolver compares numbers.
- A removal of a stale runtime that is killed may leave a prefix with all its
  programs and not its other files, which is then used (`runtimecontroller.go:352`).
- `PrunePins` "rewrites named dependencies with their pin fields dropped"
  (`speccontroller.go:109`), but takes what to write from `dependencies` and where
  from the first line of that name in either section (line 164): with
  `devDependencies` first, a name in both sections has its development entry
  overwritten with the other one, whose pin stays.  `EditsOne` states what is
  written, for such files too.
- A member or a language that leaves the factory takes its entries out of the record
  (`synccontroller.go:649`).  When it comes back, its files are taken for files that
  were never rendered (line 508), and a hand edit that was on record is overwritten.

Pure algorithms are checked as assumptions of the instances.  `TuplesMeanOneRoot`:
of 64 requests over a world whose branches have moved or not, those that share a
warm tuple mean the same root.  `FloatingRunsAreProven`: a request that names no
commit runs a commit that a proven revision names.  `RootsOfRequests`: the roots
the cache's runs use are roots of requests.  `DescriptionsAreLaidOut`: see 2.5.

**Why the bounds are enough.**  The properties relate one file, root, entry or
blob to the processes that touch it, so what matters is that every pair of
sections can overlap and that something comes before and after them: two
processes, a job (or a killed one) whose remains a later one meets, and a third
to see what the second left.  Two roots sharing clones, two revisions sharing a
blob, two descriptions sharing a prefix and two command directories nested in one
another are the smallest shapes in which an action on one object disturbs another.
Three versions let a person's lie between, above or below the recorded and the
declared one; two tracks, v0.9 and v0.10, are where text and number disagree; two
half days separate an expiry from the end of the same day, and a filing from its
answer; two members and two places let a loop fail between them.
`declared_versions` has one module, `workspace` the Go and the TypeScript rows of
the languages' table (Python and Rust are exercised by `workspace_clone`).  For
what section 4 proves the bounds do not matter at all.

**Fairness.**  Only `cache_live` and `runtime_shared` assume any: `WF_vars(Step(p))`,
that a process which can take its next step takes it.  The code justifies it: steps
are system calls and subprocesses which the scheduler runs and which end, and a
killed process's locks are released by the kernel.  Nobody is obliged to start a
job, and no kill is.  The command a run executes is assumed to end, which is the
user's business.  Weak fairness would not keep a process waiting at a lock from
being overtaken for ever by endless newcomers; `flock` promises nothing there
either, and in the model jobs are finite, so the properties say that no two
processes block each other and that every path releases what it took.

## 4. What is proved

TLAPS proves these for every value of the constants: any number of processes,
languages, files, commands, roots, revisions, tools, runtimes, modules, versions,
entries, members and places, and bounds of any size.  The assumptions are the
named `ASSUME`s at the head of each module: that the "nothing" values are not
values, that roots and clones, tools and entries have different names, that what
is placed or locked is not what is rendered, that track names are versions listed
in `Ranks` by their order, and the types of tables given as constants.  What a
theorem assumes beyond that is in its statement, and in the last column.

| theorem | states | where |
|---|---|---|
| `TypeCorrect`, `CacheTypeCorrect`, `StoreTypeCorrect`, `TypeCorrect` of `RuntimeStore_proofs`, `VersionTypes`, `ResolveTyped`, `WorkspaceTyped` | the type invariants | there is an entry; there is a revision |
| `EditsSurvive` | `RecordedEditsSurvive` | |
| `CommandsHeldBack` | `EditsHoldBackCommands` | |
| `RecordAgrees` | `RecordAgreesWithDisk`, an action property | |
| `Forgets` | `ForgetsOnlyTakenOrDropped`, an action property | |
| `EditsAreKept` | `EditsKept` | |
| `RecordsTellDisk` | `RecordTellsDisk` | |
| `RendersAddNothing` | a render adds no requirement of its own | |
| `LocksExclude` | `OneAtATime` | |
| `WarmRootsAreWhole`, `RunsExecuteWhole` | a root with a marker or a tuple is whole, and so is one a command runs in | |
| `PruneForgetsNothing` | `WholeIsRegistered` | |
| `CacheKeepsWarmRoots` | `KeepsWarmRoots`: the refinement | |
| `MarkedRootsAreSynced` | `MarkedSynced` | no run is forced |
| `UncutRootsAreSynced` | `MarkedSynced` while no run was cut short | |
| `BlobsOfUsersWhole` | `UserBlobsWhole` | |
| `NoLinkDangles` | `LinksLeadToBlobs` | |
| `EntriesAreBuiltOnce` | `EntriesBuiltOnce`, an action property | |
| `GapsClose` | `GapsAreClosed` | |
| `PrefixesOfOneBuild` | `EntriesOfOneBuild` | |
| `PrefixesLandOnNothing` | a rename holds its lock and finds its place free | |
| `PrefixesAreWhole` | `PartialOnlyByRemoval` | |
| `FullPrefixesStay` | `FullEntriesStay`, an action property | |
| `EnvironmentsHaveTheirNeeds` | `NeedsAreMet` | |
| `NamesLeadToFiles` | `LinksLeadToFiles` | `Growing`, `ProgramsLaidOut` |
| `MissingIsAskedFor` | `MissIsAsked` | |
| `RequestsStayFew` | `FewRequests` | |
| `CacheStaysUntouched` | nothing is filed in a run's copy of the register | |
| `GateAlwaysHolds` | `GateHolds`, an action property | |
| `RefusalsShowTheWay` | `ReportSettles` | |
| `PinnedRendersTheSame` | `PinnedIsStable`, an action property | |
| `VersionsAreOrdered` | `compareVersions` is an order | |
| `HighestIsFollowed` | `FollowsHighest`, an action property | |
| `NobodyLosesWork` | `WorkStays`, an action property | there is a revision |
| `SyncsAsDeclared` | `SyncedAsDeclared` | there is a revision |
| `ChecksOut`, `CheckoutsAgree` | `CheckedOut`, `CheckoutAgrees` | there is a revision |
| `EditsChangeOne` | `EditsOne`, an action property | there is a revision |

**The hypotheses.**  *There is an entry* and *there is a revision* keep the values
of idle jobs typed; a factory declares something, and a register has a commit.
*No run is forced*: a forced run syncs a marked root again and, killed, leaves the
marker (section 3), so `MarkedSynced` is false with forced runs that die;
`UncutRootsAreSynced` says what is left.  `ProgramsLaidOut`: every program an
engine names is a file its archives lay out, which `MCRuntimeStore` checks of the
descriptions.  `Growing`: of two descriptions of one entry one knows every program
of the other.  Without it two engines would replace the entry in turn, each
finding a program missing that only it knows; a table that grows between versions
satisfies it.  TLC evaluates each on the instance, so none is empty.

**The record** (`RecordInv`).  That an edit survives does not follow from itself:
a sync may already hold a record read before the edit, or entries for the file, or
stand between guard and write.  The invariant says what every running job looks
like while an edit is *live*, on disk and in no backup: the record it read refuses
the file (`Guarded`), it has no new entry for it, is not about to write or unlist
it, and is past no guard that saw the file otherwise (`Spares`).  It starts true
because an edit is only on the history if nobody runs.  `JobInv` ties a job's file
sets to its control point, and is what shows that the record written next lists
the file with its old digest.  `BackupSpares` does the same for a take that is
about to write a backup.  `AgreeInv` is about the runs that overlap no other: there
is no second process then, and what such a run read of the record still stands,
while each text it recorded is on disk unless a command that is still to run may
rewrite it.  So the entries it writes are what is there, and it lists what it found
listed.  A job carries the files of the factory it read (`files`), so that what it
records is told apart from what it drops (`Dropped`) although the factory may have
changed since.  `ForgetsOnlyTakenOrDropped` holds of overlapping runs too, with the
exception it names: an entry that one added after the other had read the record.

**Declared versions** (`VersionInv`).  `EditInv`: a version a person may count on
is on disk, the guard sees it, and the job under way has not read past it: either
the job's declared version differs, or nobody declares the module and the text it
rendered still has the person's version; once a job has nothing left to write there,
nobody declares the module.  `RecordInv` and `TextInv` are what the guard's verdict
and a render rest on.

**The cache** (`CacheInv`).  Each process in a section holds its lock
(`LockInv`), so sections exclude; then facts one process established inside its
section survive the others' steps.  `RootInv` carries, per control point, what a
run knows of its member's worktree, and that marked means whole.  The delicate
part is a forced run that works in a marked root, which must never take its
worktree away, and an exec after the lock is released, which is safe because
nothing discards a marked root.  `RegisteredInv` adds that what is being added is
registered, so that a prune, which drops only what has no directory, cannot race
it.  The refinement takes one case per action: a step of `WarmRoots`, or a stutter.
`SyncInv` is the marker's second promise: whoever is about to mark has finished the
sync, and a marked root that is not synced has a forced run working in it, unless
one was cut short.  The first half is what the refinement needs where a root is marked.

**The tool store** (`StoreInv`, `GapInv`).  `StageInv`: for an ordinary user the
exclusive open makes a staging file belong to one process, whose descriptor
therefore still points at the staged name.  Without the clause that two staging
processes have different digests it is not inductive.  `LinkInv` needs only that
blobs are never taken away and that a process that links has seen what it links to.
`LockInv` adds that the builder of an entry found it unnamed under the lock, which
is what makes the link immutable.  `GapInv` says of what a workspace links to, and
of what a process that makes a view is done with, that it is there or that somebody
stands between the two calls of its `Symlink`.

**The runtime store** (`StoreInv`, `NeedInv`, `WholeInv`, `LinkInv`).  `LockInv`
says that the holder of an entry finds it stale until it has removed it, and gone
from then on; `StageInv`, that since it cleared the place, what it staged comes from
the artifacts of the runtime at hand, although processes may share ids: they then
hold different entries' locks, and staged names carry the entry.  Both are needed at
the rename.  `WholeInv` adds that what is fetched or laid out together is all of
the description.  `NeedInv` follows the links of one workspace through two
processes that renew them.  `LinkInv` follows one name of `.forge/bin`: the entry
it leads to has the file, or whoever replaces the entry will lay it out, because it
found a program of its own missing and so knows the more of the two (`Growing`).

**Resolve** (`OutInv`, `AskInv`, `FewInv`, `PinInv`, `LookInv`).  `AskInv` keeps, for
every missing entry, a request that was not among the verdicts the sync began with,
through answers, pulls and other syncs.  `FewInv` counts: whoever decides to file saw
nothing standing, so requests standing and processes about to file never exceed the
processes.  `OutInv` makes `GateHolds` a matter of one action, and `LookInv`, that
nothing is found before an entry is looked up, ties what is let through to the look at
which a hard pin's day was judged.  `PinInv` gives the answer of a pinned run in
closed form: what an entry comes to is a function of what the factory says of it and
of the factory's revision (`Chosen`), at every point of the run and of what it
rendered; a pull or a publication changes neither, and a dead pin that is pruned chose
nothing (`PrunedChooses`). `RefusalsShowTheWay` needs no induction: it is about the
operators of `Advice`, for any record, acknowledgements, answers and day.

`VersionsAreOrdered` compares versions of different lengths by the first place
where they differ, taking missing numbers for zeros.  `HighestIsFollowed` rests on
it: at each name of the listing, none of those passed that have a file is higher
than the best so far (`Tops`), and for the next step transitivity is what is
needed.  The loop is a recursive function; that there is one (`WalkThere`), and
what it computes, is shown by the least place where it would fail
(`LeastNatural`), because the library's induction theorems cannot be instantiated.

**The workspace** (`TypeInv`, `WorkInv`, `SyncInv`, `CheckoutInv`).  `TypeInv` is the
type with what the steps need of it: the file stays valid and readable through every
edit, by the lemmas of `FactoryFile_proofs`, and what a job has still to do is part of it.
`WorkInv`: the member a checkout is about to move has an uncommitted edit only if a
person made it after the look.  `SyncInv` and `CheckoutInv` say how far a job that no
person disturbed has come, per control point: which languages are as declared, which
members are on the proven commit, which lockfiles are restored; and that a verb's
outcome is on record only while nothing runs (`Busy`), so that a step of a new verb
owes the old one nothing.  They are inductive because a step touches one member,
language or place, the one it takes from `todo`, and what a sync does in a member's
directory leaves the commit in it.  Where the sync of a checkout ran a lock command
is in `ran`, which is what `CheckedOut` excepts.  What a manifest may require in the
end depends on more than the last step: `SyncJob` says of each language that is
rendered that its manifests suit what is declared (`Suits`), given where a command has
run and which manifests have `held` the requirement since the render, and `TidySuits`
that a tidy keeps it so: what was held at the declared version can only be raised, and
what was dropped on the way is no longer promised anything.  `EditsChangeOne` goes
through the file line by line: where the edit finds its line (`FindDep`,
`LastRepoLine`), that inserting or rewriting it moves no other line to another
section, language or name, and that of a name in both sections the line that changes
gets the entry of `dependencies`.

**Only model-checked.**  The liveness properties `JobsEnd`, `RunsReachExec` and
`ProvisionsEnd` (fairness is beyond the prover); the three statements that the code
violates; and the tables and operators of `Runtimes` and `RunTarget`, over the inputs
of their instances.  Every other property of a run is a theorem.


## 5. What is not modelled

- The transport to language engines, and the choice between a source directory,
  `PATH` and a pinned `go run`: a call appears as its answer or its failure.
- The documentation generator, parsers and the text of manifests: pure functions
  of text with no state to order.
- Argument parsing, printing, and the Windows lock adapter, which locks nothing.
- `engines.yaml`, `index.json`, `tooling.json`: written last, and read by nothing
  a guard depends on.
- `cache clean` beside other processes (see 2.3), an engine's git child that
  outlives it, process ids that repeat under the tool store, and a person who saves
  `forge-factory.yaml` between the read and the write of an edit by a verb: the code
  promises nothing there.
- A main that was rebased (see 2.7), and the toolchain image's own file (see 2.6).

## 6. What could follow

1. A second abstract specification, of the stores: an entry is unbuilt or built,
   for good, which `ToolStore` and `RuntimeStore` would both implement.
2. `Workspace` with two verbs at once, and inside an outer repository.
3. `DeclaredVersions` with `RenderRecord`'s overlaps: two syncs on one `go.mod`.
