-------------------------- MODULE Workspace_proofs --------------------------
(***************************************************************************)
(* Proofs about Workspace: that its variables have their types, that a     *)
(* verb which succeeded left what it says, and that work stays.            *)
(***************************************************************************)
EXTENDS Workspace, FactoryFile_proofs

-----------------------------------------------------------------------------
(* The factory file. *)

FileOK(f) == Valid(f) /\ Readable(f)

LEMMA ReadableLines ==
    ASSUME NEW f, Readable(f)
    PROVE  /\ Len(f) \in Nat /\ DOMAIN f = 1..Len(f) /\ f \in Seq(Range(f))
           /\ Lines(f)
BY LenProperties DEF Readable, Lines

\* A function over the first numbers is a sequence of what it holds.
LEMMA IsSequence ==
    ASSUME NEW n \in Nat, NEW g, g = [i \in 1..n |-> g[i]]
    PROVE  g \in Seq(Range(g))
<1>1. g \in [1..n -> Range(g)]
  BY DEF Range
<1> QED
  BY <1>1, SeqDef

LEMMA MembersType ==
    ASSUME NEW f, Readable(f)
    PROVE  MembersOf(f) \in SUBSET Member
BY DEF Readable, MembersOf, ItemsOf

LEMMA ValuesType ==
    ASSUME NEW f, Readable(f), NEW section, NEW d \in DepsIn(f, section)
    PROVE  d.value \in Int /\ Version(d.value) \in 0..MaxCommit
<1>1. d.value \in (-MaxCommit)..MaxCommit
  BY DEF Readable, DepsIn
<1> QED
  BY <1>1, WorkspaceBounds DEF Version

LEMMA DeclaredType ==
    ASSUME NEW f, Readable(f)
    PROVE  Declared(f) \in [Languages -> 0..MaxCommit]
<1> DEFINE D(g) == {d \in DepsIn(f, "dependencies") : d.language = g}
           V(g) == IF D(g) = {} THEN 0 ELSE Version((CHOOSE d \in D(g) : TRUE).value)
<1>1. \A g \in Languages : V(g) \in 0..MaxCommit
  <2> TAKE g \in Languages
  <2>1. CASE D(g) = {}
    BY <2>1, WorkspaceBounds
  <2>2. CASE D(g) # {}
    <3>1. (CHOOSE d \in D(g) : TRUE) \in DepsIn(f, "dependencies")
      BY <2>2
    <3> QED
      BY <2>2, <3>1, ValuesType
  <2> QED
    BY <2>1, <2>2
<1>2. Declared(f) = [g \in Languages |-> V(g)]
  BY DEF Declared
<1> HIDE DEF V
<1> QED
  BY <1>1, <1>2

LEMMA DeclaredNothing == Declared(<<>>) \in [Languages -> 0..MaxCommit]
<1>1. DOMAIN <<>> = {}
  OBVIOUS
<1>2. DepsIn(<<>>, "dependencies") = {}
  BY <1>1 DEF DepsIn
<1>3. {d \in DepsIn(<<>>, "dependencies") : d.language = "x"} = {}
  BY <1>2
<1>4. \A g \in Languages : {d \in DepsIn(<<>>, "dependencies") : d.language = g} = {}
  BY <1>2
<1>5. Declared(<<>>) = [g \in Languages |-> 0]
  BY <1>4 DEF Declared
<1> QED
  BY <1>5, WorkspaceBounds

\* An edit of versions leaves the file readable where the versions are.
LEMMA RewriteOK ==
    ASSUME NEW f, FileOK(f), NEW g, Rewrites(f, g), g = [i \in DOMAIN f |-> g[i]], Lines(g),
           \A i \in DOMAIN f : g[i] # f[i] => g[i].value \in 0..MaxCommit
    PROVE  FileOK(g)
<1>1. Len(f) \in Nat /\ DOMAIN f = 1..Len(f) /\ Readable(f) /\ Valid(f)
  BY ReadableLines DEF FileOK
<1>2. Valid(g) /\ KeyedOnce(g)
  BY <1>1, RewriteKeepsMembers, RewriteKeepsKeys DEF Readable
<1>3. g \in Seq(Range(g))
  BY <1>1, IsSequence
<1>4. \A i \in DOMAIN g : g[i] = Line(g[i].at, g[i].name, g[i].value)
  BY DEF Lines
<1>5. \A i \in DOMAIN g : g[i].at = "item" => g[i].name \in Member
  BY <1>1 DEF Rewrites, Readable
<1>6. \A i \in DOMAIN g : g[i].at = "dep" => g[i].value \in (-MaxCommit)..MaxCommit
  <2> SUFFICES ASSUME NEW i \in DOMAIN g, g[i].at = "dep"
               PROVE  g[i].value \in (-MaxCommit)..MaxCommit
    OBVIOUS
  <2>1. CASE g[i] = f[i]
    BY <1>1, <2>1 DEF Rewrites, Readable
  <2>2. CASE g[i] # f[i]
    BY <2>2, WorkspaceBounds DEF Rewrites
  <2> QED
    BY <2>1, <2>2
<1> QED
  BY <1>2, <1>3, <1>4, <1>5, <1>6 DEF FileOK, Readable

LEMMA BumpOK ==
    ASSUME NEW f, FileOK(f), NEW language, NEW name, NEW v \in Commit
    PROVE  FileOK(Bumped(f, language, name, v))
<1> DEFINE g == Bumped(f, language, name, v)
<1>1. Rewrites(f, g)
  BY BumpRewrites
<1>2. g = [i \in DOMAIN f |-> g[i]] /\ DOMAIN g = DOMAIN f
  BY DEF Bumped
<1>3. \A i \in DOMAIN f : g[i] = f[i] \/ g[i] = Line("dep", name, v)
  BY DEF Bumped
<1>4. Lines(f)
  BY ReadableLines DEF FileOK
<1> HIDE DEF g
<1>5. Lines(g)
  BY <1>2, <1>3, <1>4 DEF Lines, Line
<1>6. \A i \in DOMAIN f : g[i] # f[i] => g[i].value \in 0..MaxCommit
  BY <1>3, WorkspaceBounds DEF Line, Commit
<1> QED
  BY <1>1, <1>2, <1>5, <1>6, RewriteOK DEF g

LEMMA PruneOK ==
    ASSUME NEW f, FileOK(f), NEW dead, CanPrune(f, dead)
    PROVE  FileOK(Pruned(f, dead)) /\ Rewrites(f, Pruned(f, dead))
<1> DEFINE g == Pruned(f, dead)
           Now(i) == Line("dep", f[i].name, Unpinned(f, LanguageOf(f, i), f[i].name))
<1>1. Len(f) \in Nat /\ DOMAIN f = 1..Len(f) /\ Readable(f) /\ Lines(f)
  BY ReadableLines DEF FileOK
<1>3. Rewrites(f, g)
  BY <1>1, PruneRewrites
<1>4. g = [i \in DOMAIN f |-> g[i]] /\ DOMAIN g = DOMAIN f
  BY DEF Pruned
<1>5. \A i \in DOMAIN f : g[i] = f[i] \/ g[i] = Now(i)
  BY DEF Pruned
<1>6. ASSUME NEW i \in DOMAIN f, g[i] # f[i] PROVE g[i].value \in 0..MaxCommit
  <2>1. PICK d \in dead : i = FindDep(f, d.language, d.name)
    BY <1>6 DEF Pruned
  <2>2. f[i].at = "dep" /\ SectionOf(f, i) \in Sections
    BY <1>1, <2>1, DepIsFound DEF CanPrune
  <2>3. Unpinned(f, LanguageOf(f, i), f[i].name) \in 0..MaxCommit
    BY <1>1, <2>2, UnpinnedValue, ValuesType
  <2>4. g[i] = Now(i)
    BY <1>5, <1>6
  <2> HIDE DEF g
  <2> QED
    BY <2>3, <2>4 DEF Line
<1>7. Lines(g)
  <2> HIDE DEF g
  <2> QED
    BY <1>1, <1>4, <1>5 DEF Lines, Line
<1> HIDE DEF g
<1>8. FileOK(g)
  BY <1>3, <1>4, <1>6, <1>7, RewriteOK
<1> QED
  BY <1>3, <1>8 DEF g

LEMMA AddOK ==
    ASSUME NEW f, FileOK(f), NEW m \in Member, CanAdd(f, m)
    PROVE  FileOK(Added(f, m)) /\ MembersOf(Added(f, m)) = MembersOf(f) \cup {m}
<1> DEFINE e == Line("item", m, 0)
           S == Range(f) \cup {e}
           g == Added(f, m)
           n == Len(f)
           k == LastRepoLine(f) + 1
<1>1. n \in Nat /\ f \in Seq(Range(f)) /\ Repos(f) # {} /\ Valid(g) /\ Readable(f)
  BY ReadableLines DEF FileOK, CanAdd
<1>2. f \in Seq(S)
  BY <1>1, SeqMonotonic
<1>3. k \in 1..(n + 1) /\ Inserts(f, n, k, e, g)
  BY <1>1, <1>2, AddInserts
<1>4. MembersOf(g) = MembersOf(f) \cup {m}
  BY <1>1, <1>2, AddAddsOne
<1>5. g \in Seq(Range(g))
  <2>1. g \in Seq(S)
    BY <1>1, <1>2, AddInserts
  <2> QED
    BY <2>1, SeqOfRange
<1>6. \A i \in DOMAIN g : g[i] = e \/ \E j \in DOMAIN f : g[i] = f[j]
  <2> HIDE DEF e, g, n, k
  <2>1. n \in Nat
    BY <1>1
  <2> QED
    BY <1>3, <2>1, InsertHolds
<1>8. KeyedOnce(g)
  BY <1>1, <1>2, AddKeepsKeys DEF Readable
<1>7. Readable(g)
  <2>1. e = Line(e.at, e.name, e.value) /\ e.at = "item" /\ e.name = m
    BY DEF Line
  <2> HIDE DEF e, g
  <2>2. \A i \in DOMAIN g : /\ g[i] = Line(g[i].at, g[i].name, g[i].value)
                            /\ g[i].at = "item" => g[i].name \in Member
                            /\ g[i].at = "dep" => g[i].value \in (-MaxCommit)..MaxCommit
    <3> TAKE i \in DOMAIN g
    <3>1. CASE g[i] = e
      BY <2>1, <3>1
    <3>2. CASE \E j \in DOMAIN f : g[i] = f[j]
      BY <1>1, <3>2 DEF Readable
    <3> QED
      BY <1>6, <3>1, <3>2
  <2> QED
    BY <1>5, <1>8, <2>2 DEF Readable
<1> QED
  BY <1>1, <1>4, <1>7 DEF FileOK

-----------------------------------------------------------------------------
(* A member's directory. *)

LEMMA DirectoryType ==
    ASSUME NEW d \in Directory
    PROVE  /\ d.is \in {"none", "plain", "broken", "repo"} /\ d.head \in 0..MaxCommit
           /\ d.own \in BOOLEAN /\ d.envrc \in BOOLEAN /\ d.edited \in BOOLEAN
           /\ d.kept \in Content /\ d.now \in Content
BY DEF Directory

LEMMA NoDirectoryType == NoDirectory \in Directory
<1>1. Empty \in Content
  BY WorkspaceBounds DEF Empty, Content, NoManifest
<1> QED
  BY <1>1, WorkspaceBounds DEF NoDirectory, Directory

LEMMA CommitOfType ==
    ASSUME NEW m, NEW c \in 0..MaxCommit
    PROVE  CommitOf(m, c) \in Content
<1>1. (c \in Ignores[m]) \in BOOLEAN
  OBVIOUS
<1>2. (IF Tracked(m) THEN c ELSE NoManifest) \in NoManifest..MaxCommit
  BY WorkspaceBounds DEF NoManifest
<1> QED
  BY <1>1, <1>2 DEF CommitOf, Content

LEMMA NoDirectoryFields ==
    NoDirectory.is = "none" /\ NoDirectory.own = FALSE /\ NoDirectory.edited = FALSE
BY DEF NoDirectory

LEMMA AtType ==
    ASSUME NEW m, NEW c \in 0..MaxCommit
    PROVE  /\ At(m, c) \in Directory
           /\ At(m, c).is = "repo" /\ At(m, c).head = c
           /\ At(m, c).own = FALSE /\ At(m, c).edited = FALSE
<1> DEFINE k == CommitOf(m, c)
<1>1. k \in Content
  BY CommitOfType
<1>2. NoDirectory \in Directory /\ NoDirectory.own = FALSE /\ NoDirectory.edited = FALSE
  BY NoDirectoryType, NoDirectoryFields
<1>3. At(m, c) = [NoDirectory EXCEPT !.is = "repo", !.head = c, !.kept = k, !.now = k]
  BY DEF At
<1> HIDE DEF k
<1> QED
  BY <1>1, <1>2, <1>3 DEF Directory

LEMMA OntoType ==
    ASSUME NEW m \in Member, repo \in [Member -> Directory], NEW c \in 0..MaxCommit
    PROVE  /\ Onto(m, c) \in Directory
           /\ Onto(m, c).is = "repo" /\ Onto(m, c).head = c /\ Onto(m, c).own = FALSE
           /\ Onto(m, c).edited = repo[m].edited
<1> DEFINE a == At(m, c)
           d == repo[m]
           v == IF Tracked(m) THEN a.now.manifest ELSE d.now.manifest
<1>1. a \in Directory /\ a.is = "repo" /\ a.head = c /\ a.own = FALSE
  BY AtType
<1>2. d \in Directory
  OBVIOUS
<1>3. v \in NoManifest..MaxCommit
  BY <1>1, <1>2 DEF Directory, Content
<1>4. Onto(m, c) = [a EXCEPT !.envrc = d.envrc, !.edited = d.edited, !.now.manifest = v]
  BY DEF Onto
<1>5. d.envrc \in BOOLEAN /\ d.edited \in BOOLEAN
  BY <1>2, DirectoryType
<1>6. [a.now EXCEPT !.manifest = v] \in Content
  BY <1>1, <1>3 DEF Directory, Content
<1> HIDE DEF a, d, v
<1>7. Onto(m, c) = [a EXCEPT !.envrc = d.envrc, !.edited = d.edited,
                             !.now = [a.now EXCEPT !.manifest = v]]
  BY <1>1, <1>4 DEF Directory
<1>8. Onto(m, c) \in Directory
  BY <1>1, <1>5, <1>6, <1>7 DEF Directory
<1> QED
  BY <1>1, <1>7, <1>8 DEF Directory, d

LEMMA MadeType ==
    ASSUME NEW d \in Directory
    PROVE  /\ Made(d) \in Directory
           /\ Made(d).head = d.head /\ Made(d).own = d.own /\ Made(d).kept = d.kept
           /\ Made(d).now = d.now /\ Made(d).envrc = d.envrc /\ Made(d).edited = d.edited
           /\ d.is = "repo" => Made(d).is = "repo"
           /\ Made(d).is = "repo" => d.is = "repo"
BY DEF Made, Directory


LEMMA EnvrcType ==
    ASSUME NEW d \in Directory
    PROVE  /\ [Made(d) EXCEPT !.envrc = TRUE] \in Directory
           /\ [Made(d) EXCEPT !.envrc = TRUE].is = "repo" <=> d.is = "repo"
           /\ [Made(d) EXCEPT !.envrc = TRUE].head = d.head
           /\ [Made(d) EXCEPT !.envrc = TRUE].own = d.own
           /\ [Made(d) EXCEPT !.envrc = TRUE].edited = d.edited
<1> DEFINE a == Made(d)
<1>1. a \in Directory /\ a.head = d.head /\ a.own = d.own /\ a.edited = d.edited
      /\ (a.is = "repo" <=> d.is = "repo")
  BY MadeType
<1> HIDE DEF a
<1>2. /\ [a EXCEPT !.envrc = TRUE] \in Directory
      /\ [a EXCEPT !.envrc = TRUE].is = a.is
      /\ [a EXCEPT !.envrc = TRUE].head = a.head
      /\ [a EXCEPT !.envrc = TRUE].own = a.own
      /\ [a EXCEPT !.envrc = TRUE].edited = a.edited
  BY <1>1 DEF Directory
<1> QED
  BY <1>1, <1>2 DEF a

\* What a render requires is a version, and the declared one where the manifest is not
\* merged, or where it had a requirement and one is declared.
LEMMA RequiredType ==
    ASSUME NEW m \in Member, repo[m] \in Directory, NEW v \in 0..MaxCommit
    PROVE  /\ repo[m].now.manifest \in NoManifest..MaxCommit /\ Required(m, v) \in 0..MaxCommit
           /\ ~EngineFor[Language[m]].merged => Required(m, v) = v
           /\ EngineFor[Language[m]].merged => /\ Required(m, v) = v \/ 0 \in {Required(m, v), v}
                                               /\ repo[m].now.manifest > 0 => Required(m, v) > 0
<1>1. repo[m].now.manifest \in NoManifest..MaxCommit
  BY DEF Directory, Content
<1>2. CASE ~EngineFor[Language[m]].merged
  <2>1. Required(m, v) = v
    BY <1>2 DEF Required
  <2> QED
    BY <1>1, <1>2, <2>1
<1>3. CASE EngineFor[Language[m]].merged
  <2>1. CASE repo[m].now.manifest = NoManifest
    <3>1. Required(m, v) = 0
      BY <1>3, <2>1 DEF Required
    <3> QED
      BY <1>1, <1>3, <2>1, <3>1, WorkspaceBounds DEF NoManifest
  <2>2. CASE repo[m].now.manifest # NoManifest
    <3>1. Required(m, v) = IF 0 \in {repo[m].now.manifest, v} THEN repo[m].now.manifest ELSE v
      BY <1>3, <2>2 DEF Required
    <3> QED
      BY <1>1, <1>3, <2>2, <3>1, WorkspaceBounds DEF NoManifest
  <2> QED
    BY <2>1, <2>2
<1> QED
  BY <1>2, <1>3

LEMMA RequiringType ==
    ASSUME NEW m \in Member, repo \in [Member -> Directory], NEW v \in 0..MaxCommit
    PROVE  /\ Requiring(m, v) \in Directory
           /\ Requiring(m, v).is = "repo" <=> repo[m].is = "repo"
           /\ Requiring(m, v).head = repo[m].head
           /\ Requiring(m, v).own = repo[m].own
           /\ Requiring(m, v).edited = repo[m].edited
           /\ Requiring(m, v).now.manifest = Required(m, v)
<1> DEFINE d == repo[m]
           a == Made(d)
           r == Required(m, v)
           c == [a.now EXCEPT !.manifest = r]
<1>8. r \in NoManifest..MaxCommit
  BY RequiredType DEF NoManifest
<1>1. d \in Directory
  OBVIOUS
<1>2. a \in Directory /\ a.head = d.head /\ a.own = d.own /\ a.edited = d.edited
      /\ (a.is = "repo" <=> d.is = "repo")
  BY <1>1, MadeType
<1>3. a.now \in Content
  BY <1>2, DirectoryType
<1>4. Requiring(m, v) = [a EXCEPT !.now.manifest = r]
  BY DEF Requiring
<1> HIDE DEF d, a, r
<1>5. c \in Content /\ c.manifest = r
  BY <1>3, <1>8 DEF Content
<1>6. Requiring(m, v) = [a EXCEPT !.now = c]
  BY <1>2, <1>4 DEF Directory
<1> HIDE DEF c
<1>7. /\ [a EXCEPT !.now = c] \in Directory
      /\ [a EXCEPT !.now = c].is = a.is
      /\ [a EXCEPT !.now = c].head = a.head
      /\ [a EXCEPT !.now = c].own = a.own
      /\ [a EXCEPT !.now = c].edited = a.edited
      /\ [a EXCEPT !.now = c].now = c
  BY <1>2, <1>5 DEF Directory
<1> QED
  BY <1>2, <1>5, <1>6, <1>7 DEF d, r

Ignored(d) == [Made(d) EXCEPT !.now.ignored = TRUE]

LEMMA IgnoredType ==
    ASSUME NEW d \in Directory
    PROVE  /\ Ignored(d) \in Directory
           /\ Ignored(d).is = "repo" <=> d.is = "repo"
           /\ Ignored(d).head = d.head
           /\ Ignored(d).own = d.own
           /\ Ignored(d).edited = d.edited
           /\ Ignored(d).now.manifest = d.now.manifest
           /\ Ignored(d).now.ignored = TRUE
<1> DEFINE a == Made(d)
           c == [a.now EXCEPT !.ignored = TRUE]
<1>1. a \in Directory /\ a.head = d.head /\ a.own = d.own /\ a.edited = d.edited
      /\ (a.is = "repo" <=> d.is = "repo") /\ a.now = d.now
  BY MadeType
<1>2. a.now \in Content
  BY <1>1, DirectoryType
<1>3. Ignored(d) = [a EXCEPT !.now.ignored = TRUE]
  BY DEF Ignored
<1> HIDE DEF a
<1>4. c \in Content /\ c.manifest = a.now.manifest
  BY <1>2 DEF Content
<1>5. c.ignored = TRUE
  BY <1>2 DEF Content
<1>6. Ignored(d) = [a EXCEPT !.now = c]
  BY <1>1, <1>3 DEF Directory
<1> HIDE DEF c
<1>7. /\ [a EXCEPT !.now = c] \in Directory
      /\ [a EXCEPT !.now = c].is = a.is
      /\ [a EXCEPT !.now = c].head = a.head
      /\ [a EXCEPT !.now = c].own = a.own
      /\ [a EXCEPT !.now = c].edited = a.edited
      /\ [a EXCEPT !.now = c].now = c
  BY <1>1, <1>4 DEF Directory
<1>8. Ignored(d).now.manifest = d.now.manifest /\ Ignored(d).now.ignored = TRUE
  BY <1>1, <1>4, <1>5, <1>6, <1>7
<1> QED
  BY <1>1, <1>6, <1>7, <1>8

\* What a tidy leaves of a member's directory.
TidiedFrom(m, d, e, places) ==
    /\ e.is = d.is /\ e.head = d.head /\ e.own = d.own /\ e.edited = d.edited
    /\ e.now.ignored = d.now.ignored
    /\ e.now.manifest \in Tidied(m, places)

LEMMA TidyType ==
    ASSUME repo \in [Member -> Directory], NEW places, Tidy(places)
    PROVE  /\ repo' \in [Member -> Directory]
           /\ \A m \in Member : TidiedFrom(m, repo[m], repo'[m], places)
<1>1. PICK manifest \in [Member -> NoManifest..MaxCommit] :
          /\ \A m \in Member : manifest[m] \in Tidied(m, places)
          /\ repo' = [m \in Member |-> [repo[m] EXCEPT !.now.manifest = manifest[m]]]
  BY DEF Tidy
<1>2. ASSUME NEW m \in Member
      PROVE  repo'[m] \in Directory /\ TidiedFrom(m, repo[m], repo'[m], places)
  <2> DEFINE d == repo[m]
             v == manifest[m]
             c == [d.now EXCEPT !.manifest = v]
  <2>1. d \in Directory /\ d.now \in Content
    BY DirectoryType
  <2>2. v \in NoManifest..MaxCommit /\ v \in Tidied(m, places)
    BY <1>1
  <2>3. repo'[m] = [d EXCEPT !.now.manifest = v]
    BY <1>1
  <2> HIDE DEF d, v
  <2>4. c \in Content /\ c.manifest = v /\ c.ignored = d.now.ignored
    BY <2>1, <2>2 DEF Content
  <2>5. repo'[m] = [d EXCEPT !.now = c]
    BY <2>1, <2>3 DEF Directory
  <2> HIDE DEF c
  <2>6. /\ [d EXCEPT !.now = c] \in Directory
        /\ [d EXCEPT !.now = c].is = d.is
        /\ [d EXCEPT !.now = c].head = d.head
        /\ [d EXCEPT !.now = c].own = d.own
        /\ [d EXCEPT !.now = c].edited = d.edited
        /\ [d EXCEPT !.now = c].now = c
    BY <2>1, <2>4 DEF Directory
  <2> QED
    BY <2>2, <2>4, <2>5, <2>6 DEF TidiedFrom, d
<1>3. repo' = [m \in Member |-> repo'[m]]
  BY <1>1
<1> QED
  BY <1>2, <1>3

-----------------------------------------------------------------------------
(* Types. *)

RepoOK == repo \in [Member -> Directory]
MainOK == main \in [Member -> Commit]
LockOK == lock \in [Place -> Revision \cup {"none", "tidied"}]
RootsOK == roots \in [Languages -> SUBSET Member]
JobOK == job \in Job
DoneOK == done \in Done \cup {Nobody}
CountsOK == counts \in [edits : 0..MaxEdits, verbs : 0..MaxVerbs, kills : 0..MaxKills]

TypeInv ==
    FileOK(file) /\ FileOK(loaded) /\ RepoOK /\ MainOK /\ LockOK /\ RootsOK /\ JobOK /\ DoneOK /\ CountsOK

LEMMA TypeInvType == TypeInv => TypeOK
BY DEF TypeInv, TypeOK, FileOK, RepoOK, MainOK, LockOK, RootsOK, JobOK, DoneOK, CountsOK

LEMMA IdleType ==
    ASSUME Revision # {}
    PROVE  Idle \in Job
<1>1. (CHOOSE r \in Revision : TRUE) \in Revision
  OBVIOUS
<1> DEFINE none == Declared(<<>>)
           some == CHOOSE r \in Revision : TRUE
<1>2. none \in [Languages -> 0..MaxCommit]
  BY DeclaredNothing
<1>3. Idle = [pc |-> "idle", verb |-> "sync", members |-> {}, declared |-> none,
              asked |-> {}, rev |-> some, todo |-> {}, looked |-> 0, changed |-> {},
              pruned |-> FALSE, alone |-> TRUE, ran |-> {}, held |-> {}]
  BY DEF Idle
<1> HIDE DEF none, some
<1>4. some \in Revision
  BY <1>1 DEF some
<1> QED
  BY <1>2, <1>3, <1>4, WorkspaceBounds DEF Job, Verbs

LEMMA CountsType ==
    ASSUME CountsOK
    PROVE  /\ counts.edits < MaxEdits => [counts EXCEPT !.edits = @ + 1] \in
                  [edits : 0..MaxEdits, verbs : 0..MaxVerbs, kills : 0..MaxKills]
           /\ counts.verbs < MaxVerbs => [counts EXCEPT !.verbs = @ + 1] \in
                  [edits : 0..MaxEdits, verbs : 0..MaxVerbs, kills : 0..MaxKills]
           /\ counts.kills < MaxKills => [counts EXCEPT !.kills = @ + 1] \in
                  [edits : 0..MaxEdits, verbs : 0..MaxVerbs, kills : 0..MaxKills]
           /\ counts.edits \in 0..MaxEdits
BY WorkspaceBounds DEF CountsOK

LEMMA ChangeType ==
    ASSUME TypeInv, NEW m \in Member, NEW d \in Directory, Change(d, m),
           UNCHANGED <<file, loaded, main, lock, roots>>
    PROVE  TypeInv'
<1>1. RepoOK'
  BY DEF TypeInv, RepoOK, Change
<1>2. CountsOK'
  BY CountsType DEF TypeInv, CountsOK, Change
<1>3. JobOK'
  <2>1. job \in Job
    BY DEF TypeInv, JobOK
  <2>2. [job EXCEPT !.alone = FALSE] \in Job
    BY <2>1 DEF Job
  <2>3. job' = job \/ job' = [job EXCEPT !.alone = FALSE]
    BY DEF Change
  <2> QED
    BY <2>1, <2>2, <2>3 DEF JobOK
<1>4. DoneOK'
  BY DEF Change, DoneOK
<1> QED
  BY <1>1, <1>2, <1>3, <1>4 DEF TypeInv, MainOK, LockOK, RootsOK


LEMMA PersonType ==
    ASSUME TypeInv, Person
    PROVE  TypeInv'
<1>1. ASSUME NEW m \in Member PROVE repo[m] \in Directory /\ main[m] \in 0..MaxCommit
  BY WorkspaceBounds DEF TypeInv, RepoOK, MainOK, Commit
<1>2. CASE EditMember
  <2>1. PICK m \in Member : /\ Change([repo[m] EXCEPT !.edited = TRUE], m)
                            /\ UNCHANGED <<file, loaded, main, lock, roots>>
    BY <1>2 DEF EditMember
  <2>2. [repo[m] EXCEPT !.edited = TRUE] \in Directory
    BY <1>1 DEF Directory
  <2> QED
    BY <2>1, <2>2, ChangeType
<1>3. CASE CommitMember
  <2>1. PICK m \in Member :
            /\ Change([repo[m] EXCEPT !.own = TRUE, !.edited = FALSE, !.kept = repo[m].now], m)
            /\ UNCHANGED <<file, loaded, main, lock, roots>>
    BY <1>3 DEF CommitMember
  <2>2. [repo[m] EXCEPT !.own = TRUE, !.edited = FALSE, !.kept = repo[m].now] \in Directory
    BY <1>1 DEF Directory
  <2> QED
    BY <2>1, <2>2, ChangeType
<1>4. CASE Pull
  <2>1. PICK m \in Member : /\ Change(Onto(m, main[m]), m)
                            /\ UNCHANGED <<file, loaded, main, lock, roots>>
    BY <1>4 DEF Pull
  <2>2. Onto(m, main[m]) \in Directory
    BY <1>1, OntoType DEF TypeInv, RepoOK
  <2> QED
    BY <2>1, <2>2, ChangeType
<1>5. CASE Push
  <2>1. PICK m \in Member :
            /\ main[m] < MaxCommit /\ counts.edits < MaxEdits
            /\ main' = [main EXCEPT ![m] = @ + 1]
            /\ counts' = [counts EXCEPT !.edits = @ + 1]
            /\ UNCHANGED <<file, loaded, repo, lock, roots, job, done>>
    BY <1>5 DEF Push
  <2>2. MainOK'
    BY <2>1, WorkspaceBounds DEF TypeInv, MainOK, Commit
  <2>3. CountsOK'
    BY <2>1, CountsType DEF TypeInv, CountsOK
  <2> QED
    BY <2>1, <2>2, <2>3 DEF TypeInv, RepoOK, LockOK, RootsOK, JobOK, DoneOK
<1>6. CASE Discard
  <2>1. PICK m \in Member : Change(NoDirectory, m) /\ UNCHANGED <<file, loaded, main, lock, roots>>
    BY <1>6 DEF Discard
  <2> QED
    BY <2>1, NoDirectoryType, ChangeType
<1>7. CASE EditFile
  <2>1. PICK f \in Files :
            /\ counts.edits < MaxEdits /\ file' = f
            /\ counts' = [counts EXCEPT !.edits = @ + 1]
            /\ UNCHANGED <<loaded, repo, main, lock, roots, job, done>>
    BY <1>7 DEF EditFile
  <2>2. FileOK(file')
    BY <2>1, WorkspaceAssumption DEF FileOK
  <2>3. CountsOK'
    BY <2>1, CountsType DEF TypeInv, CountsOK
  <2> QED
    BY <2>1, <2>2, <2>3 DEF TypeInv, RepoOK, MainOK, LockOK, RootsOK, JobOK, DoneOK
<1> QED
  BY <1>2, <1>3, <1>4, <1>5, <1>6, <1>7 DEF Person

LEMMA StartType ==
    ASSUME Revision # {}, TypeInv, NEW verb \in Verbs, NEW f, FileOK(f), Start(verb, f)
    PROVE  /\ FileOK(loaded)' /\ RepoOK' /\ MainOK' /\ LockOK' /\ RootsOK'
           /\ JobOK' /\ DoneOK' /\ CountsOK'
<1>1. CountsOK'
  BY CountsType DEF TypeInv, CountsOK, Start, MayStart
<1>2. JobOK'
  <2> DEFINE ms == MembersOf(f)
             ds == Declared(f)
             pc == CASE verb = "clone" -> "clone" [] verb = "checkout" -> "get" [] OTHER -> "envrc"
  <2>1. ms \in SUBSET Member /\ ds \in [Languages -> 0..MaxCommit] /\ Idle \in Job
    BY MembersType, DeclaredType, IdleType DEF FileOK
  <2>2. pc \in {"clone", "get", "envrc"}
    OBVIOUS
  <2>3. job' = [Idle EXCEPT !.verb = verb, !.members = ms, !.declared = ds, !.asked = ms,
                            !.todo = ms, !.pc = pc]
    BY DEF Start
  <2>4. ms \in SUBSET (Place \cup Languages)
    BY <2>1 DEF Place
  <2> HIDE DEF ms, ds, pc
  <2> QED
    BY <2>1, <2>2, <2>3, <2>4 DEF Job, JobOK
<1>3. DoneOK'
  BY DEF Start, DoneOK
<1> QED
  BY <1>1, <1>2, <1>3 DEF Start, TypeInv, RepoOK, MainOK, LockOK, RootsOK

LEMMA BeginType ==
    ASSUME Revision # {}, TypeInv, Begin
    PROVE  TypeInv'
<1>1. FileOK(file)
  BY DEF TypeInv
<1>2. ASSUME NEW verb \in Verbs, Start(verb, file), UNCHANGED file PROVE TypeInv'
  <2>1. FileOK(file)'
    BY <1>1, <1>2
  <2> QED
    BY <1>1, <1>2, <2>1, StartType DEF TypeInv
<1>3. CASE Clone \/ Sync \/ Checkout
  BY <1>2, <1>3 DEF Clone, Sync, Checkout, Verbs
<1>4. CASE Add
  <2>1. PICK m \in Member : CanAdd(file, m) /\ file' = Added(file, m) /\ Start("add", file')
    BY <1>4 DEF Add
  <2>2. FileOK(file')
    BY <1>1, <2>1, AddOK
  <2>3. "add" \in Verbs
    BY DEF Verbs
  <2> QED
    BY <2>1, <2>2, <2>3, StartType DEF TypeInv
<1>5. CASE Bump
  <2>1. PICK g \in Languages \cup {""}, v \in Commit :
            file' = Bumped(file, g, "lib", v) /\ Start("bump", file')
    BY <1>5 DEF Bump
  <2>2. FileOK(file')
    BY <1>1, <2>1, BumpOK
  <2>3. "bump" \in Verbs
    BY DEF Verbs
  <2> QED
    BY <2>1, <2>2, <2>3, StartType DEF TypeInv
<1> QED
  BY <1>3, <1>4, <1>5 DEF Begin


LEMMA StopType ==
    ASSUME Revision # {}, Stop
    PROVE  JobOK' /\ DoneOK'
BY IdleType DEF Stop, JobOK, DoneOK

LEMMA FailType ==
    ASSUME Revision # {}, TypeInv, Fail
    PROVE  TypeInv'
<1>1. JobOK' /\ DoneOK'
  BY StopType DEF Fail
<1> QED
  BY <1>1 DEF Fail, TypeInv, RepoOK, MainOK, LockOK, RootsOK, CountsOK

LEMMA SucceedType ==
    ASSUME Revision # {}, JobOK, NEW ran \in SUBSET Place, Succeed(ran)
    PROVE  JobOK' /\ DoneOK'
<1>1. JobOK'
  BY IdleType DEF Succeed, JobOK
<1>2. [verb |-> job.verb, members |-> job.members, declared |-> job.declared,
       asked |-> job.asked, rev |-> job.rev, ran |-> ran, held |-> job.held] \in Done
  BY DEF JobOK, Job, Done
<1>3. DoneOK'
  BY <1>2 DEF Succeed, DoneOK
<1> QED
  BY <1>1, <1>3

LEMMA GoesType ==
    ASSUME JobOK, NEW pc \in {"clone", "look", "restore", "envrc", "render", "ignore", "lock", "prune"},
           NEW todo \in SUBSET (Place \cup Languages), Goes(pc, todo)
    PROVE  JobOK'
BY DEF JobOK, Job, Goes

LEMMA DropType ==
    ASSUME JobOK, NEW x
    PROVE  [job EXCEPT !.todo = @ \ {x}] \in Job
BY DEF JobOK, Job

LEMMA QuietType ==
    ASSUME TypeInv, RepoOK', LockOK', RootsOK', JobOK', Quiet
    PROVE  TypeInv'
BY DEF TypeInv, Quiet, MainOK, DoneOK, CountsOK

\* What a member's directory becomes, wherever the member is.
LEMMA ReplaceType ==
    ASSUME RepoOK, NEW m, NEW d, m \in Member => d \in Directory, repo' = [repo EXCEPT ![m] = d]
    PROVE  RepoOK'
BY DEF RepoOK

LEMMA CloneType ==
    ASSUME Revision # {}, TypeInv, CloneMember \/ Cloned
    PROVE  TypeInv'
<1>1. CASE CloneMember
  <2>1. CASE Fail
    BY <2>1, FailType
  <2>2. CASE UNCHANGED repo /\ job' = [job EXCEPT !.todo = @ \ {First}]
             /\ UNCHANGED <<lock, roots>> /\ Quiet
    <3>1. JobOK'
      BY <2>2, DropType DEF TypeInv, JobOK
    <3> QED
      BY <2>2, <3>1, QuietType DEF TypeInv, RepoOK, LockOK, RootsOK
  <2>3. CASE /\ repo' = [repo EXCEPT ![First] = At(First, main[First])]
             /\ job' = [job EXCEPT !.todo = @ \ {First}]
             /\ UNCHANGED <<lock, roots>> /\ Quiet
    <3>1. JobOK'
      BY <2>3, DropType DEF TypeInv, JobOK
    <3>2. First \in Member => At(First, main[First]) \in Directory
      <4>1. First \in Member => main[First] \in 0..MaxCommit
        BY WorkspaceBounds DEF TypeInv, MainOK, Commit
      <4> QED
        BY <4>1, AtType
    <3>3. RepoOK'
      BY <2>3, <3>2, ReplaceType DEF TypeInv
    <3> QED
      BY <2>3, <3>1, <3>3, QuietType DEF TypeInv, LockOK, RootsOK
  <2> QED
    BY <1>1, <2>1, <2>2, <2>3 DEF CloneMember, CloneFails
<1>2. CASE Cloned
  <2>1. job.members \in SUBSET (Place \cup Languages)
    BY DEF TypeInv, JobOK, Job, Place
  <2>2. JobOK'
    BY <1>2, <2>1, GoesType DEF Cloned, TypeInv
  <2> QED
    BY <1>2, <2>2, QuietType DEF Cloned, TypeInv, RepoOK, LockOK, RootsOK
<1> QED
  BY <1>1, <1>2

LEMMA CheckoutType ==
    ASSUME Revision # {}, TypeInv, Get \/ Look \/ Move \/ List \/ Restore \/ Restored
    PROVE  TypeInv'
<1>1. JobOK /\ job \in Job
  BY DEF TypeInv, JobOK
<1>2. CASE Get
  <2>1. CASE Fail
    BY <2>1, FailType
  <2>2. ASSUME NEW r \in Revision,
               LET named == {m \in job.members : Proven[r][m] # 0}
               IN  job' = [job EXCEPT !.pc = "look", !.rev = r, !.asked = named, !.todo = named],
               UNCHANGED <<repo, lock, roots>>, Quiet
        PROVE  TypeInv'
    <3> DEFINE todo == {m \in job.members : Proven[r][m] # 0}
    <3>1. todo \in SUBSET (Place \cup Languages) /\ todo \in SUBSET Member
      BY <1>1 DEF Job, Place
    <3>2. JobOK'
      <4> HIDE DEF todo
      <4>1. job' = [job EXCEPT !.pc = "look", !.rev = r, !.asked = todo, !.todo = todo]
        BY <2>2 DEF todo
      <4> QED
        BY <1>1, <3>1, <4>1 DEF Job, JobOK
    <3> QED
      BY <2>2, <3>2, QuietType DEF TypeInv, RepoOK, LockOK, RootsOK
  <2> QED
    BY <1>2, <2>1, <2>2 DEF Get
<1>3. CASE Look
  <2>1. CASE Fail
    BY <2>1, FailType
  <2>2. CASE /\ job' = [job EXCEPT !.pc = "move", !.looked = counts.edits]
             /\ UNCHANGED <<repo, lock, roots>> /\ Quiet
    <3>1. counts.edits \in 0..MaxEdits
      BY CountsType DEF TypeInv
    <3>2. JobOK'
      BY <1>1, <2>2, <3>1 DEF JobOK, Job
    <3> QED
      BY <2>2, <3>2, QuietType DEF TypeInv, RepoOK, LockOK, RootsOK
  <2> QED
    BY <1>3, <2>1, <2>2 DEF Look
<1>4. CASE Move
  <2>1. CASE Fail
    BY <2>1, FailType
  <2>2. CASE /\ repo' = [repo EXCEPT ![First] = Onto(First, Proven[job.rev][First])]
             /\ job' = [job EXCEPT !.pc = "look", !.todo = @ \ {First}]
             /\ UNCHANGED <<lock, roots>> /\ Quiet
    <3>1. First \in Member => Proven[job.rev][First] \in 0..MaxCommit
      BY <1>1, WorkspaceAssumption DEF Job
    <3>2. First \in Member => Onto(First, Proven[job.rev][First]) \in Directory
      BY <3>1, OntoType DEF TypeInv, RepoOK
    <3>3. RepoOK'
      BY <2>2, <3>2, ReplaceType DEF TypeInv
    <3>4. JobOK'
      BY <1>1, <2>2 DEF JobOK, Job
    <3> QED
      BY <2>2, <3>3, <3>4, QuietType DEF TypeInv, LockOK, RootsOK
  <2> QED
    BY <1>4, <2>1, <2>2 DEF Move
<1>5. CASE List
  <2>1. CASE Fail
    BY <2>1, FailType
  <2>2. CASE Goes("restore", Closures[job.rev]) /\ UNCHANGED <<repo, lock, roots>> /\ Quiet
    <3>1. Closures[job.rev] \in SUBSET (Place \cup Languages)
      BY <1>1, WorkspaceAssumption DEF Job
    <3>2. JobOK'
      BY <1>1, <2>2, <3>1, GoesType
    <3> QED
      BY <2>2, <3>2, QuietType DEF TypeInv, RepoOK, LockOK, RootsOK
  <2> QED
    BY <1>5, <2>1, <2>2 DEF List
<1>6. CASE Restore
  <2>1. CASE Fail
    BY <2>1, FailType
  <2>2. ASSUME NEW l \in job.todo, NEW content, HashesTo(content),
               lock' = [lock EXCEPT ![l] = content],
               repo' = IF l \in Member THEN [repo EXCEPT ![l] = Made(@)] ELSE repo,
               job' = [job EXCEPT !.todo = @ \ {l}],
               UNCHANGED roots, Quiet
        PROVE  TypeInv'
    <3>1. content \in Revision
      BY <1>1, <2>2 DEF HashesTo, Job
    <3>2. LockOK'
      BY <2>2, <3>1 DEF TypeInv, LockOK
    <3>3. RepoOK'
      BY <2>2, MadeType DEF TypeInv, RepoOK
    <3>4. JobOK'
      BY <1>1, <2>2, DropType DEF JobOK
    <3> QED
      BY <2>2, <3>2, <3>3, <3>4, QuietType DEF TypeInv, RootsOK
  <2> QED
    BY <1>6, <2>1, <2>2 DEF Restore
<1>7. CASE Restored
  <2>1. job.members \in SUBSET (Place \cup Languages)
    BY <1>1 DEF Job, Place
  <2>2. JobOK'
    BY <1>1, <1>7, <2>1, GoesType DEF Restored
  <2> QED
    BY <1>7, <2>2, QuietType DEF Restored, TypeInv, RepoOK, LockOK, RootsOK
<1> QED
  BY <1>2, <1>3, <1>4, <1>5, <1>6, <1>7


LEMMA LockPlaceType ==
    ASSUME NEW m \in Member
    PROVE  LockPlace(m) \in Place
BY DEF LockPlace, Place

\* What a sync renders of a language.
LEMMA RenderedType ==
    ASSUME NEW members \in SUBSET Member, NEW g
    PROVE  /\ Speaking(members, g) \in SUBSET Member
           /\ Rendered(members, g) \in SUBSET Speaking(members, g)
BY DEF Speaking, Rendered

LEMMA SyncType ==
    ASSUME Revision # {}, TypeInv,
           Envrc \/ Render \/ Settle \/ Ignore \/ Lock \/ Prune
    PROVE  TypeInv'
<1>1. JobOK /\ job \in Job
  BY DEF TypeInv, JobOK
<1>2. CASE Envrc
  <2>1. CASE Goes("render", {Language[m] : m \in job.members}) /\ UNCHANGED repo
    <3>1. {Language[m] : m \in job.members} \in SUBSET (Place \cup Languages)
      BY <1>1 DEF Job, Languages
    <3>2. JobOK'
      BY <1>1, <2>1, <3>1, GoesType
    <3> QED
      BY <1>2, <2>1, <3>2, QuietType DEF Envrc, TypeInv, RepoOK, LockOK, RootsOK
  <2>2. CASE /\ repo' = [repo EXCEPT ![First] = [Made(@) EXCEPT !.envrc = TRUE]]
             /\ job' = [job EXCEPT !.todo = @ \ {First}]
    <3>1. JobOK'
      BY <1>1, <2>2, DropType DEF JobOK
    <3> DEFINE d == [Made(repo[First]) EXCEPT !.envrc = TRUE]
    <3>2. First \in Member => d \in Directory
      BY EnvrcType DEF TypeInv, RepoOK
    <3>3. repo' = [repo EXCEPT ![First] = d]
      BY <2>2
    <3>4. RepoOK'
      <4> HIDE DEF d
      <4> QED
        BY <3>2, <3>3, ReplaceType DEF TypeInv
    <3> QED
      BY <1>2, <3>1, <3>4, QuietType DEF Envrc, TypeInv, LockOK, RootsOK
  <2> QED
    BY <1>2, <2>1, <2>2 DEF Envrc
<1>3. CASE Render
  <2>1. CASE Fail
    BY <2>1, FailType
  <2>2. ASSUME ~Fail PROVE TypeInv'
    <3>1. PICK g \in job.todo :
              /\ repo' = [m \in Member |-> IF m \in Rendered(job.members, g)
                                           THEN Requiring(m, job.declared[g]) ELSE repo[m]]
              /\ roots' = IF EngineFor[g].root
                          THEN [roots EXCEPT ![g] = Speaking(job.members, g)] ELSE roots
              /\ \E moved \in SUBSET Member : \E held \in SUBSET Member :
                     job' = [job EXCEPT !.todo = @ \ {g},
                                        !.changed = @ \cup {LockPlace(m) : m \in moved},
                                        !.held = held]
              /\ UNCHANGED lock /\ Quiet
      <4>1. PICK g \in job.todo :
                LET listed == Speaking(job.members, g)
                    rendered == Rendered(job.members, g)
                    moved == IF EngineFor[g].root /\ roots[g] # listed THEN listed
                             ELSE {m \in rendered :
                                      repo[m].now.manifest # Required(m, job.declared[g])}
                IN  /\ Identified(job.members, g)
                    /\ repo' = [m \in Member |->
                           IF m \in rendered THEN Requiring(m, job.declared[g]) ELSE repo[m]]
                    /\ roots' = IF EngineFor[g].root THEN [roots EXCEPT ![g] = listed] ELSE roots
                    /\ job' = [job EXCEPT !.todo = @ \ {g},
                                          !.changed = @ \cup {LockPlace(m) : m \in moved},
                                          !.held = (@ \ rendered) \cup Holding(rendered)]
                    /\ UNCHANGED lock /\ Quiet
        BY <1>3, <2>2 DEF Render
      <4> DEFINE moved == IF EngineFor[g].root /\ roots[g] # Speaking(job.members, g)
                          THEN Speaking(job.members, g)
                          ELSE {m \in Rendered(job.members, g) :
                                    repo[m].now.manifest # Required(m, job.declared[g])}
                 held == (job.held \ Rendered(job.members, g))
                             \cup Holding(Rendered(job.members, g))
      <4>2. moved \in SUBSET Member /\ held \in SUBSET Member
        BY <1>1, RenderedType DEF Job, Holding
      <4>3. job' = [job EXCEPT !.todo = @ \ {g},
                               !.changed = @ \cup {LockPlace(m) : m \in moved},
                               !.held = held]
        BY <4>1
      <4> HIDE DEF moved, held
      <4>4. \E mv \in SUBSET Member : \E hd \in SUBSET Member :
                job' = [job EXCEPT !.todo = @ \ {g},
                                   !.changed = @ \cup {LockPlace(m) : m \in mv},
                                   !.held = hd]
        BY <4>2, <4>3
      <4> QED
        BY <4>1, <4>4
    <3>2. PICK moved \in SUBSET Member, held \in SUBSET Member :
              job' = [job EXCEPT !.todo = @ \ {g},
                                 !.changed = @ \cup {LockPlace(m) : m \in moved},
                                 !.held = held]
      BY <3>1
    <3>3. {LockPlace(m) : m \in moved} \in SUBSET Place
      BY LockPlaceType
    <3>4. JobOK'
      BY <1>1, <3>2, <3>3 DEF JobOK, Job
    <3>5. ASSUME NEW m \in Member, m \in Rendered(job.members, g)
          PROVE  Requiring(m, job.declared[g]) \in Directory
      <4>1. Language[m] = g
        BY <3>5 DEF Rendered, Speaking
      <4>2. job.declared[g] \in 0..MaxCommit
        BY <1>1, <4>1 DEF Job, Languages
      <4> QED
        BY <4>2, RequiringType DEF TypeInv, RepoOK
    <3>6. RepoOK'
      BY <3>1, <3>5 DEF TypeInv, RepoOK
    <3>7. Speaking(job.members, g) \in SUBSET Member
      BY <1>1, RenderedType DEF Job
    <3>8. RootsOK'
      BY <3>1, <3>7 DEF TypeInv, RootsOK
    <3> QED
      BY <3>1, <3>4, <3>6, <3>8, QuietType DEF TypeInv, LockOK
  <2> QED
    BY <2>1, <2>2
<1>4. CASE Settle
  <2>1. PICK places \in SUBSET job.changed :
            /\ Tidy(places)
            /\ job' = [job EXCEPT !.pc = "ignore", !.ran = @ \cup places,
                                  !.held = {m \in @ : repo'[m].now.manifest > 0}]
    BY <1>4 DEF Settle
  <2>2. LockOK'
    BY <2>1 DEF Tidy, TypeInv, LockOK
  <2>3. RepoOK'
    BY <2>1, TidyType DEF TypeInv, RepoOK
  <2>4. JobOK'
    <3> DEFINE held == {m \in job.held : repo'[m].now.manifest > 0}
    <3>1. held \in SUBSET Member /\ places \in SUBSET Place
      BY <1>1 DEF Job
    <3>2. job' = [job EXCEPT !.pc = "ignore", !.ran = @ \cup places, !.held = held]
      BY <2>1
    <3> HIDE DEF held
    <3> QED
      BY <1>1, <3>1, <3>2 DEF JobOK, Job
  <2> QED
    BY <1>4, <2>2, <2>3, <2>4, QuietType DEF Settle, TypeInv, RootsOK
<1>5. CASE Ignore
  <2>1. ASSUME NEW m \in Member PROVE Ignored(repo[m]) \in Directory /\ repo[m] \in Directory
    BY IgnoredType DEF TypeInv, RepoOK
  <2>2. repo' = [m \in Member |-> IF m \in job.members THEN Ignored(repo[m]) ELSE repo[m]]
    BY <1>5 DEF Ignore, Ignored
  <2>3. RepoOK'
    BY <2>1, <2>2 DEF RepoOK
  <2>4. JobOK' /\ DoneOK'
    <3>1. CASE Goes("lock", {}) /\ UNCHANGED done
      BY <1>1, <3>1, GoesType DEF TypeInv, DoneOK
    <3>2. CASE Succeed(job.ran)
      <4>1. job.ran \in SUBSET Place
        BY <1>1 DEF Job
      <4> QED
        BY <1>1, <3>2, <4>1, SucceedType
    <3>3. CASE Goes("prune", {}) /\ UNCHANGED done
      BY <1>1, <3>3, GoesType DEF TypeInv, DoneOK
    <3>4. CASE Stop
      BY <3>4, StopType
    <3> QED
      BY <1>5, <3>1, <3>2, <3>3, <3>4 DEF Ignore, Synced
  <2> QED
    BY <1>5, <2>3, <2>4 DEF Ignore, TypeInv, MainOK, LockOK, RootsOK, CountsOK
<1>6. CASE Lock
  <2>1. PICK places \in SUBSET {LockPlace(m) : m \in job.asked} :
            Tidy(places) /\ (Succeed(job.ran \cup places) \/ Stop)
    BY <1>6 DEF Lock
  <2>2. LockOK'
    BY <2>1 DEF Tidy, TypeInv, LockOK
  <2>3. RepoOK'
    BY <2>1, TidyType DEF TypeInv, RepoOK
  <2>4. JobOK' /\ DoneOK'
    <3>1. job.ran \cup places \in SUBSET Place
      BY <1>1, LockPlaceType DEF Job
    <3>2. CASE Succeed(job.ran \cup places)
      BY <1>1, <3>1, <3>2, SucceedType
    <3> QED
      BY <2>1, <3>2, StopType
  <2> QED
    BY <1>6, <2>2, <2>3, <2>4 DEF Lock, TypeInv, MainOK, RootsOK, CountsOK
<1>7. CASE Prune
  <2>1. CASE Fail
    BY <2>1, FailType
  <2>2. ASSUME NEW dead \in SUBSET Pins(loaded), CanPrune(file, dead), Resync(Pruned(file, dead))
        PROVE  TypeInv'
    <3>1. FileOK(Pruned(file, dead))
      BY <2>2, PruneOK DEF TypeInv
    <3> DEFINE f == Pruned(file, dead)
               ms == MembersOf(f)
               ds == Declared(f)
    <3>2. ms \in SUBSET Member /\ ds \in [Languages -> 0..MaxCommit]
      BY <3>1, MembersType, DeclaredType DEF FileOK
    <3>3. JobOK'
      <4>1. job' = [job EXCEPT !.pc = "envrc", !.members = ms, !.declared = ds, !.todo = ms,
                               !.changed = {}, !.pruned = TRUE]
        BY <2>2 DEF Resync
      <4> HIDE DEF ms, ds
      <4>2. ms \in SUBSET (Place \cup Languages)
        BY <3>2 DEF Place
      <4> QED
        BY <1>1, <3>2, <4>1, <4>2 DEF JobOK, Job
    <3> QED
      BY <2>2, <3>1, <3>3
         DEF Resync, TypeInv, RepoOK, MainOK, LockOK, RootsOK, DoneOK, CountsOK
  <2> QED
    BY <1>7, <2>1, <2>2 DEF Prune
<1> QED
  BY <1>2, <1>3, <1>4, <1>5, <1>6, <1>7

LEMMA KillType ==
    ASSUME Revision # {}, TypeInv, Kill
    PROVE  TypeInv'
<1>1. JobOK'
  BY IdleType DEF Kill, JobOK
<1>2. CountsOK'
  BY CountsType DEF Kill, TypeInv, CountsOK
<1>3. RepoOK'
  <2>1. CASE UNCHANGED repo
    BY <2>1 DEF TypeInv, RepoOK
  <2>2. CASE \E is \in {"none", "plain", "broken"} : repo' = [repo EXCEPT ![First].is = is]
    <3>1. PICK is \in {"none", "plain", "broken"} : repo' = [repo EXCEPT ![First].is = is]
      BY <2>2
    <3>2. First \in Member => [repo[First] EXCEPT !.is = is] \in Directory
      BY DEF TypeInv, RepoOK, Directory
    <3>3. repo' = [repo EXCEPT ![First] = [repo[First] EXCEPT !.is = is]]
      BY <3>1
    <3> QED
      BY <3>2, <3>3, ReplaceType DEF TypeInv
  <2> QED
    BY <2>1, <2>2 DEF Kill
<1> QED
  BY <1>1, <1>2, <1>3 DEF Kill, TypeInv, MainOK, LockOK, RootsOK, DoneOK

LEMMA TypeInit ==
    ASSUME Revision # {}, Init
    PROVE  TypeInv
<1>1. FileOK(file) /\ FileOK(loaded)
  BY WorkspaceAssumption DEF Init, FileOK
<1>2. MainOK
  BY DEF Init, MainOK
<1>3. RepoOK
  <2>1. PICK cloned \in SUBSET Member :
            repo = [m \in Member |-> IF m \in cloned THEN At(m, main[m]) ELSE NoDirectory]
    BY DEF Init
  <2>2. ASSUME NEW m \in Member PROVE At(m, main[m]) \in Directory
    <3>1. main[m] \in 0..MaxCommit
      BY <1>2, WorkspaceBounds DEF MainOK, Commit
    <3> QED
      BY <3>1, AtType
  <2> QED
    BY <2>1, <2>2, NoDirectoryType DEF RepoOK
<1>4. LockOK /\ RootsOK /\ DoneOK
  BY DEF Init, LockOK, RootsOK, DoneOK
<1>5. JobOK
  BY IdleType DEF Init, JobOK
<1>6. CountsOK
  BY WorkspaceBounds DEF Init, CountsOK
<1> QED
  BY <1>1, <1>2, <1>3, <1>4, <1>5, <1>6 DEF TypeInv

LEMMA TypeNext ==
    ASSUME Revision # {}, TypeInv, [Next]_vars
    PROVE  TypeInv'
<1>1. CASE UNCHANGED vars
  BY <1>1 DEF vars, TypeInv, RepoOK, MainOK, LockOK, RootsOK, JobOK, DoneOK, CountsOK
<1>2. CASE Step
  BY <1>2, CloneType, CheckoutType, SyncType DEF Step
<1> QED
  BY <1>1, <1>2, PersonType, BeginType, KillType DEF Next

LEMMA TypeInvHolds == ASSUME Revision # {} PROVE Spec => []TypeInv
<1>1. Init => TypeInv
  BY TypeInit
<1>2. TypeInv /\ [Next]_vars => TypeInv'
  BY TypeNext
<1> QED
  BY <1>1, <1>2, PTL DEF Spec

\* Every variable keeps its type, whatever edits the file and whichever verb is cut
\* short; the file stays valid.
THEOREM WorkspaceTyped == ASSUME Revision # {} PROVE Spec => []TypeOK
<1>1. Spec => []TypeInv
  BY TypeInvHolds
<1>2. TypeInv => TypeOK
  BY TypeInvType
<1> QED
  BY <1>1, <1>2, PTL


\* The members that hold on to the dependency once the language is rendered.
HeldAfter(g) ==
    (job.held \ Rendered(job.members, g)) \cup Holding(Rendered(job.members, g))

\* The step of a render that does not fail.
Renders(g) ==
    /\ job.pc = "render"
    /\ repo' = [m \in Member |-> IF m \in Rendered(job.members, g)
                                 THEN Requiring(m, job.declared[g]) ELSE repo[m]]
    /\ roots' = IF EngineFor[g].root THEN [roots EXCEPT ![g] = Speaking(job.members, g)] ELSE roots
    /\ \E changed : job' = [job EXCEPT !.todo = @ \ {g}, !.changed = changed,
                                       !.held = HeldAfter(g)]
    /\ UNCHANGED <<file, lock, done>>

LEMMA RenderRenders ==
    ASSUME Render, ~Fail
    PROVE  \E g \in job.todo : Renders(g)
<1> DEFINE Moved(g) == IF EngineFor[g].root /\ roots[g] # Speaking(job.members, g)
                       THEN Speaking(job.members, g)
                       ELSE {m \in Rendered(job.members, g) :
                                 repo[m].now.manifest # Required(m, job.declared[g])}
           Changed(g) == job.changed \cup {LockPlace(m) : m \in Moved(g)}
<1>1. PICK g \in job.todo :
          /\ repo' = [m \in Member |-> IF m \in Rendered(job.members, g)
                                       THEN Requiring(m, job.declared[g]) ELSE repo[m]]
          /\ roots' = IF EngineFor[g].root
                      THEN [roots EXCEPT ![g] = Speaking(job.members, g)] ELSE roots
          /\ job' = [job EXCEPT !.todo = @ \ {g}, !.changed = Changed(g), !.held = HeldAfter(g)]
          /\ UNCHANGED lock /\ Quiet
  BY DEF Render, HeldAfter
<1> HIDE DEF Changed
<1>2. \E changed : job' = [job EXCEPT !.todo = @ \ {g}, !.changed = changed,
                                     !.held = HeldAfter(g)]
  BY <1>1
<1> QED
  BY <1>1, <1>2 DEF Render, Renders, Quiet

-----------------------------------------------------------------------------
(* Work stays. *)

\* A directory with an edit is a repository, and the one that a checkout looked at
\* and is about to move has an edit only if the person made it since.
WorkInv ==
    /\ \A m \in Member : repo[m].edited => repo[m].is = "repo"
    /\ job.looked <= counts.edits
    /\ job.pc = "move" /\ repo[First].edited => counts.edits > job.looked

FirstOf(f, todo) == CHOOSE m \in todo : \E i \in ItemsOf(f) :
                        f[i].name = m /\ \A j \in ItemsOf(f) : f[j].name \in todo => i <= j

LEMMA FirstIsFirst == First = FirstOf(loaded, job.todo)
BY DEF First, FirstOf

LEMMA FirstStays ==
    ASSUME UNCHANGED loaded, job'.todo = job.todo
    PROVE  First' = First
<1>1. First' = FirstOf(loaded', job'.todo)
  BY DEF First, FirstOf
<1> QED
  BY <1>1, FirstIsFirst

\* What a verb does to a directory keeps the work in it.
KeepsWork(m) ==
    /\ repo'[m].edited = repo[m].edited
    /\ repo[m].is = "repo" => repo'[m].is = "repo"

LEMMA OneKeepsWork ==
    ASSUME RepoOK, NEW m, NEW d, repo' = [repo EXCEPT ![m] = d],
           m \in Member => d.edited = repo[m].edited /\ (repo[m].is = "repo" => d.is = "repo")
    PROVE  \A n \in Member : KeepsWork(n)
BY DEF RepoOK, KeepsWork

LEMMA VerbKeepsWork ==
    ASSUME TypeInv, WorkInv, Step \/ Begin \/ Kill
    PROVE  \A m \in Member : KeepsWork(m)
<1>1. RepoOK /\ \A m \in Member : repo[m] \in Directory
  BY DEF TypeInv, RepoOK
<1>2. CASE UNCHANGED repo
  BY <1>2 DEF KeepsWork
<1>3. CASE CloneMember /\ ~UNCHANGED repo
  <2>1. repo[First].is = "none" /\ repo' = [repo EXCEPT ![First] = At(First, main[First])]
    BY <1>3 DEF CloneMember, CloneFails, Fail
  <2>2. ASSUME First \in Member
        PROVE  At(First, main[First]).edited = repo[First].edited
    <3>1. repo[First].edited = FALSE
      <4>1. ~repo[First].edited
        BY <2>1, <2>2 DEF WorkInv
      <4> QED
        BY <1>1, <2>2, <4>1, DirectoryType
    <3>2. main[First] \in 0..MaxCommit
      BY <2>2, WorkspaceBounds DEF TypeInv, MainOK, Commit
    <3> QED
      BY <3>1, <3>2, AtType
  <2> QED
    BY <1>1, <2>1, <2>2, OneKeepsWork
<1>4. CASE Move /\ ~UNCHANGED repo
  <2>1. repo' = [repo EXCEPT ![First] = Onto(First, Proven[job.rev][First])]
    BY <1>4 DEF Move, Fail
  <2>2. ASSUME First \in Member
        PROVE  /\ Onto(First, Proven[job.rev][First]).edited = repo[First].edited
               /\ Onto(First, Proven[job.rev][First]).is = "repo"
    <3>1. Proven[job.rev][First] \in 0..MaxCommit
      BY <2>2, WorkspaceAssumption DEF TypeInv, JobOK, Job
    <3> QED
      BY <1>1, <2>2, <3>1, OntoType DEF RepoOK
  <2> QED
    BY <1>1, <2>1, <2>2, OneKeepsWork
<1>5. CASE Restore /\ ~UNCHANGED repo
  <2>1. PICK l \in job.todo : l \in Member /\ repo' = [repo EXCEPT ![l] = Made(@)]
    BY <1>5 DEF Restore, Fail
  <2>2. repo' = [repo EXCEPT ![l] = Made(repo[l])]
    BY <2>1
  <2>3. Made(repo[l]).edited = repo[l].edited /\ (repo[l].is = "repo" => Made(repo[l]).is = "repo")
    BY <1>1, <2>1, MadeType
  <2> QED
    BY <1>1, <2>2, <2>3, OneKeepsWork
<1>6. CASE Envrc /\ ~UNCHANGED repo
  <2> DEFINE d == [Made(repo[First]) EXCEPT !.envrc = TRUE]
  <2>1. repo' = [repo EXCEPT ![First] = d]
    BY <1>6 DEF Envrc
  <2>2. First \in Member => d.edited = repo[First].edited /\ (repo[First].is = "repo" => d.is = "repo")
    BY <1>1, EnvrcType
  <2> HIDE DEF d
  <2> QED
    BY <1>1, <2>1, <2>2, OneKeepsWork
<1>7. CASE Render /\ ~UNCHANGED repo
  <2>1. PICK g \in job.todo :
            repo' = [m \in Member |-> IF m \in Rendered(job.members, g)
                                      THEN Requiring(m, job.declared[g]) ELSE repo[m]]
    BY <1>7 DEF Render, Fail
  <2>2. ASSUME NEW m \in Member, m \in Rendered(job.members, g)
        PROVE  /\ Requiring(m, job.declared[g]).edited = repo[m].edited
               /\ repo[m].is = "repo" => Requiring(m, job.declared[g]).is = "repo"
    <3>1. Language[m] = g
      BY <2>2 DEF Rendered, Speaking
    <3>2. job.declared[g] \in 0..MaxCommit
      BY <3>1 DEF TypeInv, JobOK, Job, Languages
    <3> QED
      BY <1>1, <3>2, RequiringType DEF RepoOK
  <2> QED
    BY <2>1, <2>2 DEF KeepsWork
<1>8. CASE Ignore
  <2>1. repo' = [m \in Member |-> IF m \in job.members THEN Ignored(repo[m]) ELSE repo[m]]
    BY <1>8 DEF Ignore, Ignored
  <2>2. \A m \in Member : /\ Ignored(repo[m]).edited = repo[m].edited
                          /\ repo[m].is = "repo" => Ignored(repo[m]).is = "repo"
    BY <1>1, IgnoredType
  <2> QED
    BY <2>1, <2>2 DEF KeepsWork
<1>9. CASE Kill /\ ~UNCHANGED repo
  <2>1. /\ repo[First].is = "none"
        /\ \E is \in {"none", "plain", "broken"} : repo' = [repo EXCEPT ![First].is = is]
    BY <1>9 DEF Kill
  <2>2. PICK is \in {"none", "plain", "broken"} :
            repo' = [repo EXCEPT ![First] = [repo[First] EXCEPT !.is = is]]
    BY <2>1
  <2>3. First \in Member => [repo[First] EXCEPT !.is = is].edited = repo[First].edited
    BY <1>1 DEF Directory
  <2> QED
    BY <1>1, <2>1, <2>2, <2>3, OneKeepsWork
<1>10. CASE Cloned \/ Get \/ Look \/ List \/ Restored \/ Prune
  BY <1>2, <1>10 DEF Cloned, Get, Look, List, Restored, Prune, Resync, Fail
<1>12. CASE Settle \/ Lock
  <2>1. \E places : Tidy(places)
    BY <1>12 DEF Settle, Lock
  <2> QED
    BY <1>1, <2>1, TidyType DEF RepoOK, TidiedFrom, KeepsWork
<1>11. CASE Begin
  BY <1>2, <1>11 DEF Begin, Clone, Sync, Checkout, Add, Bump, Start
<1> QED
  BY <1>2, <1>3, <1>4, <1>5, <1>6, <1>7, <1>8, <1>9, <1>10, <1>11, <1>12 DEF Step


\* When a checkout is about to move a member, it has looked at it, and the counter
\* of changes says what the person did since.
LEMMA MoveTurns ==
    ASSUME TypeInv, Next
    PROVE  /\ job'.looked \in {0, job.looked, counts.edits}
           /\ job'.pc = "move" =>
                  /\ UNCHANGED loaded /\ job'.todo = job.todo
                  /\ \/ Look /\ ~Dirty(First) /\ job'.looked = counts.edits
                        /\ UNCHANGED <<repo, counts>>
                     \/ job.pc = "move" /\ Person /\ job'.looked = job.looked
<1>1. job \in Job
  BY DEF TypeInv, JobOK
<1>2. CASE job' = Idle
  BY <1>2 DEF Idle
<1>3. CASE Person
  <2>1. job' = job \/ job' = [job EXCEPT !.alone = FALSE]
    BY <1>3 DEF Person, EditMember, CommitMember, Pull, Push, Discard, EditFile, Change
  <2>2. job'.pc = job.pc /\ job'.todo = job.todo /\ job'.looked = job.looked
    BY <1>1, <2>1 DEF Job
  <2>3. UNCHANGED loaded
    BY <1>3 DEF Person, EditMember, CommitMember, Pull, Push, Discard, EditFile
  <2> QED
    BY <1>3, <2>2, <2>3
<1>4. CASE Begin
  <2>1. \E verb \in Verbs : \E f : Start(verb, f)
    BY <1>4 DEF Begin, Clone, Sync, Checkout, Add, Bump, Verbs
  <2>2. job'.looked = 0 /\ job'.pc # "move"
    BY <2>1 DEF Start, Idle
  <2> QED
    BY <2>2
<1>5. CASE Kill
  BY <1>2, <1>5 DEF Kill
<1>7. CASE Look /\ job' # Idle
  <2>1. job' = [job EXCEPT !.pc = "move", !.looked = counts.edits]
    BY <1>7 DEF Look, Fail, Stop
  <2>2. ~Dirty(First) /\ UNCHANGED <<repo, counts, loaded>>
    BY <1>7 DEF Look, LooksClean, Quiet, Fail, Stop
  <2>3. job'.todo = job.todo /\ job'.looked = counts.edits
    BY <1>1, <2>1 DEF Job
  <2> QED
    BY <1>7, <2>2, <2>3
<1>8. CASE Step /\ ~Look /\ job' # Idle
  <2>0. ~Fail /\ ~Stop /\ \A ran : ~Succeed(ran)
    BY <1>8 DEF Fail, Stop, Succeed
  <2>1. CASE CloneMember
    <3>1. job' = [job EXCEPT !.todo = @ \ {First}] /\ job.pc = "clone"
      BY <2>0, <2>1 DEF CloneMember, CloneFails
    <3> QED
      BY <1>1, <3>1 DEF Job
  <2>2. CASE Get
    <3>1. \E rev, asked : job' = [job EXCEPT !.pc = "look", !.rev = rev, !.asked = asked,
                                             !.todo = asked]
      BY <2>0, <2>2 DEF Get
    <3> QED
      BY <1>1, <3>1 DEF Job
  <2>3. CASE Move
    <3>1. job' = [job EXCEPT !.pc = "look", !.todo = @ \ {First}]
      BY <2>0, <2>3 DEF Move
    <3> QED
      BY <1>1, <3>1 DEF Job
  <2>4. CASE Restore
    <3>1. job.pc = "restore" /\ \E l \in job.todo : job' = [job EXCEPT !.todo = @ \ {l}]
      BY <2>0, <2>4 DEF Restore
    <3> QED
      BY <1>1, <3>1 DEF Job
  <2>5. CASE Cloned \/ List \/ Restored
    <3>1. \E pc \in {"envrc", "restore"} : \E todo : Goes(pc, todo)
      BY <2>0, <2>5 DEF Cloned, List, Restored
    <3> QED
      BY <1>1, <3>1 DEF Goes, Job
  <2>10. CASE Settle
    <3>1. \E ran, held : job' = [job EXCEPT !.pc = "ignore", !.ran = ran, !.held = held]
      BY <2>10 DEF Settle
    <3> QED
      BY <1>1, <3>1 DEF Job
  <2>6. CASE Envrc
    <3>1. job.pc = "envrc" /\ ((\E todo : Goes("render", todo)) \/ job' = [job EXCEPT !.todo = @ \ {First}])
      BY <2>6 DEF Envrc
    <3> QED
      BY <1>1, <3>1 DEF Goes, Job
  <2>7. CASE Render
    <3>1. PICK g \in job.todo : Renders(g)
      BY <2>0, <2>7, RenderRenders
    <3> QED
      BY <1>1, <3>1 DEF Job, Renders
  <2>8. CASE Ignore
    <3>1. \E pc \in {"lock", "prune"} : \E todo : Goes(pc, todo)
      BY <2>0, <2>8 DEF Ignore, Synced
    <3> QED
      BY <1>1, <3>1 DEF Goes, Job
  <2>9. CASE Prune
    <3>1. \E members, declared, todo :
              job' = [job EXCEPT !.pc = "envrc", !.members = members, !.declared = declared,
                                 !.todo = todo, !.changed = {}, !.pruned = TRUE]
      BY <2>0, <2>9 DEF Prune, Resync
    <3> QED
      BY <1>1, <3>1 DEF Job
  <2> QED
    BY <1>8, <2>0, <2>1, <2>2, <2>3, <2>4, <2>5, <2>6, <2>7, <2>8, <2>9, <2>10 DEF Step, Lock
<1> QED
  BY <1>2, <1>3, <1>4, <1>5, <1>7, <1>8 DEF Next

\* A person's change is counted, and leaves an edit only in a repository.
LEMMA PersonWorks ==
    ASSUME TypeInv, Person
    PROVE  /\ counts'.edits > counts.edits
           /\ \A m \in Member : repo'[m].edited => repo'[m].is = "repo" \/ UNCHANGED <<repo[m]>>
           /\ \A m \in Member : repo[m].edited /\ repo'[m].head # repo[m].head
                                    => repo[m].is # "repo"
<1>1. RepoOK /\ \A m \in Member : repo[m] \in Directory
  BY DEF TypeInv, RepoOK
<1>2. counts.edits \in Int
  BY CountsType DEF TypeInv
<1>3. counts' = [counts EXCEPT !.edits = @ + 1]
  BY DEF Person, EditMember, CommitMember, Pull, Push, Discard, EditFile, Change
<1>4. counts'.edits > counts.edits
  BY <1>2, <1>3 DEF TypeInv, CountsOK
<1> DEFINE One(m, d) == repo' = [repo EXCEPT ![m] = d]
<1>5. ASSUME NEW m \in Member, NEW d, One(m, d), d.edited => d.is = "repo",
             repo[m].edited /\ d.head # repo[m].head => repo[m].is # "repo"
      PROVE  /\ \A n \in Member : repo'[n].edited => repo'[n].is = "repo" \/ UNCHANGED <<repo[n]>>
             /\ \A n \in Member : repo[n].edited /\ repo'[n].head # repo[n].head
                                    => repo[n].is # "repo"
  BY <1>1, <1>5 DEF RepoOK
<1>6. CASE EditMember
  <2> PICK m \in Member : One(m, [repo[m] EXCEPT !.edited = TRUE]) /\ repo[m].is = "repo"
    BY <1>6 DEF EditMember, Change
  <2> DEFINE d == [repo[m] EXCEPT !.edited = TRUE]
  <2>1. d.is = "repo" /\ d.head = repo[m].head
    BY <1>1 DEF Directory
  <2> HIDE DEF d
  <2>2. One(m, d)
    BY DEF d
  <2> QED
    BY <1>4, <1>5, <2>1, <2>2
<1>7. CASE CommitMember
  <2> PICK m \in Member :
          /\ One(m, [repo[m] EXCEPT !.own = TRUE, !.edited = FALSE, !.kept = repo[m].now])
          /\ repo[m].is = "repo"
    BY <1>7 DEF CommitMember, Change
  <2> DEFINE d == [repo[m] EXCEPT !.own = TRUE, !.edited = FALSE, !.kept = repo[m].now]
  <2>1. d.is = "repo" /\ d.head = repo[m].head
    BY <1>1 DEF Directory
  <2> HIDE DEF d
  <2>2. One(m, d)
    BY DEF d
  <2> QED
    BY <1>4, <1>5, <2>1, <2>2
<1>8. CASE Pull
  <2> PICK m \in Member : One(m, Onto(m, main[m])) /\ ~Dirty(m)
    BY <1>8 DEF Pull, Change
  <2>1. main[m] \in 0..MaxCommit
    BY WorkspaceBounds DEF TypeInv, MainOK, Commit
  <2>2. Onto(m, main[m]).is = "repo"
    BY <1>1, <2>1, OntoType DEF RepoOK
  <2>3. ~repo[m].edited
    BY DEF Dirty
  <2> QED
    BY <1>4, <1>5, <2>2, <2>3
<1>9. CASE Discard
  <2> PICK m \in Member : One(m, NoDirectory) /\ repo[m].is \in {"plain", "broken"}
    BY <1>9 DEF Discard, Change
  <2>1. ~NoDirectory.edited
    BY NoDirectoryFields
  <2> QED
    BY <1>4, <1>5, <2>1
<1>10. CASE Push \/ EditFile
  BY <1>4, <1>10 DEF Push, EditFile
<1> QED
  BY <1>6, <1>7, <1>8, <1>9, <1>10 DEF Person


LEMMA WorkInit ==
    ASSUME Init
    PROVE  WorkInv
<1>1. PICK cloned \in SUBSET Member :
          repo = [m \in Member |-> IF m \in cloned THEN At(m, main[m]) ELSE NoDirectory]
  BY DEF Init
<1>2. \A m \in Member : main[m] \in 0..MaxCommit
  BY WorkspaceBounds DEF Init, Commit
<1>3. ~NoDirectory.edited /\ \A m \in Member : At(m, main[m]).is = "repo"
  BY <1>2, NoDirectoryFields, AtType
<1>4. \A m \in Member : repo[m].edited => repo[m].is = "repo"
  BY <1>1, <1>3
<1>5. job.looked = 0 /\ counts.edits = 0 /\ job.pc = "idle"
  BY DEF Init, Idle
<1> QED
  BY <1>4, <1>5 DEF WorkInv

LEMMA LookedType ==
    ASSUME TypeInv
    PROVE  job.looked \in Nat /\ counts.edits \in Nat
<1>1. job.looked \in 0..MaxEdits /\ counts.edits \in 0..MaxEdits
  BY CountsType DEF TypeInv, JobOK, Job
<1> QED
  BY <1>1, WorkspaceBounds

LEMMA CountsGrow ==
    ASSUME TypeInv, Next
    PROVE  counts'.edits \in Nat /\ counts'.edits >= counts.edits
<1>1. counts \in [edits : 0..MaxEdits, verbs : 0..MaxVerbs, kills : 0..MaxKills]
  BY DEF TypeInv, CountsOK
<1>2. \/ counts' = counts
      \/ counts' = [counts EXCEPT !.edits = @ + 1]
      \/ counts' = [counts EXCEPT !.verbs = @ + 1]
      \/ counts' = [counts EXCEPT !.kills = @ + 1]
  <2>1. CASE Person
    BY <2>1 DEF Person, EditMember, CommitMember, Pull, Push, Discard, EditFile, Change
  <2>2. CASE Begin
    BY <2>2 DEF Begin, Clone, Sync, Checkout, Add, Bump, Start
  <2>3. CASE Step
    BY <2>3 DEF Step, CloneMember, CloneFails, Cloned, Get, Look, Move, List, Restore, Restored,
                Envrc, Render, Settle, Ignore, Lock, Prune, Resync, Quiet, Fail
  <2>4. CASE Kill
    BY <2>4 DEF Kill
  <2> QED
    BY <2>1, <2>2, <2>3, <2>4 DEF Next
<1> QED
  BY <1>1, <1>2

LEMMA WorkNext ==
    ASSUME TypeInv, WorkInv, [Next]_vars
    PROVE  WorkInv'
<1>1. CASE UNCHANGED vars
  <2>1. First' = First
    BY <1>1, FirstStays DEF vars
  <2> QED
    BY <1>1, <2>1 DEF vars, WorkInv
<1>2. CASE Next
  <2>1. \A m \in Member : repo'[m].edited => repo'[m].is = "repo"
    <3>1. CASE Person
      BY <3>1, PersonWorks DEF WorkInv
    <3>2. CASE Step \/ Begin \/ Kill
      <4>1. \A m \in Member : KeepsWork(m)
        BY <3>2, VerbKeepsWork
      <4>2. \A m \in Member : /\ repo'[m].edited <=> repo[m].edited
                              /\ repo[m].is = "repo" => repo'[m].is = "repo"
        BY <4>1 DEF KeepsWork
      <4> QED
        BY <4>2 DEF WorkInv
    <3> QED
      BY <1>2, <3>1, <3>2 DEF Next
  <2>2. job'.looked <= counts'.edits
    <3>1. job'.looked \in {0, job.looked, counts.edits}
      BY <1>2, MoveTurns
    <3>2. /\ job.looked \in Nat /\ counts.edits \in Nat /\ counts'.edits \in Nat
          /\ counts'.edits >= counts.edits /\ job.looked <= counts.edits
      BY <1>2, LookedType, CountsGrow DEF WorkInv
    <3> QED
      BY <3>1, <3>2
  <2>3. ASSUME job'.pc = "move", repo'[First'].edited PROVE counts'.edits > job'.looked
    <3>1. First' = First
      BY <1>2, <2>3, MoveTurns, FirstStays
    <3>2. CASE Look /\ ~Dirty(First) /\ UNCHANGED <<repo, counts>>
      BY <2>3, <3>1, <3>2 DEF Dirty
    <3>3. CASE Person /\ job'.looked = job.looked
      <4>1. counts'.edits > counts.edits /\ counts.edits >= job.looked
        BY <3>3, PersonWorks, LookedType DEF WorkInv
      <4> QED
        BY <1>2, <3>3, <4>1, LookedType, CountsGrow
    <3> QED
      BY <1>2, <2>3, <3>2, <3>3, MoveTurns
  <2> QED
    BY <2>1, <2>2, <2>3 DEF WorkInv
<1> QED
  BY <1>1, <1>2

\* Only a checkout changes where a member's directory is, of those it has looked at.
LEMMA OnlyMoveMoves ==
    ASSUME TypeInv, job.pc = "move", Step \/ Begin \/ Kill, NEW m \in Member, repo'[m] # repo[m]
    PROVE  m = First
<1>1. Move \/ UNCHANGED repo
  BY DEF Step, CloneMember, Cloned, Get, Look, List, Restore, Restored, Envrc, Render, Settle,
         Ignore, Lock, Prune, Begin, Clone, Sync, Checkout, Add, Bump, Start, MayStart, Kill
<1>2. UNCHANGED repo \/ \E d : repo' = [repo EXCEPT ![First] = d]
  BY <1>1 DEF Move, Fail
<1> QED
  BY <1>2 DEF TypeInv, RepoOK

LEMMA WorkStep ==
    ASSUME TypeInv, WorkInv, Next, NEW m \in Member, repo[m].edited
    PROVE  /\ repo'[m].edited \/ counts'.edits > counts.edits
           /\ job.pc = "move" /\ repo'[m].head # repo[m].head => counts.edits > job.looked
<1>1. CASE Person
  <2>1. counts'.edits > counts.edits
    BY <1>1, PersonWorks
  <2>2. repo'[m].head = repo[m].head
    BY <1>1, PersonWorks DEF WorkInv
  <2> QED
    BY <2>1, <2>2
<1>2. CASE Step \/ Begin \/ Kill
  <2>1. KeepsWork(m)
    BY <1>2, VerbKeepsWork
  <2>2. repo'[m].edited
    BY <2>1 DEF KeepsWork
  <2>3. ASSUME job.pc = "move", repo'[m].head # repo[m].head PROVE counts.edits > job.looked
    <3>1. m = First
      BY <1>2, <2>3, OnlyMoveMoves
    <3> QED
      BY <2>3, <3>1 DEF WorkInv
  <2> QED
    BY <2>2, <2>3
<1> QED
  BY <1>1, <1>2 DEF Next

\* Whatever verbs run and wherever they are cut short, nobody but the person gives
\* up an uncommitted edit; a checkout moves a member that has one only if the edit
\* was made between its look at git status and git checkout.
THEOREM NobodyLosesWork == ASSUME Revision # {} PROVE Spec => WorkStays
<1>1. Spec => []TypeInv
  BY TypeInvHolds
<1>2. Init => WorkInv
  BY WorkInit
<1>3. TypeInv /\ WorkInv /\ [Next]_vars => WorkInv'
  BY WorkNext
<1>4. TypeInv /\ WorkInv /\ [Next]_vars =>
          [\A m \in Member : repo[m].edited =>
              /\ repo'[m].edited \/ counts'.edits > counts.edits
              /\ job.pc = "move" /\ repo'[m].head # repo[m].head => counts.edits > job.looked]_vars
  BY WorkStep
<1> QED
  BY <1>1, <1>2, <1>3, <1>4, PTL DEF Spec, WorkStays


-----------------------------------------------------------------------------
(* What a verb that succeeded left. *)

Spoken(members) == {Language[m] : m \in members}

\* In these directories and lists, a language of the members is as declared, when the
\* lock commands of these places ran and these members hold on to the dependency.
SettledIn(dirs, lists, members, declared, ran, held, g) ==
    /\ \A m \in Rendered(members, g) :
           /\ Suits(dirs[m].now.manifest, g, declared[g], m \in ran, m \in held)
           /\ EngineFor[g].merged /\ m \in held => dirs[m].now.manifest > 0
    /\ EngineFor[g].root => lists[g] = Speaking(members, g)

\* A verb is over, or it has nothing to show yet.
Busy == job.pc # "idle" => done = Nobody

\* How far a sync that no person disturbed has come.
SyncJob ==
    job.alone =>
        /\ job.pc = "render" => \A g \in Spoken(job.members) \ job.todo :
               SettledIn(repo, roots, job.members, job.declared, job.ran, job.held, g)
        /\ job.pc \in {"ignore", "lock", "prune"} => \A g \in Spoken(job.members) :
               SettledIn(repo, roots, job.members, job.declared, job.ran, job.held, g)
        /\ job.pc \in {"lock", "prune"} => \A m \in job.members : repo[m].now.ignored

SyncInv == Busy /\ SyncJob /\ SyncedAsDeclared

\* A change that leaves the members' directories alone, and what runs.
Elsewhere == Push \/ EditFile

\* A bump that has locked.
Locked(places) ==
    /\ job.pc = "lock" /\ Tidy(places) /\ Succeed(job.ran \cup places)
    /\ UNCHANGED <<file, roots>>

\* What there is to show changes when a verb starts or succeeds, or a person steps in.
LEMMA DoneTurns ==
    ASSUME TypeInv, Busy, Next
    PROVE  \/ done' = Nobody
           \/ Elsewhere
           \/ Ignore /\ Succeed(job.ran)
           \/ \E places \in SUBSET Place : Locked(places)
<1>1. CASE Person
  <2>2. CASE EditMember \/ CommitMember \/ Pull \/ Discard
    BY <2>2 DEF EditMember, CommitMember, Pull, Discard, Change
  <2> QED
    BY <1>1, <2>2 DEF Person, Elsewhere
<1>2. CASE Begin
  BY <1>2 DEF Begin, Clone, Sync, Checkout, Add, Bump, Start
<1>3. CASE Kill
  BY <1>3 DEF Kill, Busy
<1>4. CASE Stop
  BY <1>4 DEF Stop
<1>5. CASE Step /\ UNCHANGED done
  <2>1. job.pc # "idle"
    BY <1>5 DEF Step, CloneMember, Cloned, Get, Look, Move, List, Restore, Restored, Envrc,
                Render, Settle, Ignore, Lock, Prune
  <2> QED
    BY <1>5, <2>1 DEF Busy
<1>6. CASE Step /\ ~Stop /\ ~UNCHANGED done
  <2>1. ~Fail
    BY <1>6 DEF Fail
  <2>2. Ignore \/ Lock
    BY <1>6, <2>1 DEF Step, CloneMember, CloneFails, Cloned, Get, Look, Move, List, Restore, Restored,
                Envrc, Render, Settle, Prune, Resync, Quiet
  <2>3. CASE Ignore
    BY <1>6, <2>3 DEF Ignore, Synced
  <2>4. CASE Lock
    <3>1. PICK places \in SUBSET {LockPlace(m) : m \in job.asked} :
              Tidy(places) /\ Succeed(job.ran \cup places)
      BY <1>6, <2>4 DEF Lock
    <3>2. job.asked \in SUBSET Member
      BY DEF TypeInv, JobOK, Job
    <3>3. places \in SUBSET Place
      BY <3>2, LockPlaceType
    <3> QED
      BY <2>4, <3>1, <3>3 DEF Locked, Lock
  <2> QED
    BY <2>2, <2>3, <2>4
<1> QED
  BY <1>1, <1>2, <1>3, <1>4, <1>5, <1>6 DEF Next

LEMMA BusyNext ==
    ASSUME TypeInv, Busy, [Next]_vars
    PROVE  Busy'
<1>1. CASE UNCHANGED vars
  BY <1>1 DEF vars, Busy
<1>2. CASE Next
  <2>1. CASE Elsewhere
    BY <2>1 DEF Elsewhere, Push, EditFile, Busy
  <2>2. CASE (Ignore /\ Succeed(job.ran)) \/ \E places \in SUBSET Place : Locked(places)
    <3>1. job' = Idle
      BY <2>2 DEF Locked, Succeed
    <3> QED
      BY <3>1 DEF Idle, Busy
  <2> QED
    BY <1>2, <2>1, <2>2, DoneTurns DEF Busy
<1> QED
  BY <1>1, <1>2

\* What an engine that has the revision answers.
GetsRevision(r) ==
    /\ job.pc = "get" /\ UNCHANGED <<repo, lock>>
    /\ \E asked : /\ asked = {m \in job.members : Proven[r][m] # 0}
                  /\ job' = [job EXCEPT !.pc = "look", !.rev = r, !.asked = asked, !.todo = asked]

LEMMA GetTurns ==
    ASSUME Get, ~Fail
    PROVE  \E r \in Revision : GetsRevision(r)
<1>1. PICK r \in Revision :
          /\ LET named == {m \in job.members : Proven[r][m] # 0}
             IN  job' = [job EXCEPT !.pc = "look", !.rev = r, !.asked = named, !.todo = named]
          /\ UNCHANGED <<repo, lock>>
  BY DEF Get
<1> DEFINE named == {m \in job.members : Proven[r][m] # 0}
<1>2. job' = [job EXCEPT !.pc = "look", !.rev = r, !.asked = named, !.todo = named]
  BY <1>1
<1>3. named = {m \in job.members : Proven[r][m] # 0}
  OBVIOUS
<1> HIDE DEF named
<1> QED
  BY <1>1, <1>2, <1>3 DEF Get, GetsRevision

\* A prune takes the verb back to the start of its sync.
LEMMA PruneTurns ==
    ASSUME job \in Job, Prune, ~Fail
    PROVE  /\ job.pc = "prune" /\ UNCHANGED <<repo, lock>>
           /\ job'.pc = "envrc" /\ job'.verb = job.verb /\ job'.alone = job.alone
           /\ job'.asked = job.asked /\ job'.rev = job.rev /\ job'.ran = job.ran
<1>1. PICK f : Resync(f)
  BY DEF Prune
<1> DEFINE ms == MembersOf(f)
           ds == Declared(f)
<1>2. job' = [job EXCEPT !.pc = "envrc", !.members = ms, !.declared = ds,
                         !.todo = ms, !.changed = {}, !.pruned = TRUE]
  BY <1>1 DEF Resync
<1> HIDE DEF ms, ds
<1> QED
  BY <1>1, <1>2 DEF Job, Prune, Resync

\* The steps that lead to the phases of a sync, when nobody else does.
LEMMA SyncTurns ==
    ASSUME TypeInv, Next, job'.alone, job'.pc \in {"render", "ignore", "lock", "prune"}
    PROVE  \/ UNCHANGED <<repo, roots, lock, job>>
           \/ Envrc /\ Goes("render", Spoken(job.members)) /\ UNCHANGED <<repo, lock, roots>>
           \/ Render /\ ~Fail
           \/ Settle
           \/ Ignore /\ \E pc \in {"lock", "prune"} : Goes(pc, {})
<1>1. job \in Job
  BY DEF TypeInv, JobOK
<1>2. job' # Idle
  BY DEF Idle
<1>3. ~Fail /\ ~Stop /\ ~Kill /\ \A ran : ~Succeed(ran)
  BY <1>2 DEF Fail, Stop, Succeed, Kill
<1>4. CASE Person
  <2>1. CASE Elsewhere
    BY <2>1 DEF Elsewhere, Push, EditFile
  <2>2. CASE EditMember \/ CommitMember \/ Pull \/ Discard
    <3>1. job' = IF job.pc = "idle" THEN job ELSE [job EXCEPT !.alone = FALSE]
      BY <2>2 DEF EditMember, CommitMember, Pull, Discard, Change
    <3>2. CASE job.pc = "idle"
      BY <3>1, <3>2
    <3>3. CASE job.pc # "idle"
      <4>1. ~[job EXCEPT !.alone = FALSE].alone
        BY <1>1 DEF Job
      <4> QED
        BY <3>1, <3>3, <4>1
    <3> QED
      BY <3>2, <3>3
  <2> QED
    BY <1>4, <2>1, <2>2 DEF Person, Elsewhere
<1>5. CASE Begin
  <2>1. \E verb \in Verbs : \E f : Start(verb, f)
    BY <1>5 DEF Begin, Clone, Sync, Checkout, Add, Bump, Verbs
  <2>2. job'.pc \in {"clone", "get", "envrc"}
    BY <2>1 DEF Start, Idle
  <2> QED
    BY <2>2
<1>6. CASE Step
  <2>1. CASE CloneMember
    <3>1. job' = [job EXCEPT !.todo = @ \ {First}] /\ job.pc = "clone"
      BY <1>3, <2>1 DEF CloneMember, CloneFails
    <3> QED
      BY <1>1, <3>1 DEF Job
  <2>2. CASE Get \/ Look \/ Move
    <3>1. CASE Get
      <4>1. PICK r \in Revision : GetsRevision(r)
        BY <1>3, <3>1, GetTurns
      <4> QED
        BY <1>1, <4>1 DEF GetsRevision, Job
    <3>2. CASE Look
      <4>1. job' = [job EXCEPT !.pc = "move", !.looked = counts.edits]
        BY <1>3, <3>2 DEF Look
      <4> QED
        BY <1>1, <4>1 DEF Job
    <3>3. CASE Move
      <4>1. job' = [job EXCEPT !.pc = "look", !.todo = @ \ {First}]
        BY <1>3, <3>3 DEF Move
      <4> QED
        BY <1>1, <4>1 DEF Job
    <3> QED
      BY <2>2, <3>1, <3>2, <3>3
  <2>3. CASE Restore
    <3>1. job.pc = "restore" /\ \E l \in job.todo : job' = [job EXCEPT !.todo = @ \ {l}]
      BY <1>3, <2>3 DEF Restore
    <3> QED
      BY <1>1, <3>1 DEF Job
  <2>4. CASE Cloned \/ List \/ Restored
    <3>1. \E pc \in {"envrc", "restore"} : \E todo : Goes(pc, todo)
      BY <1>3, <2>4 DEF Cloned, List, Restored
    <3> QED
      BY <1>1, <3>1 DEF Goes, Job
  <2>5. CASE Envrc
    <3>1. CASE job' = [job EXCEPT !.todo = @ \ {First}]
      BY <1>1, <2>5, <3>1 DEF Envrc, Job
    <3> QED
      BY <2>5, <3>1 DEF Envrc, Spoken
  <2>6. CASE Ignore
    BY <1>3, <2>6 DEF Ignore, Synced
  <2>7. CASE Prune
    <3>1. job'.pc = "envrc"
      BY <1>1, <1>3, <2>7, PruneTurns
    <3> QED
      BY <3>1
  <2>8. ~Lock
    BY <1>3 DEF Lock
  <2> QED
    BY <1>3, <1>6, <2>1, <2>2, <2>3, <2>4, <2>5, <2>6, <2>7, <2>8 DEF Step
<1> QED
  BY <1>3, <1>4, <1>5, <1>6 DEF Next


\* A manifest suits once it is rendered.
LEMMA RequiredSuits ==
    ASSUME NEW m \in Member, repo[m] \in Directory, NEW v \in 0..MaxCommit,
           NEW ran, NEW held, m \in held => repo[m].now.manifest > 0
    PROVE  /\ Suits(Required(m, v), Language[m], v, m \in ran, m \in held)
           /\ EngineFor[Language[m]].merged /\ m \in held => Required(m, v) > 0
<1>1. /\ repo[m].now.manifest \in NoManifest..MaxCommit /\ Required(m, v) \in 0..MaxCommit
      /\ ~EngineFor[Language[m]].merged => Required(m, v) = v
      /\ EngineFor[Language[m]].merged => /\ Required(m, v) = v \/ 0 \in {Required(m, v), v}
                                          /\ repo[m].now.manifest > 0 => Required(m, v) > 0
  BY RequiredType, ZenonT(60)
<1>2. Required(m, v) # NoManifest
  BY <1>1, WorkspaceBounds DEF NoManifest
<1>3. EngineFor[Language[m]].merged /\ m \in held => Required(m, v) > 0
  BY <1>1
<1>4. CASE ~EngineFor[Language[m]].merged
  BY <1>1, <1>3, <1>4 DEF Suits
<1>5. CASE EngineFor[Language[m]].merged
  <2>1. 0 \notin {Required(m, v), v} => Required(m, v) = v
    BY <1>1, <1>5
  <2> QED
    BY <1>2, <1>3, <1>5, <2>1 DEF Suits
<1> QED
  BY <1>4, <1>5

\* Rendering a language settles it, and leaves the others as they are.
LEMMA RenderSettles ==
    ASSUME TypeInv, NEW g, Renders(g), NEW h \in Spoken(job.members),
           h = g \/ SettledIn(repo, roots, job.members, job.declared, job.ran, job.held, h)
    PROVE  SettledIn(repo', roots', job.members, job.declared, job.ran, HeldAfter(g), h)
<1>1. job \in Job /\ RepoOK
  BY DEF TypeInv, JobOK
<1>2. job.members \in SUBSET Member /\ h \in Languages
  BY <1>1 DEF Job, Spoken, Languages
<1>3. \A m \in Rendered(job.members, h) : m \in Member /\ Language[m] = h
  BY <1>2 DEF Rendered, Speaking
<1>4. job.declared[h] \in 0..MaxCommit
  BY <1>1, <1>2 DEF Job
<1>5. CASE h = g
  <2>1. \A m \in Rendered(job.members, h) : repo'[m] = Requiring(m, job.declared[h])
    BY <1>3, <1>5 DEF Renders
  <2>2. ASSUME NEW m \in Rendered(job.members, h)
        PROVE  /\ Suits(repo'[m].now.manifest, h, job.declared[h], m \in job.ran, m \in HeldAfter(g))
               /\ EngineFor[h].merged /\ m \in HeldAfter(g) => repo'[m].now.manifest > 0
    <3>1. m \in Member /\ Language[m] = h
      BY <1>3, <2>2
    <3>2. repo[m] \in Directory
      BY <1>1, <3>1 DEF RepoOK
    <3>3. repo'[m].now.manifest = Required(m, job.declared[h])
      BY <1>1, <1>4, <2>1, <2>2, <3>1, RequiringType DEF RepoOK
    <3>4. m \in HeldAfter(g) => repo[m].now.manifest > 0
      BY <1>5, <2>2 DEF HeldAfter, Holding
    <3>5. /\ Suits(Required(m, job.declared[h]), Language[m], job.declared[h],
                   m \in job.ran, m \in HeldAfter(g))
          /\ EngineFor[Language[m]].merged /\ m \in HeldAfter(g)
                 => Required(m, job.declared[h]) > 0
      BY <1>4, <3>1, <3>2, <3>4, RequiredSuits
    <3> QED
      BY <3>1, <3>3, <3>5
  <2>3. EngineFor[h].root => roots'[h] = Speaking(job.members, h)
    BY <1>2, <1>5 DEF Renders, TypeInv, RootsOK
  <2> QED
    BY <2>2, <2>3 DEF SettledIn
<1>6. CASE h # g
  <2>1. \A m \in Rendered(job.members, h) : m \notin Rendered(job.members, g)
    BY <1>3, <1>6 DEF Rendered, Speaking
  <2>2. \A m \in Rendered(job.members, h) :
            repo'[m] = repo[m] /\ (m \in HeldAfter(g) <=> m \in job.held)
    BY <1>3, <2>1 DEF Renders, HeldAfter, Holding
  <2>3. roots'[h] = roots[h]
    BY <1>2, <1>6 DEF Renders, TypeInv, RootsOK
  <2>4. SettledIn(repo, roots, job.members, job.declared, job.ran, job.held, h)
    BY <1>6
  <2> QED
    BY <2>2, <2>3, <2>4 DEF SettledIn
<1> QED
  BY <1>5, <1>6

\* A manifest that suits still does once a tidy has had it.
LEMMA TidySuits ==
    ASSUME NEW m \in Member, NEW g, g = Language[m], NEW places, NEW ran, NEW held,
           repo[m] \in Directory, repo'[m] \in Directory, NEW version \in 0..MaxCommit,
           Suits(repo[m].now.manifest, g, version, m \in ran, m \in held),
           EngineFor[g].merged /\ m \in held => repo[m].now.manifest > 0,
           TidiedFrom(m, repo[m], repo'[m], places)
    PROVE  Suits(repo'[m].now.manifest, g, version, m \in ran \cup places, m \in held)
<1> DEFINE old == repo[m].now.manifest
           new == repo'[m].now.manifest
<1>1. old \in NoManifest..MaxCommit /\ new \in NoManifest..MaxCommit
  BY DEF Directory, Content
<1>2. new \in Tidied(m, places)
  BY DEF TidiedFrom
<1>3. CASE new = old
  BY <1>3 DEF Suits
<1>4. CASE new # old
  <2>1. EngineFor[g].merged /\ m \in places /\ old # NoManifest /\ new \in {0} \cup old..MaxCommit
    BY <1>2, <1>4 DEF Tidied
  <2>2. new # NoManifest
    BY <1>1, <2>1, WorkspaceBounds DEF NoManifest
  <2>3. ASSUME 0 \notin {new, version}, m \in held PROVE new > version
    <3>1. old > 0 /\ old \in Int /\ new \in Int /\ new > old
      BY <1>1, <1>4, <2>1, <2>3, WorkspaceBounds DEF NoManifest
    <3>2. old = version \/ old > version
      BY <2>1, <2>3, <3>1 DEF Suits
    <3> HIDE DEF old, new
    <3> QED
      BY <3>1, <3>2
  <2> HIDE DEF old, new
  <2> QED
    BY <2>1, <2>2, <2>3 DEF Suits, new
<1> QED
  BY <1>3, <1>4

LEMMA HoldingLessSuits ==
    ASSUME NEW manifest, NEW g, NEW version, NEW tidied, NEW held, NEW less, less => held,
           Suits(manifest, g, version, tidied, held)
    PROVE  Suits(manifest, g, version, tidied, less)
BY DEF Suits

\* Lock commands, run after the render, leave what is settled so.
LEMMA SettleSettles ==
    ASSUME TypeInv, NEW places, Tidy(places), UNCHANGED roots, NEW g \in Spoken(job.members),
           SettledIn(repo, roots, job.members, job.declared, job.ran, job.held, g),
           NEW held, held = {m \in job.held : repo'[m].now.manifest > 0}
    PROVE  SettledIn(repo', roots', job.members, job.declared, job.ran \cup places, held, g)
<1>1. job \in Job /\ repo \in [Member -> Directory] /\ repo' \in [Member -> Directory]
      /\ \A m \in Member : TidiedFrom(m, repo[m], repo'[m], places)
  BY TidyType DEF TypeInv, JobOK, RepoOK
<1>2. job.members \in SUBSET Member /\ job.declared[g] \in 0..MaxCommit
  BY <1>1 DEF Job, Spoken, Languages
<1>3. ASSUME NEW m \in Rendered(job.members, g)
      PROVE  Suits(repo'[m].now.manifest, g, job.declared[g], m \in job.ran \cup places, m \in held)
  <2>1. m \in Member /\ Language[m] = g
    BY <1>2 DEF Rendered, Speaking
  <2>2. Suits(repo'[m].now.manifest, g, job.declared[g], m \in job.ran \cup places, m \in job.held)
    BY <1>1, <1>2, <2>1, TidySuits DEF SettledIn
  <2> QED
    BY <2>2, HoldingLessSuits
<1> QED
  BY <1>3 DEF SettledIn

\* The entries of .gitignore take nothing from what is settled.
LEMMA IgnoreSettles ==
    ASSUME TypeInv, Ignore
    PROVE  /\ \A g : SettledIn(repo, roots, job.members, job.declared, job.ran, job.held, g)
                     => SettledIn(repo', roots', job.members, job.declared, job.ran, job.held, g)
           /\ \A m \in job.members : repo'[m].now.ignored
<1>1. job \in Job /\ \A m \in Member : repo[m] \in Directory
  BY DEF TypeInv, JobOK, RepoOK
<1>2. repo' = [m \in Member |-> IF m \in job.members THEN Ignored(repo[m]) ELSE repo[m]]
  BY DEF Ignore, Ignored
<1>3. \A m \in Member : /\ Ignored(repo[m]).now.manifest = repo[m].now.manifest
                        /\ Ignored(repo[m]).now.ignored
  BY <1>1, IgnoredType
<1>4. job.members \in SUBSET Member /\ UNCHANGED roots
  BY <1>1 DEF Job, Ignore
<1>5. \A m \in Member : repo'[m].now.manifest = repo[m].now.manifest
  BY <1>2, <1>3
<1>6. \A m \in job.members : repo'[m].now.ignored
  BY <1>2, <1>3, <1>4
<1>7. \A g : Rendered(job.members, g) \in SUBSET Member
  BY <1>4 DEF Rendered, Speaking
<1> QED
  BY <1>4, <1>5, <1>6, <1>7 DEF SettledIn

LEMMA SyncJobNext ==
    ASSUME TypeInv, SyncJob, [Next]_vars
    PROVE  SyncJob'
<1>1. CASE UNCHANGED vars
  BY <1>1 DEF vars, SyncJob
<1>2. CASE Next
  <2> SUFFICES ASSUME job'.alone, job'.pc \in {"render", "ignore", "lock", "prune"}
               PROVE  SyncJob'
    BY DEF SyncJob
  <2>1. job \in Job
    BY DEF TypeInv, JobOK
  <2>2. CASE UNCHANGED <<repo, roots, lock, job>>
    BY <2>2 DEF SyncJob
  <2>3. CASE Envrc /\ Goes("render", Spoken(job.members)) /\ UNCHANGED <<repo, lock, roots>>
    <3>1. job'.pc = "render" /\ job'.members = job.members /\ job'.todo = Spoken(job.members)
      BY <2>1, <2>3 DEF Goes, Job
    <3> QED
      BY <3>1 DEF SyncJob
  <2>4. CASE Render /\ ~Fail
    <3>1. PICK g \in job.todo : Renders(g)
      BY <2>4, RenderRenders
    <3>2. /\ job'.pc = "render" /\ job'.members = job.members /\ job'.declared = job.declared
          /\ job'.todo = job.todo \ {g} /\ job.alone /\ job'.ran = job.ran /\ job'.held = HeldAfter(g)
      BY <2>1, <3>1 DEF Renders, Job
    <3>3. \A h \in Spoken(job.members) \ job.todo :
              SettledIn(repo, roots, job.members, job.declared, job.ran, job.held, h)
      BY <3>1, <3>2 DEF SyncJob, Renders
    <3>4. \A h \in Spoken(job.members) \ job'.todo :
              SettledIn(repo', roots', job.members, job.declared, job.ran, HeldAfter(g), h)
      BY <3>1, <3>2, <3>3, RenderSettles
    <3> QED
      BY <3>2, <3>4 DEF SyncJob
  <2>5. CASE Settle
    <3>1. PICK places \in SUBSET job.changed :
              /\ Tidy(places)
              /\ job' = [job EXCEPT !.pc = "ignore", !.ran = @ \cup places,
                                    !.held = {m \in @ : repo'[m].now.manifest > 0}]
      BY <2>5 DEF Settle
    <3> DEFINE held == {m \in job.held : repo'[m].now.manifest > 0}
    <3>2. job' = [job EXCEPT !.pc = "ignore", !.ran = @ \cup places, !.held = held]
      BY <3>1
    <3> HIDE DEF held
    <3>3. /\ job'.pc = "ignore" /\ job'.members = job.members /\ job'.declared = job.declared
          /\ job.alone /\ job'.ran = job.ran \cup places /\ job'.held = held
      BY <2>1, <3>2 DEF Job
    <3>4. job.pc = "render" /\ job.todo = {} /\ UNCHANGED roots
      BY <2>5 DEF Settle
    <3>5. \A g \in Spoken(job.members) :
              SettledIn(repo, roots, job.members, job.declared, job.ran, job.held, g)
      BY <3>3, <3>4 DEF SyncJob
    <3>6. \A g \in Spoken(job.members) :
              SettledIn(repo', roots', job.members, job.declared, job.ran \cup places, held, g)
      BY <3>1, <3>4, <3>5, SettleSettles DEF held
    <3> QED
      BY <3>3, <3>6 DEF SyncJob
  <2>6. CASE Ignore /\ \E pc \in {"lock", "prune"} : Goes(pc, {})
    <3>1. /\ job'.pc \in {"lock", "prune"} /\ job'.members = job.members
          /\ job'.declared = job.declared /\ job.alone /\ job.pc = "ignore"
          /\ job'.ran = job.ran /\ job'.held = job.held
      BY <2>1, <2>6 DEF Ignore, Goes, Job
    <3>2. \A g \in Spoken(job.members) :
              SettledIn(repo', roots', job.members, job.declared, job.ran, job.held, g)
      BY <2>6, <3>1, IgnoreSettles DEF SyncJob
    <3>3. \A m \in job.members : repo'[m].now.ignored
      BY <2>6, IgnoreSettles
    <3> QED
      BY <3>1, <3>2, <3>3 DEF SyncJob
  <2> QED
    BY <1>2, <2>2, <2>3, <2>4, <2>5, <2>6, SyncTurns
<1> QED
  BY <1>1, <1>2

\* What a verb that succeeded promises of the directories and the lists.
SyncedIn(dirs, lists, members, declared, ran, held) ==
    \A m \in members :
        /\ m \in Rendered(members, Language[m])
              => Suits(dirs[m].now.manifest, Language[m], declared[Language[m]],
                       m \in ran, m \in held)
        /\ EngineFor[Language[m]].root => m \in lists[Language[m]]
        /\ dirs[m].envrc => dirs[m].now.ignored

LEMMA SettledIsSynced ==
    ASSUME NEW dirs, NEW lists, NEW members, NEW declared, NEW ran, NEW held,
           \A g \in Spoken(members) : SettledIn(dirs, lists, members, declared, ran, held, g),
           \A m \in members : dirs[m].now.ignored
    PROVE  SyncedIn(dirs, lists, members, declared, ran, held)
<1> SUFFICES ASSUME NEW m \in members
             PROVE  /\ m \in Rendered(members, Language[m])
                           => Suits(dirs[m].now.manifest, Language[m], declared[Language[m]],
                                    m \in ran, m \in held)
                    /\ EngineFor[Language[m]].root => m \in lists[Language[m]]
  BY DEF SyncedIn
<1>1. SettledIn(dirs, lists, members, declared, ran, held, Language[m])
  BY DEF Spoken
<1>2. m \in Speaking(members, Language[m])
  BY DEF Speaking
<1> QED
  BY <1>1, <1>2 DEF SettledIn

\* A bump that locks what it synced leaves it synced.
LEMMA LockedIsSynced ==
    ASSUME TypeInv, NEW places, Tidy(places), UNCHANGED roots,
           \A g \in Spoken(job.members) :
               SettledIn(repo, roots, job.members, job.declared, job.ran, job.held, g),
           \A m \in job.members : repo[m].now.ignored
    PROVE  SyncedIn(repo', roots', job.members, job.declared, job.ran \cup places, job.held)
<1>1. job \in Job /\ repo \in [Member -> Directory] /\ repo' \in [Member -> Directory]
      /\ \A m \in Member : TidiedFrom(m, repo[m], repo'[m], places)
  BY TidyType DEF TypeInv, JobOK, RepoOK
<1>2. job.members \in SUBSET Member
  BY <1>1 DEF Job
<1> SUFFICES ASSUME NEW m \in job.members
             PROVE  /\ m \in Rendered(job.members, Language[m])
                           => Suits(repo'[m].now.manifest, Language[m], job.declared[Language[m]],
                                    m \in job.ran \cup places, m \in job.held)
                    /\ EngineFor[Language[m]].root => m \in roots'[Language[m]]
                    /\ repo'[m].envrc => repo'[m].now.ignored
  BY DEF SyncedIn
<1>3. m \in Member /\ Language[m] \in Languages
  BY <1>2 DEF Languages
<1>4. job.declared[Language[m]] \in 0..MaxCommit
  BY <1>1, <1>3 DEF Job
<1>5. SettledIn(repo, roots, job.members, job.declared, job.ran, job.held, Language[m])
  BY DEF Spoken
<1>6. m \in Rendered(job.members, Language[m])
          => Suits(repo'[m].now.manifest, Language[m], job.declared[Language[m]],
                   m \in job.ran \cup places, m \in job.held)
  BY <1>1, <1>3, <1>4, <1>5, TidySuits DEF SettledIn
<1>7. EngineFor[Language[m]].root => m \in roots'[Language[m]]
  BY <1>5 DEF SettledIn, Speaking
<1>8. repo'[m].now.ignored
  BY <1>1, <1>3 DEF TidiedFrom
<1> QED
  BY <1>6, <1>7, <1>8

LEMMA SuccessIs ==
    ASSUME NEW ran, Succeed(ran), done' # Nobody
    PROVE  /\ job.alone /\ done'.verb = job.verb /\ done'.members = job.members
           /\ done'.declared = job.declared /\ done'.asked = job.asked /\ done'.rev = job.rev
           /\ done'.ran = ran /\ done'.held = job.held
BY DEF Succeed

LEMMA SyncedNext ==
    ASSUME TypeInv, SyncInv, [Next]_vars
    PROVE  SyncedAsDeclared'
<1>1. CASE UNCHANGED vars \/ Elsewhere
  <2>1. UNCHANGED <<repo, roots, done>>
    BY <1>1 DEF vars, Elsewhere, Push, EditFile
  <2> QED
    BY <2>1 DEF SyncInv, SyncedAsDeclared
<1>2. CASE done' = Nobody
  BY <1>2 DEF Nobody, SyncedAsDeclared, Verbs
<1>3. CASE Ignore /\ Succeed(job.ran) /\ done' # Nobody
  <2>1. /\ job.alone /\ done'.members = job.members /\ done'.declared = job.declared
        /\ done'.ran = job.ran /\ done'.held = job.held
    BY <1>3, SuccessIs
  <2>2. job.pc = "ignore"
    BY <1>3 DEF Ignore
  <2>3. /\ \A g \in Spoken(job.members) :
               SettledIn(repo', roots', job.members, job.declared, job.ran, job.held, g)
        /\ \A m \in job.members : repo'[m].now.ignored
    BY <1>3, <2>1, <2>2, IgnoreSettles DEF SyncInv, SyncJob
  <2>4. SyncedIn(repo', roots', job.members, job.declared, job.ran, job.held)
    BY <2>3, SettledIsSynced
  <2> QED
    BY <2>1, <2>4 DEF SyncedIn, SyncedAsDeclared
<1>4. ASSUME NEW places \in SUBSET Place, Locked(places), done' # Nobody PROVE SyncedAsDeclared'
  <2>1. /\ job.alone /\ done'.members = job.members /\ done'.declared = job.declared
        /\ done'.ran = job.ran \cup places /\ done'.held = job.held
    BY <1>4, SuccessIs DEF Locked
  <2>2. job.pc = "lock" /\ Tidy(places) /\ UNCHANGED roots
    BY <1>4 DEF Locked
  <2>3. SyncedIn(repo', roots', job.members, job.declared, job.ran \cup places, job.held)
    BY <2>1, <2>2, LockedIsSynced DEF SyncInv, SyncJob
  <2> QED
    BY <2>1, <2>3 DEF SyncedIn, SyncedAsDeclared
<1> QED
  BY <1>1, <1>2, <1>3, <1>4, DoneTurns DEF SyncInv

\* A verb that succeeds while nobody touches a member leaves each member a manifest
\* that suits what the factory declares, each workspace file listing it, and nothing
\* that git would call new: for every factory file, whatever the lock commands do to a
\* manifest and whatever was cut short before.
THEOREM SyncsAsDeclared == ASSUME Revision # {} PROVE Spec => []SyncedAsDeclared
<1>1. Spec => []TypeInv
  BY TypeInvHolds
<1>2. Init => SyncInv
  BY DEF Init, SyncInv, Busy, SyncJob, SyncedAsDeclared, Idle, Nobody, Verbs
<1>3. TypeInv /\ SyncInv /\ [Next]_vars => SyncInv'
  BY BusyNext, SyncJobNext, SyncedNext DEF SyncInv
<1>4. SyncInv => SyncedAsDeclared
  BY DEF SyncInv
<1> QED
  BY <1>1, <1>2, <1>3, <1>4, PTL DEF Spec

-----------------------------------------------------------------------------
(* What a checkout that succeeded left. *)

\* These directories hold the members at the commits the revision was proven with.
ProvenIn(dirs, members, r) ==
    \A m \in members :
        dirs[m].is = "repo" /\ dirs[m].head = Proven[r][m] /\ ~dirs[m].own

LockedIn(locks, places, r) == \A l \in places : locks[l] = r

\* How far a checkout that no person disturbed has come.
CheckoutJob ==
    job.verb = "checkout" =>
        /\ job.pc \notin {"clone", "lock"}
        /\ job.alone =>
               /\ job.pc \in {"look", "move"} => ProvenIn(repo, job.asked \ job.todo, job.rev)
               /\ job.pc \in {"restore", "envrc", "render", "ignore", "prune"} =>
                      ProvenIn(repo, job.asked, job.rev)
               /\ job.pc = "restore" => LockedIn(lock, Closures[job.rev] \ job.todo, job.rev)
               /\ job.pc \in {"envrc", "render", "ignore", "prune"} =>
                      LockedIn(lock, Closures[job.rev] \ job.ran, job.rev)

CheckoutDone ==
    done.verb = "checkout" =>
        /\ ProvenIn(repo, done.asked, done.rev)
        /\ LockedIn(lock, Closures[done.rev] \ done.ran, done.rev)

CheckoutInv == Busy /\ CheckoutJob /\ CheckoutDone

\* What a verb does to a directory leaves the commit in it.
KeepsCommit(m) ==
    repo[m].is = "repo" =>
        repo'[m].is = "repo" /\ repo'[m].head = repo[m].head /\ repo'[m].own = repo[m].own

LEMMA OneKeepsCommit ==
    ASSUME RepoOK, NEW m, NEW d, repo' = [repo EXCEPT ![m] = d],
           m \in Member => /\ repo[m].is = "repo" => d.is = "repo"
                           /\ d.head = repo[m].head /\ d.own = repo[m].own
    PROVE  \A n \in Member : KeepsCommit(n)
BY DEF RepoOK, KeepsCommit

LEMMA SyncKeepsCommit ==
    ASSUME TypeInv, Restore \/ Envrc \/ Render \/ Settle \/ Ignore
    PROVE  \A m \in Member : KeepsCommit(m)
<1>1. RepoOK /\ \A m \in Member : repo[m] \in Directory
  BY DEF TypeInv, RepoOK
<1>2. CASE UNCHANGED repo
  BY <1>2 DEF KeepsCommit
<1>3. CASE Restore /\ ~UNCHANGED repo
  <2>1. PICK l \in job.todo : l \in Member /\ repo' = [repo EXCEPT ![l] = Made(@)]
    BY <1>3 DEF Restore, Fail
  <2>2. repo' = [repo EXCEPT ![l] = Made(repo[l])]
    BY <2>1
  <2>3. /\ repo[l].is = "repo" => Made(repo[l]).is = "repo"
        /\ Made(repo[l]).head = repo[l].head /\ Made(repo[l]).own = repo[l].own
    BY <1>1, <2>1, MadeType
  <2> QED
    BY <1>1, <2>2, <2>3, OneKeepsCommit
<1>4. CASE Envrc /\ ~UNCHANGED repo
  <2> DEFINE d == [Made(repo[First]) EXCEPT !.envrc = TRUE]
  <2>1. repo' = [repo EXCEPT ![First] = d]
    BY <1>4 DEF Envrc
  <2>2. First \in Member => /\ repo[First].is = "repo" => d.is = "repo"
                            /\ d.head = repo[First].head /\ d.own = repo[First].own
    BY <1>1, EnvrcType
  <2> HIDE DEF d
  <2> QED
    BY <1>1, <2>1, <2>2, OneKeepsCommit
<1>5. CASE Render /\ ~UNCHANGED repo
  <2>1. PICK g \in job.todo : Renders(g)
    BY <1>5, RenderRenders DEF Fail
  <2>2. ASSUME NEW m \in Member, m \in Rendered(job.members, g)
        PROVE  /\ repo[m].is = "repo" => Requiring(m, job.declared[g]).is = "repo"
               /\ Requiring(m, job.declared[g]).head = repo[m].head
               /\ Requiring(m, job.declared[g]).own = repo[m].own
    <3>1. Language[m] = g
      BY <2>2 DEF Rendered, Speaking
    <3>2. job.declared[g] \in 0..MaxCommit
      BY <3>1 DEF TypeInv, JobOK, Job, Languages
    <3> QED
      BY <1>1, <3>2, RequiringType DEF RepoOK
  <2> QED
    BY <2>1, <2>2 DEF KeepsCommit, Renders
<1>6. CASE Ignore
  <2>1. repo' = [m \in Member |-> IF m \in job.members THEN Ignored(repo[m]) ELSE repo[m]]
    BY <1>6 DEF Ignore, Ignored
  <2>2. \A m \in Member : /\ repo[m].is = "repo" => Ignored(repo[m]).is = "repo"
                          /\ Ignored(repo[m]).head = repo[m].head
                          /\ Ignored(repo[m]).own = repo[m].own
    BY <1>1, IgnoredType
  <2> QED
    BY <2>1, <2>2 DEF KeepsCommit
<1>7. CASE Settle
  <2>1. PICK places : Tidy(places)
    BY <1>7 DEF Settle
  <2>2. \A m \in Member : TidiedFrom(m, repo[m], repo'[m], places)
    BY <1>1, <2>1, TidyType DEF RepoOK
  <2> QED
    BY <2>2 DEF KeepsCommit, TidiedFrom
<1> QED
  BY <1>2, <1>3, <1>4, <1>5, <1>6, <1>7

LEMMA ProvenStays ==
    ASSUME NEW members \in SUBSET Member, NEW r, ProvenIn(repo, members, r),
           \A m \in Member : KeepsCommit(m)
    PROVE  ProvenIn(repo', members, r)
BY DEF ProvenIn, KeepsCommit

\* A member that is moved is where the revision was proven.
LEMMA MoveProves ==
    ASSUME TypeInv, Move, ~Fail, ProvenIn(repo, job.asked \ job.todo, job.rev)
    PROVE  ProvenIn(repo', job.asked \ (job.todo \ {First}), job.rev)
<1>1. job \in Job /\ RepoOK
  BY DEF TypeInv, JobOK
<1>2. job.asked \in SUBSET Member
  BY <1>1 DEF Job
<1>3. repo' = [repo EXCEPT ![First] = Onto(First, Proven[job.rev][First])]
  BY DEF Move
<1>4. ASSUME First \in Member
      PROVE  /\ repo'[First].is = "repo" /\ repo'[First].head = Proven[job.rev][First]
             /\ repo'[First].own = FALSE
  <2>1. Proven[job.rev][First] \in 0..MaxCommit
    BY <1>1, <1>4, WorkspaceAssumption DEF Job
  <2>2. repo'[First] = Onto(First, Proven[job.rev][First])
    BY <1>1, <1>3, <1>4 DEF RepoOK
  <2> DEFINE c == Proven[job.rev][First]
             m == First
             d == Onto(m, c)
  <2>3. d.is = "repo" /\ d.head = c /\ d.own = FALSE
    <3> HIDE DEF c, m
    <3>1. m \in Member /\ c \in 0..MaxCommit
      BY <1>4, <2>1 DEF c, m
    <3> QED
      BY <1>1, <3>1, OntoType DEF RepoOK
  <2> QED
    BY <2>2, <2>3
<1>5. \A m \in Member : m # First => repo'[m] = repo[m]
  BY <1>1, <1>3 DEF RepoOK
<1> QED
  BY <1>2, <1>4, <1>5 DEF ProvenIn


\* What a person does to the verb that runs.
LEMMA PersonTurns ==
    ASSUME Person
    PROVE  job' = job \/ (job.pc # "idle" /\ job' = [job EXCEPT !.alone = FALSE])
BY DEF Person, EditMember, CommitMember, Pull, Push, Discard, EditFile, Change

LEMMA CheckoutJobNext ==
    ASSUME TypeInv, CheckoutJob, [Next]_vars
    PROVE  CheckoutJob'
<1>1. CASE UNCHANGED vars
  BY <1>1 DEF vars, CheckoutJob
<1>2. CASE Next
  <2> SUFFICES ASSUME job'.verb = "checkout"
               PROVE  CheckoutJob'
    BY DEF CheckoutJob
  <2>1. job \in Job /\ job.asked \in SUBSET Member
    BY DEF TypeInv, JobOK, Job
  <2>2. ~Fail /\ ~Stop /\ ~Kill /\ \A ran : ~Succeed(ran)
    <3>1. job' # Idle
      BY DEF Idle
    <3> QED
      BY <3>1 DEF Fail, Stop, Succeed, Kill
  <2>3. CASE Person
    <3>1. CASE Elsewhere
      BY <3>1 DEF Elsewhere, Push, EditFile, CheckoutJob
    <3>2. CASE job.pc = "idle"
      <4>1. job' = job
        BY <2>3, <3>2, PersonTurns
      <4> QED
        BY <3>2, <4>1 DEF CheckoutJob
    <3>3. CASE job.pc # "idle" /\ ~Elsewhere
      <4>1. job' = [job EXCEPT !.alone = FALSE]
        BY <2>3, <3>3 DEF Person, Elsewhere, EditMember, CommitMember, Pull, Discard, Change
      <4>2. ~job'.alone /\ job'.pc = job.pc /\ job'.verb = job.verb
        BY <2>1, <4>1 DEF Job
      <4> QED
        BY <4>2 DEF CheckoutJob
    <3> QED
      BY <3>1, <3>2, <3>3
  <2>4. CASE Begin
    <3>1. \E verb \in Verbs : \E f : Start(verb, f)
      BY <2>4 DEF Begin, Clone, Sync, Checkout, Add, Bump, Verbs
    <3>2. job'.pc = "get"
      BY <3>1 DEF Start, Idle
    <3> QED
      BY <3>2 DEF CheckoutJob
  <2>5. CASE CloneMember
    <3>1. job.pc = "clone" /\ job' = [job EXCEPT !.todo = @ \ {First}]
      BY <2>2, <2>5 DEF CloneMember, CloneFails
    <3>2. job.verb = "checkout"
      BY <2>1, <3>1 DEF Job
    <3> QED
      BY <3>1, <3>2 DEF CheckoutJob
  <2>6. CASE Cloned
    <3>1. job.pc = "clone" /\ job.verb = "checkout"
      BY <2>1, <2>6 DEF Cloned, Goes, Job
    <3> QED
      BY <3>1 DEF CheckoutJob
  <2>7. CASE Get
    <3>1. PICK r \in Revision : GetsRevision(r)
      BY <2>2, <2>7, GetTurns
    <3>2. job'.pc = "look" /\ job'.todo = job'.asked
      BY <2>1, <3>1 DEF GetsRevision, Job
    <3>3. ProvenIn(repo', job'.asked \ job'.todo, job'.rev)
      BY <3>2 DEF ProvenIn
    <3> QED
      BY <3>2, <3>3 DEF CheckoutJob
  <2>8. CASE Look
    <3>1. job' = [job EXCEPT !.pc = "move", !.looked = counts.edits]
      BY <2>2, <2>8 DEF Look
    <3>2. /\ job'.pc = "move" /\ job'.rev = job.rev /\ job'.todo = job.todo
          /\ job'.asked = job.asked /\ job'.alone = job.alone /\ job'.verb = job.verb
      BY <2>1, <3>1 DEF Job
    <3>3. job.pc = "look" /\ UNCHANGED repo
      BY <2>2, <2>8 DEF Look
    <3> QED
      BY <3>2, <3>3 DEF CheckoutJob
  <2>9. CASE Move
    <3>1. job' = [job EXCEPT !.pc = "look", !.todo = @ \ {First}]
      BY <2>2, <2>9 DEF Move
    <3>2. /\ job'.pc = "look" /\ job'.rev = job.rev /\ job'.todo = job.todo \ {First}
          /\ job'.asked = job.asked /\ job'.alone = job.alone /\ job'.verb = job.verb
      BY <2>1, <3>1 DEF Job
    <3>3. job.pc = "move"
      BY <2>9 DEF Move
    <3>4. job'.alone => ProvenIn(repo', job'.asked \ job'.todo, job'.rev)
      BY <2>2, <2>9, <3>2, <3>3, MoveProves DEF CheckoutJob
    <3> QED
      BY <3>2, <3>4 DEF CheckoutJob
  <2>10. CASE List
    <3>1. /\ job'.pc = "restore" /\ job'.rev = job.rev /\ job'.todo = Closures[job.rev]
          /\ job'.asked = job.asked /\ job'.alone = job.alone /\ job'.verb = job.verb
      BY <2>1, <2>2, <2>10 DEF List, Goes, Job
    <3>2. job.pc = "look" /\ job.todo = {} /\ UNCHANGED repo
      BY <2>2, <2>10 DEF List
    <3>3. LockedIn(lock', Closures[job.rev] \ Closures[job.rev], job.rev)
      BY DEF LockedIn
    <3>4. job.alone => ProvenIn(repo, job.asked, job.rev)
      BY <3>1, <3>2 DEF CheckoutJob, ProvenIn
    <3> QED
      BY <3>1, <3>2, <3>3, <3>4 DEF CheckoutJob
  <2>11. CASE Restore
    <3>1. PICK l \in job.todo : /\ lock' = [lock EXCEPT ![l] = job.rev]
                                /\ job' = [job EXCEPT !.todo = @ \ {l}]
      BY <2>2, <2>11 DEF Restore, HashesTo
    <3>2. /\ job'.pc = job.pc /\ job'.rev = job.rev /\ job'.todo = job.todo \ {l}
          /\ job'.asked = job.asked /\ job'.alone = job.alone /\ job'.verb = job.verb
      BY <2>1, <3>1 DEF Job
    <3>3. job.pc = "restore"
      BY <2>11 DEF Restore
    <3>4. job.alone => ProvenIn(repo', job.asked, job.rev)
      BY <2>1, <2>11, <3>2, <3>3, SyncKeepsCommit, ProvenStays DEF CheckoutJob
    <3>5. job.alone => LockedIn(lock', Closures[job.rev] \ job'.todo, job.rev)
      <4>1. Closures[job.rev] \in SUBSET Place
        BY <2>1, WorkspaceAssumption DEF Job
      <4>2. job.alone => LockedIn(lock, Closures[job.rev] \ job.todo, job.rev)
        BY <3>2, <3>3 DEF CheckoutJob
      <4> QED
        BY <3>1, <3>2, <4>1, <4>2 DEF LockedIn, TypeInv, LockOK
    <3> QED
      BY <3>2, <3>3, <3>4, <3>5 DEF CheckoutJob
  <2>12. CASE Restored
    <3>1. /\ job'.pc = "envrc" /\ job'.rev = job.rev /\ job'.asked = job.asked
          /\ job'.alone = job.alone /\ job'.verb = job.verb
      BY <2>1, <2>12 DEF Restored, Goes, Job
    <3>2. job.pc = "restore" /\ job.todo = {} /\ UNCHANGED <<repo, lock>>
      BY <2>12 DEF Restored
    <3>3. job.alone => LockedIn(lock', Closures[job.rev] \ job'.ran, job.rev)
      BY <3>1, <3>2 DEF CheckoutJob, LockedIn
    <3> QED
      BY <3>1, <3>2, <3>3 DEF CheckoutJob
  <2>13. CASE Envrc \/ Render
    <3>1. job.pc \in {"envrc", "render"} /\ UNCHANGED lock
      BY <2>13 DEF Envrc, Render, Fail
    <3>2. /\ job'.pc \in {"envrc", "render"} /\ job'.rev = job.rev /\ job'.asked = job.asked
          /\ job'.alone = job.alone /\ job'.verb = job.verb /\ job'.ran = job.ran
      <4>1. CASE Envrc
        <5>1. job.pc = "envrc" /\ ((\E todo : Goes("render", todo))
                                   \/ job' = [job EXCEPT !.todo = @ \ {First}])
          BY <4>1 DEF Envrc
        <5> QED
          BY <2>1, <5>1 DEF Goes, Job
      <4>2. CASE Render
        <5>1. PICK g \in job.todo : Renders(g)
          BY <2>2, <4>2, RenderRenders
        <5> QED
          BY <2>1, <5>1 DEF Renders, Job
      <4> QED
        BY <2>13, <4>1, <4>2
    <3>3. job.alone => ProvenIn(repo', job.asked, job.rev)
      BY <2>1, <2>13, <3>1, <3>2, SyncKeepsCommit, ProvenStays DEF CheckoutJob
    <3> QED
      BY <3>1, <3>2, <3>3 DEF CheckoutJob
  <2>14. CASE Settle
    <3>1. PICK places \in SUBSET job.changed : Tidy(places) /\ \E held :
              job' = [job EXCEPT !.pc = "ignore", !.ran = @ \cup places, !.held = held]
      BY <2>14 DEF Settle
    <3>2. /\ job'.pc = "ignore" /\ job'.rev = job.rev /\ job'.asked = job.asked
          /\ job'.alone = job.alone /\ job'.verb = job.verb /\ job'.ran = job.ran \cup places
      BY <2>1, <3>1 DEF Job
    <3>3. job.pc = "render"
      BY <2>14 DEF Settle
    <3>4. Closures[job.rev] \in SUBSET Place
      BY <2>1, WorkspaceAssumption DEF Job
    <3>5. \A l \in Place \ places : lock'[l] = lock[l]
      BY <3>1 DEF Tidy
    <3>6. job.alone => LockedIn(lock', Closures[job.rev] \ job'.ran, job.rev)
      BY <3>2, <3>3, <3>4, <3>5 DEF CheckoutJob, LockedIn
    <3>7. job.alone => ProvenIn(repo', job.asked, job.rev)
      BY <2>1, <2>14, <3>2, <3>3, SyncKeepsCommit, ProvenStays DEF CheckoutJob
    <3> QED
      BY <3>2, <3>6, <3>7 DEF CheckoutJob
  <2>15. CASE Ignore
    <3>1. \/ job.verb = "bump" /\ Goes("lock", {})
          \/ Goes("prune", {})
      BY <2>2, <2>15 DEF Ignore, Synced
    <3>2. job'.verb = job.verb
      BY <2>1, <3>1 DEF Goes, Job
    <3>3. /\ job'.pc = "prune" /\ job'.rev = job.rev /\ job'.asked = job.asked
          /\ job'.alone = job.alone /\ job'.ran = job.ran
      BY <2>1, <3>1, <3>2 DEF Goes, Job
    <3>4. job.pc = "ignore" /\ UNCHANGED lock
      BY <2>15 DEF Ignore
    <3>5. job.alone => ProvenIn(repo', job.asked, job.rev)
      BY <2>1, <2>15, <3>2, <3>4, SyncKeepsCommit, ProvenStays DEF CheckoutJob
    <3> QED
      BY <3>2, <3>3, <3>4, <3>5 DEF CheckoutJob
  <2>16. CASE Prune
    <3>1. /\ job.pc = "prune" /\ UNCHANGED <<repo, lock>>
          /\ job'.pc = "envrc" /\ job'.verb = job.verb /\ job'.alone = job.alone
          /\ job'.asked = job.asked /\ job'.rev = job.rev /\ job'.ran = job.ran
      BY <2>1, <2>2, <2>16, PruneTurns
    <3> QED
      BY <3>1 DEF CheckoutJob
  <2> QED
    BY <1>2, <2>2, <2>3, <2>4, <2>5, <2>6, <2>7, <2>8, <2>9, <2>10, <2>11, <2>12, <2>13, <2>14,
       <2>15, <2>16 DEF Next, Step, Lock
<1> QED
  BY <1>1, <1>2

LEMMA CheckoutDoneNext ==
    ASSUME TypeInv, CheckoutInv, [Next]_vars
    PROVE  CheckoutDone'
<1>1. CASE UNCHANGED vars \/ Elsewhere
  <2>1. UNCHANGED <<repo, lock, done>>
    BY <1>1 DEF vars, Elsewhere, Push, EditFile
  <2> QED
    BY <2>1 DEF CheckoutInv, CheckoutDone
<1>2. CASE done' = Nobody
  BY <1>2 DEF Nobody, CheckoutDone
<1>3. CASE Ignore /\ Succeed(job.ran) /\ done' # Nobody /\ done'.verb = "checkout"
  <2>1. /\ job.alone /\ job.verb = "checkout" /\ done'.asked = job.asked
        /\ done'.rev = job.rev /\ done'.ran = job.ran
    BY <1>3, SuccessIs
  <2>2. job.pc = "ignore" /\ UNCHANGED lock
    BY <1>3 DEF Ignore
  <2>3. job.asked \in SUBSET Member
    BY DEF TypeInv, JobOK, Job
  <2>4. /\ ProvenIn(repo, job.asked, job.rev)
        /\ LockedIn(lock, Closures[job.rev] \ job.ran, job.rev)
    BY <2>1, <2>2 DEF CheckoutInv, CheckoutJob
  <2>5. ProvenIn(repo', job.asked, job.rev)
    BY <1>3, <2>3, <2>4, SyncKeepsCommit, ProvenStays
  <2> QED
    BY <2>1, <2>2, <2>4, <2>5 DEF CheckoutDone
<1>4. ASSUME NEW places \in SUBSET Place, Locked(places), done' # Nobody
      PROVE  done'.verb # "checkout"
  <2>1. job.pc = "lock" /\ done'.verb = job.verb
    BY <1>4, SuccessIs DEF Locked
  <2> QED
    BY <2>1 DEF CheckoutInv, CheckoutJob
<1> QED
  BY <1>1, <1>2, <1>3, <1>4, DoneTurns DEF CheckoutInv, CheckoutDone

LEMMA CheckoutInvHolds == ASSUME Revision # {} PROVE Spec => []CheckoutInv
<1>1. Spec => []TypeInv
  BY TypeInvHolds
<1>2. Init => CheckoutInv
  BY DEF Init, CheckoutInv, Busy, CheckoutJob, CheckoutDone, Idle, Nobody
<1>3. TypeInv /\ CheckoutInv /\ [Next]_vars => CheckoutInv'
  BY BusyNext, CheckoutJobNext, CheckoutDoneNext DEF CheckoutInv
<1> QED
  BY <1>1, <1>2, <1>3, PTL DEF Spec

\* A checkout that succeeded while nobody touched a member left every member its
\* revision names on the proven commit, and every lockfile of the revision as
\* proven, the places whose lock command the sync ran excepted: for every revision.
THEOREM ChecksOut == ASSUME Revision # {} PROVE Spec => []CheckedOut
<1>1. Spec => []CheckoutInv
  BY CheckoutInvHolds
<1>2. CheckoutInv => CheckedOut
  BY DEF CheckoutInv, CheckoutDone, ProvenIn, LockedIn, CheckedOut
<1> QED
  BY <1>1, <1>2, PTL

\* After a checkout that moved every member that the file names by now, status finds
\* each of them a repository that has not diverged, whatever it could fetch, until a
\* person changes something: the two halves of the tool agree on what a checkout is.
THEOREM CheckoutsAgree == ASSUME Revision # {} PROVE Spec => []CheckoutAgrees
<1>1. Spec => []CheckoutInv
  BY CheckoutInvHolds
<1>2. CheckoutInv => CheckoutAgrees
  <2> SUFFICES ASSUME CheckoutInv, done.verb = "checkout",
                      MembersOf(file) \subseteq done.asked,
                      \A m \in Member \ MembersOf(file) : repo[m].is = "none",
                      NEW fetched \in SUBSET MembersOf(file)
               PROVE  Agrees(fetched)
    BY DEF CheckoutAgrees
  <2>1. \A m \in MembersOf(file) : repo[m].is = "repo" /\ ~repo[m].own
    BY DEF CheckoutInv, CheckoutDone, ProvenIn
  <2> QED
    BY <2>1 DEF Agrees, IsRepo
<1> QED
  BY <1>1, <1>2, PTL


-----------------------------------------------------------------------------
(* What an edit of the factory file changes. *)

Changes(f, g, section) == DepsIn(g, section) \ DepsIn(f, section)

LEMMA BumpEditsOne ==
    ASSUME NEW f, FileOK(f), NEW language, NEW name, NEW v \in Commit, CanBump(f, language, name),
           Bumped(f, language, name, v) # f
    PROVE  EditedOne(f, Bumped(f, language, name, v), FALSE)
<1> DEFINE g == Bumped(f, language, name, v)
           n == Len(f)
<1>1. n \in Nat /\ DOMAIN f = 1..n /\ f \in Seq(Range(f)) /\ Lines(f) /\ Rewrites(f, g)
  BY ReadableLines, BumpRewrites DEF FileOK
<1>2. \E i \in 1..n : g[i] # f[i]
  <2>1. f = [i \in 1..n |-> f[i]]
    BY <1>1, SeqDef
  <2>2. g = [i \in 1..n |-> g[i]]
    BY <1>1 DEF Bumped
  <2> HIDE DEF g
  <2>3. g # f
    BY DEF g
  <2> QED
    BY <2>1, <2>2, <2>3
<1>3. MembersOf(g) = MembersOf(f)
  BY <1>1, RewriteKeepsMembers
<1>4. \A section : Named(g, section) = Named(f, section)
  BY <1>1, RewriteKeepsNames
<1>5. Changes(f, g, "devDependencies") = {} /\ \E d : Changes(f, g, "dependencies") = {d}
  BY <1>1, <1>2, BumpChangesOne DEF Changes
<1> HIDE DEF g
<1>6. Cardinality(Changes(f, g, "dependencies")) = 1
  BY <1>5, FS_Singleton
<1>7. Cardinality(MembersOf(g) \ MembersOf(f)) = 0
  <2>1. MembersOf(g) \ MembersOf(f) = {}
    BY <1>3
  <2> QED
    BY <2>1, FS_EmptySet
<1> QED
  BY <1>3, <1>4, <1>5, <1>6, <1>7 DEF EditedOne, Changes, Named, Sections, g

LEMMA AddEditsOne ==
    ASSUME NEW f, FileOK(f), NEW m \in Member, CanAdd(f, m)
    PROVE  EditedOne(f, Added(f, m), FALSE)
<1> DEFINE e == Line("item", m, 0)
           S == Range(f) \cup {e}
           g == Added(f, m)
<1>1. f \in Seq(Range(f)) /\ Repos(f) # {} /\ m \notin MembersOf(f)
  BY ReadableLines DEF FileOK, CanAdd
<1>2. f \in Seq(S)
  BY <1>1, SeqMonotonic
<1>3. MembersOf(g) = MembersOf(f) \cup {m} /\ \A section : DepsIn(g, section) = DepsIn(f, section)
  BY <1>1, <1>2, AddAddsOne
<1> HIDE DEF g
<1>4. \A section : Changes(f, g, section) = {} /\ Named(g, section) = Named(f, section)
  BY <1>3 DEF Changes, Named
<1>5. Cardinality(MembersOf(g) \ MembersOf(f)) = 1
  <2>1. MembersOf(g) \ MembersOf(f) = {m}
    BY <1>1, <1>3
  <2> QED
    BY <2>1, FS_Singleton
<1>6. Cardinality(Changes(f, g, "dependencies")) = 0
  BY <1>4, FS_EmptySet
<1> QED
  BY <1>3, <1>4, <1>5, <1>6 DEF EditedOne, Changes, Named, Sections, g

LEMMA PruneEditsOne ==
    ASSUME NEW f, FileOK(f), NEW dead, CanPrune(f, dead)
    PROVE  EditedOne(f, Pruned(f, dead), TRUE)
<1> DEFINE g == Pruned(f, dead)
           n == Len(f)
<1>1. n \in Nat /\ DOMAIN f = 1..n /\ Lines(f) /\ KeyedOnce(f) /\ Rewrites(f, g)
  BY ReadableLines, PruneOK DEF FileOK, Readable
<1>2. \A i \in DOMAIN f : f[i].at = "dep" => f[i].value \in Int
  BY WorkspaceBounds DEF FileOK, Readable
<1>3. \A section \in Sections : \A d \in DepsIn(g, section) \ DepsIn(f, section) :
          Unpins(f, section, d)
  BY <1>1, <1>2, PruneUnpins DEF Unpins
<1>4. MembersOf(g) = MembersOf(f)
  BY <1>1, RewriteKeepsMembers
<1>5. \A section : Named(g, section) = Named(f, section)
  BY <1>1, RewriteKeepsNames
<1> HIDE DEF g
<1> QED
  BY <1>3, <1>4, <1>5 DEF EditedOne, Named, Sections, g

\* Who changes the file: the person, or a verb that adds, bumps or prunes.
LEMMA FileEdits ==
    ASSUME Next, file' # file
    PROVE  \/ EditFile
           \/ job.pc = "idle" /\ \E m \in Member : CanAdd(file, m) /\ file' = Added(file, m)
           \/ job.pc = "idle" /\ \E g \in Languages \cup {""}, v \in Commit :
                  CanBump(file, g, "lib") /\ file' = Bumped(file, g, "lib", v)
           \/ job.pc = "prune" /\ \E dead : CanPrune(file, dead) /\ file' = Pruned(file, dead)
<1>1. Person => EditFile
  BY DEF Person, EditMember, CommitMember, Pull, Push, Discard
<1>2. ~Clone /\ ~Sync /\ ~Checkout /\ ~Kill
  BY DEF Clone, Sync, Checkout, Kill
<1>3. Add => job.pc = "idle" /\ \E m \in Member : CanAdd(file, m) /\ file' = Added(file, m)
  BY DEF Add, MayStart
<1>4. Bump => job.pc = "idle" /\ \E g \in Languages \cup {""}, v \in Commit :
                  CanBump(file, g, "lib") /\ file' = Bumped(file, g, "lib", v)
  BY DEF Bump, MayStart
<1>5. Step => Prune
  BY DEF Step, CloneMember, CloneFails, Cloned, Get, Look, Move, List, Restore, Restored,
         Envrc, Render, Settle, Ignore, Lock, Quiet, Fail
<1>6. Prune => job.pc = "prune" /\ \E dead : CanPrune(file, dead) /\ file' = Pruned(file, dead)
  BY DEF Prune, Resync, Fail
<1> QED
  BY <1>1, <1>2, <1>3, <1>4, <1>5, <1>6 DEF Next, Begin

LEMMA EditStep ==
    ASSUME TypeInv, Next, file' # file
    PROVE  counts'.edits > counts.edits \/ EditedOne(file, file', job.pc = "prune")
<1>1. FileOK(file)
  BY DEF TypeInv
<1>2. CASE job.pc = "idle" /\ \E m \in Member : CanAdd(file, m) /\ file' = Added(file, m)
  <2>1. EditedOne(file, file', FALSE)
    BY <1>1, <1>2, AddEditsOne
  <2> QED
    BY <1>2, <2>1 DEF EditedOne
<1>3. CASE job.pc = "idle" /\ \E g \in Languages \cup {""}, v \in Commit :
               CanBump(file, g, "lib") /\ file' = Bumped(file, g, "lib", v)
  <2>1. EditedOne(file, file', FALSE)
    BY <1>1, <1>3, BumpEditsOne
  <2> QED
    BY <1>3, <2>1 DEF EditedOne
<1>4. CASE job.pc = "prune" /\ \E dead : CanPrune(file, dead) /\ file' = Pruned(file, dead)
  <2>1. EditedOne(file, file', TRUE)
    BY <1>1, <1>4, PruneEditsOne
  <2> QED
    BY <1>4, <2>1 DEF EditedOne
<1>5. CASE EditFile
  BY <1>5 DEF EditFile, TypeInv, CountsOK
<1> QED
  BY <1>2, <1>3, <1>4, <1>5, FileEdits

\* An edit of the file by a verb keeps the members and the dependencies it names,
\* whatever the person saved since the verb loaded it: a bump changes the version of
\* one dependency, an add adds one member, and a prune only turns pins into the
\* versions under them, or, for a name that is in both sections, into the version of
\* its entry in dependencies.
THEOREM EditsChangeOne == ASSUME Revision # {} PROVE Spec => EditsOne
<1>1. Spec => []TypeInv
  BY TypeInvHolds
<1>2. TypeInv /\ [Next]_vars
          => [file' # file => \/ counts'.edits > counts.edits
                             \/ EditedOne(file, file', job.pc = "prune")]_vars
  BY EditStep
<1> QED
  BY <1>1, <1>2, PTL DEF Spec, EditsOne

=============================================================================
