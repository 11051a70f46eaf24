------------------------------ MODULE RunTarget -----------------------------
(***************************************************************************)
(* What a request to `forge-factory run` selects (runcontroller): the      *)
(* runnable, the factory, the commit of the member, and with them the run  *)
(* root or the warm tuple.  Nothing here writes; RunCache has what happens *)
(* in the root.                                                            *)
(*                                                                         *)
(* A text is a sequence of words and of the signs "/", "@" and ":".  What  *)
(* the repositories hold when they have been fetched is the record w:      *)
(*   dotted        words that have a dot in them                           *)
(*   directories   local paths that hold a .git                            *)
(*   shas          full commit ids                                         *)
(*   refs[url]     from revisions to the commits they name                 *)
(*   forge[c], factories[c], tracks[c], revisions[c]                       *)
(*                 forge.yaml, the factory, the internal tracks and the    *)
(*                 proven revisions at commit c, where it has them         *)
(*   order         track prefixes in the order of their text               *)
(* What is refused is the empty set, what is found a set of one.  sanitize *)
(* and shortSha, which may make two names one, are left out.               *)
(***************************************************************************)
EXTENDS Naturals, SequencesExt, FiniteSetsExt

DefaultBranch == <<"origin", "/", "HEAD">>

Has(s, sign) == \E i \in DOMAIN s : s[i] = sign
IsAbs(s) == s # <<>> /\ s[1] = "/"

-----------------------------------------------------------------------------
(* Reading a request. *)

isModulePath(w, s) ==
    \/ IsAbs(s)
    \/ Has(s, "/") /\ s[1] \in w.dotted

\* What comes after the last @, unless it holds a sign that no revision has.
splitRev(s) ==
    LET at == Max({0} \cup {i \in DOMAIN s : s[i] = "@"})
        tail == SubSeq(s, at + 1, Len(s))
    IN  IF at = 0 \/ tail = <<>> \/ Has(tail, "/") \/ Has(tail, ":")
        THEN [url |-> s, rev |-> <<>>]
        ELSE [url |-> SubSeq(s, 1, at - 1), rev |-> tail]

\* A module is its host, owner and name; a local one, the innermost directory
\* that holds a repository.
splitTarget(w, s) ==
    LET bare == splitRev(s).url
        slashes == {i \in DOMAIN bare : bare[i] = "/"}
        third == {i \in slashes : Cardinality({j \in slashes : j <= i}) = 3}
        roots == {n \in DOMAIN bare : SubSeq(bare, 1, n) \in w.directories}
        n == CASE IsAbs(bare) /\ roots # {} -> Max(roots)
               [] ~IsAbs(bare) /\ third # {} -> Max(third) - 1
               [] OTHER -> Len(bare)
    IN  [module |-> SubSeq(bare, 1, n), sub |-> SubSeq(bare, n + 2, Len(bare)),
         rev |-> splitRev(s).rev]

moduleToURL(module) ==
    IF IsAbs(module) THEN module
    ELSE <<"git", "@", module[1], ":">> \o SubSeq(module, 3, Len(module))

-----------------------------------------------------------------------------
(* Looking things up. *)

ResolveRev(w, url, rev) ==
    IF url \in DOMAIN w.refs /\ rev \in DOMAIN w.refs[url] THEN {w.refs[url][rev]} ELSE {}

OrDefault(rev) == IF rev = <<>> THEN DefaultBranch ELSE rev

FirstIn(s, hits) == IF hits = {} THEN {} ELSE {s[Min(hits)]}

Clean(s) == SelectSeq(s, LAMBDA t : t \notin {".", "/"})

\* A path names a runnable by its source, anything else by its name.
matchRunnable(forge, target) ==
    FirstIn(forge, {i \in DOMAIN forge :
        IF Has(target, "/") \/ Has(target, ".") THEN Clean(forge[i].src) = Clean(target)
                                                ELSE <<forge[i].name>> = target})

memberByName(file, name) ==
    FirstIn(file.repos, {i \in DOMAIN file.repos : file.repos[i].name = name})

memberFor(file, module) == memberByName(file, Last(module))

factoryAt(w, f) ==
    {[url |-> f.url, sha |-> c, file |-> w.factories[c]]
       : c \in ResolveRev(w, f.url, OrDefault(f.rev)) \cap DOMAIN w.factories}

\* The last prefix in the order of the text; a track that no revision proved
\* is refused.
internalCurrent(w, register, module) ==
    LET tracks == IF module \in DOMAIN w.tracks[register] THEN w.tracks[register][module]
                  ELSE <<>>
        best == {i \in DOMAIN w.order : w.order[i] \in DOMAIN tracks}
    IN  IF best = {} THEN {}
        ELSE {t \in {tracks[w.order[Max(best)]]} : t.provenance # ""}

\* The commits of the members in a proven revision, as far as one can be read.
provenancePins(w, file, provenance) ==
    LET states == UNION {ResolveRev(w, m.url, DefaultBranch) : m \in memberByName(file, file.state)}
        found == {c \in states \cap DOMAIN w.revisions : provenance \in DOMAIN w.revisions[c]}
    IN  IF found = {} THEN <<>> ELSE w.revisions[CHOOSE c \in found : TRUE][provenance]

-----------------------------------------------------------------------------
(* What a remote request selects. *)

Runnables(w, req) ==
    LET t == splitTarget(w, req.target)
        sub == IF t.sub = <<>> THEN req.name ELSE t.sub
    IN  UNION {matchRunnable(w.forge[c], sub)
                 : c \in ResolveRev(w, moduleToURL(t.module), DefaultBranch) \cap DOMAIN w.forge}

\* --factory before what the runnable declares.
FactoryOf(req, r) ==
    IF req.factory # <<>> THEN {splitRev(req.factory)}
    ELSE IF r.factory = <<>> THEN {}
    ELSE {[url |-> r.factory, rev |-> r.factoryRevision]}

\* The commit of the request; without one, that of the revision that proved the
\* version the register has, or else the version's tag.
CommitOf(w, req, file, register) ==
    LET t == splitTarget(w, req.target)
        url == moduleToURL(t.module)
        member == Last(t.module)
    IN  IF t.rev # <<>> THEN ResolveRev(w, url, t.rev)
        ELSE UNION {LET pins == provenancePins(w, file, track.provenance)
                    IN  IF member \in DOMAIN pins THEN {pins[member]}
                        ELSE ResolveRev(w, url, track.current)
                      : track \in internalCurrent(w, register, t.module)}

\* The run root of a request; a factory that does not list the module, or
\* names no register, has none.
RootOf(w, req) ==
    LET module == splitTarget(w, req.target).module
        Roots(f) == IF f.file.register = <<>> \/ memberFor(f.file, module) = {} THEN {}
                    ELSE {[module |-> module, sha |-> c, factory |-> f.url, at |-> f.sha]
                            : c \in UNION {CommitOf(w, req, f.file, r)
                                : r \in ResolveRev(w, f.file.register,
                                                   OrDefault(f.file.registerRev))}}
    IN  UNION {UNION {Roots(f) : f \in factoryAt(w, g)}
                 : g \in UNION {FactoryOf(req, r) : r \in Runnables(w, req)}}

\* The key of the warm tuple, of a request that names both commits in full.
warmTupleKey(w, req) ==
    LET t == splitTarget(w, req.target)
        f == splitRev(req.factory)
    IN  IF t.rev \notin w.shas \/ f.rev \notin w.shas THEN {}
        ELSE {[module |-> t.module, rev |-> t.rev, factory |-> f.url, at |-> f.rev,
               name |-> IF t.sub = <<>> THEN req.name ELSE t.sub]}

-----------------------------------------------------------------------------
(* What a local request selects. *)

\* The directories from dir up that hold a file.
walkUpFor(dir, holders) ==
    LET hits == {n \in 1..Len(dir) : SubSeq(dir, 1, n) \in holders}
    IN  IF hits = {} THEN {} ELSE {SubSeq(dir, 1, Max(hits))}

\* The nearest workspace above a checkout that lists a member of its name.
enclosingWorkspaceClaims(workspaces, repo) ==
    {ws \in walkUpFor(SubSeq(repo, 1, Len(repo) - 1), DOMAIN workspaces) :
        memberByName(workspaces[ws], Last(repo)) # {}}

\* The factory a checkout's runnable resolves from; none inside a workspace
\* that claims it, unless --factory names one.
LocalFactory(workspaces, repo, req, r) ==
    IF req.factory = <<>> /\ enclosingWorkspaceClaims(workspaces, repo) # {} THEN {}
    ELSE FactoryOf(req, r)

LocalRootOf(w, repo, f) ==
    {[local |-> repo, factory |-> g.url, at |-> g.sha]
       : g \in {g \in factoryAt(w, f) : memberByName(g.file, Last(repo)) # {}}}
=============================================================================
