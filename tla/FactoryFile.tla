---------------------------- MODULE FactoryFile ----------------------------
(***************************************************************************)
(* forge-factory.yaml as the lines that add and bump change in place       *)
(* (speccontroller), and what config.Parse reads in them.                  *)
(*                                                                         *)
(* A line: "top", a key in the first column; "item", a member of repos;    *)
(* "language", a key two columns in; "dep", a dependency under it with its *)
(* value; "comment", which is indented, or "remark", which is not.  A      *)
(* version under a pin is negative.                                        *)
(***************************************************************************)
EXTENDS Integers, FiniteSets, SequencesExt

Line(at, name, value) == [at |-> at, name |-> name, value |-> value]

Indented(line) == line.at \notin {"top", "remark"}

\* The last line before i of that kind, or 0.
LastBefore(file, i, at) ==
    LET S == {j \in 1..(i - 1) : file[j].at = at}
    IN  IF S = {} THEN 0 ELSE Max(S)

SectionOf(file, i) ==
    LET j == LastBefore(file, i, "top") IN IF j = 0 THEN "" ELSE file[j].name

LanguageOf(file, i) ==
    LET j == LastBefore(file, i, "language")
    IN  IF j <= LastBefore(file, i, "top") THEN "" ELSE file[j].name

-----------------------------------------------------------------------------
(* What the file says. *)

ItemsOf(file) == {i \in DOMAIN file : file[i].at = "item" /\ SectionOf(file, i) = "repos"}

MembersOf(file) == {file[i].name : i \in ItemsOf(file)}

DepsIn(file, section) ==
    {[language |-> LanguageOf(file, i), name |-> file[i].name, value |-> file[i].value] :
        i \in {j \in DOMAIN file : file[j].at = "dep" /\ SectionOf(file, j) = section}}

\* Validate, as far as an edit can break it: some member, and none twice.
Valid(file) ==
    /\ ItemsOf(file) # {}
    /\ \A i, j \in ItemsOf(file) : file[i].name = file[j].name => i = j

\* UnmarshalStrict: no key twice.  A name may still be in both sections.
KeyedOnce(file) ==
    \A i, j \in {k \in DOMAIN file : file[k].at = "dep"} :
        /\ SectionOf(file, i) = SectionOf(file, j)
        /\ LanguageOf(file, i) = LanguageOf(file, j) /\ file[i].name = file[j].name
        => i = j

-----------------------------------------------------------------------------
(* Bump. *)

\* Faulty: the section is not looked at.
BumpMatchesAnywhere(file, language, name) ==
    {i \in DOMAIN file : /\ file[i].at = "dep" /\ file[i].name = name
                         /\ language \in {"", LanguageOf(file, i)}}

\* The lines of dependencies that a name, with its language or without, means.
BumpMatches(file, language, name) ==
    {i \in DOMAIN file :
        /\ file[i].at = "dep" /\ file[i].name = name
        /\ SectionOf(file, i) = "dependencies"
        /\ language \in {"", LanguageOf(file, i)}}

CanBump(file, language, name) == Cardinality(BumpMatches(file, language, name)) = 1

Bumped(file, language, name, value) ==
    [i \in DOMAIN file |-> IF i \in BumpMatches(file, language, name)
                           THEN Line("dep", name, value) ELSE file[i]]

-----------------------------------------------------------------------------
(* PrunePins. *)

Version(value) == IF value < 0 THEN -value ELSE value

DepLines(file, language, name) ==
    {i \in DOMAIN file : /\ file[i].at = "dep" /\ file[i].name = name
                         /\ SectionOf(file, i) \in {"dependencies", "devDependencies"}
                         /\ LanguageOf(file, i) = language}

\* findDep: the first line of either section.
FindDep(file, language, name) == Min(DepLines(file, language, name))

\* What replaces a dependency is its entry in dependencies, if it has one there.
Unpinned(file, language, name) ==
    LET In(section) == {d \in DepsIn(file, section) : d.language = language /\ d.name = name}
        entry == IF In("dependencies") # {} THEN In("dependencies") ELSE In("devDependencies")
    IN  Version((CHOOSE d \in entry : TRUE).value)

CanPrune(file, dead) == \A d \in dead : DepLines(file, d.language, d.name) # {}

Pruned(file, dead) ==
    [i \in DOMAIN file |->
        IF \E d \in dead : i = FindDep(file, d.language, d.name)
        THEN Line("dep", file[i].name, Unpinned(file, LanguageOf(file, i), file[i].name))
        ELSE file[i]]

-----------------------------------------------------------------------------
(* Add. *)

Repos(file) == {i \in DOMAIN file : file[i].at = "top" /\ file[i].name = "repos"}

\* The last of the indented lines that follow "repos:" without a break.
LastRepoLine(file) ==
    LET start == Min(Repos(file))
    IN  Max({i \in start..Len(file) : \A j \in (start + 1)..i : Indented(file[j])})

Added(file, name) == InsertAt(file, LastRepoLine(file) + 1, Line("item", name, 0))

CanAdd(file, name) == /\ Repos(file) # {} /\ name \notin MembersOf(file)
                      /\ Valid(Added(file, name))
=============================================================================
