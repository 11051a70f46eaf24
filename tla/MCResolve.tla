----------------------------- MODULE MCResolve ------------------------------
(***************************************************************************)
(* An instance of Resolve for TLC.                                         *)
(***************************************************************************)
EXTENDS Resolve, TLC

CONSTANTS lib, tool,  \* a dependency and a tool of the toolchain
          p1, p2,     \* processes
          flaw, leak  \* vulnerabilities

V09 == [numbers |-> <<0, 9>>, pre |-> 0]
V010 == [numbers |-> <<0, 10>>, pre |-> 0]
MCNames == <<V010, V09>>
MCRanks == <<V09, V010>>

Fine(v) == [current |-> v, outcome |-> "clean", counted |-> FALSE, named |-> FALSE,
            ids |-> {}, imports |-> {}, deprecated |-> "no", since |-> 0]
Flawed == [Fine(1) EXCEPT !.outcome = "findings", !.counted = TRUE, !.named = TRUE,
                          !.ids = {flaw, leak}, !.imports = {"net"},
                          !.deprecated = "no-fix", !.since = 0]
\* The advisory block was deleted.
Emptied == [Flawed EXCEPT !.named = FALSE, !.ids = {}, !.imports = {}]
Old == [Fine(1) EXCEPT !.deprecated = "superseded", !.since = 0]
MCRecords == {Fine(2), Flawed, Emptied, Old}
MCStarts == {[e \in {lib, tool} |-> IF e = lib THEN a ELSE Fine(2)] :
                a \in {Absent, Fine(2), Flawed}}
            \cup {[e \in {lib, tool} |-> IF e = lib THEN Fine(2) ELSE Absent]}

Plain == [version |-> 0, track |-> NoVersion, pin |-> 0, mode |-> "none",
          expires |-> 0, acks |-> {}]
Soft == [Plain EXCEPT !.pin = 2, !.mode = "soft"]
Hard == [Plain EXCEPT !.pin = 1, !.mode = "hard", !.expires = 1]
Told == [Plain EXCEPT !.track = V09, !.acks = {[id |-> flaw, until |-> -1],
                                                [id |-> leak, until |-> 0]}]
Own == [Plain EXCEPT !.version = 1]
MCSpecs == {Plain, Soft, Hard, Told, Own}

Symmetry == Permutations({p1, p2})
=============================================================================
