---------------------------- MODULE MCWorkspace -----------------------------
(***************************************************************************)
(* An instance of Workspace for TLC.                                       *)
(***************************************************************************)
EXTENDS Workspace

CONSTANTS svc, web

MCLanguage == (svc :> "go") @@ (web :> "typescript")
MCOtherLanguage == (svc :> "python") @@ (web :> "rust")
MCManifest == [m \in {svc, web} |-> "committed"]
MCIgnores == (svc :> {2}) @@ (web :> {1, 2})

\* "old" was minted before web was a member, and before lockfiles were recorded.
MCProven == "old" :> ((svc :> 1) @@ (web :> 0)) @@ "new" :> ((svc :> 2) @@ (web :> 2))
MCClosures == "old" :> {} @@ "new" :> {svc, "root"}

MCFile == << Line("top", "repos", 0), Line("item", svc, 0),
             Line("comment", "", 0), Line("remark", "", 0),
             Line("top", "dependencies", 0), Line("language", "go", 0), Line("dep", "lib", 1),
             Line("language", "typescript", 0), Line("dep", "lib", 1) >>

\* lib is pinned, a dependency of one language and a development dependency of the
\* other; the first has it in both sections, the pin in the second.
MCPinnedFile ==
    << Line("top", "repos", 0), Line("item", svc, 0), Line("item", web, 0),
       Line("top", "devDependencies", 0), Line("language", "go", 0), Line("dep", "lib", 2),
       Line("language", "typescript", 0), Line("dep", "lib", -1),
       Line("top", "dependencies", 0), Line("language", "go", 0), Line("dep", "lib", -1) >>

MCFiles == {MCFile, MCPinnedFile}
=============================================================================
