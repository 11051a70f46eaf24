------------------------------ MODULE Runtimes ------------------------------
(***************************************************************************)
(* What the engines answer about a pinned runtime                          *)
(* (internal/controller/describecontroller) and where the files of a       *)
(* fetched archive land (installcontroller).                               *)
(*                                                                         *)
(* A path is a sequence of names.  An artifact's url, with the digest that *)
(* its table row pins, is the triple <<name, version, what it is for>>:    *)
(* two rows differ in it exactly when their digests do.  A refusal is the  *)
(* absence of a description: Described is empty.                           *)
(***************************************************************************)
EXTENDS Sequences, SequencesExt

Platforms == {"linux/amd64", "linux/arm64"}

\* Every table has rows for one version of each runtime.
Versions == [go |-> "1.26.5", rust |-> "1.97.0", python |-> "3.13.7",
             typescript |-> "22.22.2", jre |-> "21.0.5+11",
             pnpm |-> "10.33.0", uv |-> "0.8.17", bun |-> "1.3.14",
             deny |-> "0.20.2", openapi |-> "7.19.0"]

\* The runtimes the archive engine describes; the others have engines of their own.
archiveTable == {"jre", "pnpm", "uv", "bun", "deny", "openapi"}

PinnedArtifact(name, version, for, unpack, strip, picks) ==
    [url |-> <<name, version, for>>, unpack |-> unpack, strip |-> strip,
     picks |-> picks]

Pick(from) == [from |-> <<from>>, at |-> <<>>]
PickAt(at) == [from |-> <<>>, at |-> <<at>>]

-----------------------------------------------------------------------------
(* The tables. *)

Unpacks(name) ==
    CASE name \in {"go", "bun"} -> "zip"
      [] name \in {"pnpm", "openapi"} -> "file"
      [] OTHER -> "tar-gz"

Strip(name) ==
    CASE name = "go" -> 2
      [] name \in {"pnpm", "openapi"} -> 0
      [] OTHER -> 1

Triple(platform) ==
    IF platform = "linux/amd64" THEN "x86_64-gnu" ELSE "aarch64-gnu"

rustStdArtifacts == {"x86_64-gnu", "aarch64-gnu", "x86_64-windows"}

Std(triple) == CASE triple = "x86_64-gnu" -> "rust-std-x86_64-gnu"
                 [] triple = "aarch64-gnu" -> "rust-std-aarch64-gnu"
                 [] OTHER -> "rust-std-x86_64-windows"

Picks(name, platform) ==
    CASE name = "rust" -> <<Pick("rustc"), Pick("cargo"), Pick(Std(Triple(platform))),
                            Pick("rustfmt-preview"), Pick("clippy-preview")>>
      [] name = "pnpm" -> <<PickAt("pnpm")>>
      [] OTHER -> <<>>

\* The platform whose row serves the pin, or nothing: a jar serves them all.
Row(pin) ==
    IF pin.version # Versions[pin.name] THEN {}
    ELSE IF pin.name = "openapi" THEN {"any"}
    ELSE {pin.platform} \cap Platforms

Programs(name) ==
    CASE name = "go" -> {<<"bin", "go">>, <<"bin", "gofmt">>}
      [] name = "rust" -> {<<"bin", b>> : b \in
             {"rustc", "cargo", "rustdoc", "cargo-fmt", "rustfmt",
              "cargo-clippy", "clippy-driver"}}
      [] name = "python" -> {<<"bin", b>> : b \in {"python3", "python3.13", "pip3"}}
      [] name = "typescript" -> {<<"bin", "node">>}
      [] name = "jre" -> {<<"bin", "java">>}
      [] name = "uv" -> {<<"uv">>, <<"uvx">>}
      [] name = "pnpm" -> {<<"pnpm">>}
      [] name = "bun" -> {<<"bun">>}
      [] name = "deny" -> {<<"cargo-deny">>}
      [] OTHER -> {}

\* The paths the environment of a runtime points at, under its prefix.
EnvPaths(name) == CASE name = "jre" -> {<<>>}
               [] name = "openapi" -> {<<"openapi-generator-cli-7.19.0.jar">>}
               [] OTHER -> {}

Satisfies(name) == IF name = "jre" THEN {"jre"} ELSE {}

Prerequisites(name) == CASE name \in {"go", "rust"} -> {"c-compiler"}
                         [] name = "openapi" -> {"jre"}
                         [] OTHER -> {}

\* The rust toolchain of the platform, and one standard library for each other
\* target; a target the table lacks refuses the whole description.
Extra(pin) ==
    IF pin.name # "rust" THEN {} ELSE pin.targets \ {Triple(pin.platform)}

Described(pin) ==
    {[name |-> pin.name,
      artifacts |->
          {PinnedArtifact(pin.name, pin.version, on, Unpacks(pin.name),
                    Strip(pin.name), Picks(pin.name, pin.platform))}
          \cup {PinnedArtifact("rust-std", pin.version, t, "tar-gz", 1, <<Pick(Std(t))>>)
                  : t \in Extra(pin)},
      bins |-> Programs(pin.name),
      env |-> EnvPaths(pin.name),
      provides |-> Satisfies(pin.name),
      needs |-> Prerequisites(pin.name)]
     : on \in IF Extra(pin) \subseteq rustStdArtifacts THEN Row(pin) ELSE {}}

-----------------------------------------------------------------------------
(* Where the files of an archive land. *)

\* The pick a path falls under: the first whose source is the path or a
\* directory above it.
Under(path, pick) == pick.from # <<>> /\ IsPrefix(pick.from, path)

Picked(path, picks) == {i \in DOMAIN picks :
    Under(path, picks[i]) /\ \A j \in 1..(i - 1) : ~Under(path, picks[j])}

\* The place of an archive's file under the prefix, or nothing for a file that
\* the description does not pick.
Route(path, a) ==
    LET rel == SubSeq(path, a.strip + 1, Len(path))
    IN  IF Len(path) <= a.strip THEN {}
        ELSE IF a.picks = <<>> THEN {rel}
        ELSE {a.picks[i].at \o SubSeq(rel, Len(a.picks[i].from) + 1, Len(rel))
                : i \in Picked(rel, a.picks)}

\* A single file keeps the name it has in the url unless its one pick renames it.
FileName(a, base) ==
    IF Len(a.picks) = 1 /\ a.picks[1].from = <<>> /\ a.picks[1].at # <<>>
    THEN a.picks[1].at ELSE base

\* The files that installing artifact a lays out, whose archive holds contents.
LaidOut(a, contents) ==
    IF a.unpack = "file" THEN {FileName(a, c) : c \in contents}
    ELSE UNION {Route(c, a) : c \in contents}
=============================================================================
