---------------------------- MODULE MCRenderRecord --------------------------
(***************************************************************************)
(* Instances of RenderRecord for TLC, after the engines in cmd/: python    *)
(* renders a member's pyproject.toml and runs uv lock in the member, rust  *)
(* renders Cargo.toml at the root and runs cargo update there, over a      *)
(* directory that holds every member.                                      *)
(***************************************************************************)
EXTENDS RenderRecord, TLC

CONSTANTS p1, p2,                                 \* processes
          pyproject, cargo, cargolock, followup,  \* files
          python, rust,                           \* languages
          uvlock, cargoupdate                     \* lock commands

\* Two languages, the command directory of one inside the other's, and a
\* lockfile; a factory has both or has dropped the member python renders for.
SoloFilesOf == (python :> {pyproject}) @@ (rust :> {cargo})
SoloLockfilesOf == (python :> {}) @@ (rust :> {cargolock})
SoloCmdsOf == (python :> {uvlock}) @@ (rust :> {cargoupdate})
SoloUnder == (uvlock :> {pyproject}) @@ (cargoupdate :> {pyproject, cargo, cargolock})
SoloFactories == {{pyproject, cargo, cargolock}, {cargo, cargolock}}

\* One language and one file; a factory has it or has dropped it.
PairFactories == {{cargo}, {}}
OneFilesOf == rust :> {cargo}
OneLockfilesOf == rust :> {}
OneCmdsOf == rust :> {cargoupdate}
OneUnder == cargoupdate :> {cargo}
OneFactories == {{cargo}}

\* The two processes are alike.
Symmetry == Permutations({p1, p2})
=============================================================================
