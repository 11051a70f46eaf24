------------------------- MODULE MCDeclaredVersions -------------------------
(***************************************************************************)
(* An instance of DeclaredVersions for TLC.                                *)
(***************************************************************************)
EXTENDS DeclaredVersions, TLC

CONSTANTS a, b,  \* the go.mods of two members
          peer   \* a module of the factory itself

Symmetry == Permutations({a, b})
=============================================================================
