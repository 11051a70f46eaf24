----------------------------- MODULE MCToolStore ----------------------------
(***************************************************************************)
(* Instances of ToolStore for TLC: two revisions that share one tool and   *)
(* differ in the other, and a pinned binary whose build may equal a        *)
(* distributed one or not.                                                 *)
(***************************************************************************)
EXTENDS ToolStore, TLC

CONSTANTS p1, p2,      \* processes
          w1, w2,      \* workspaces
          v1, v2,      \* revisions
          forge, ci,   \* tools
          d1, d2, d3,  \* digests
          mockery      \* a pinned binary

TwoIndex == (v1 :> ((forge :> d1) @@ (ci :> d2)))
         @@ (v2 :> ((forge :> d1) @@ (ci :> d3)))
OneIndex == v1 :> (forge :> d1)
TwoBuilds == mockery :> {d2, d3}
OneBuild == mockery :> {d1}

Symmetry == Permutations(Proc) \cup Permutations(Workspace)
=============================================================================
