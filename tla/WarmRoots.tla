------------------------------ MODULE WarmRoots -----------------------------
(***************************************************************************)
(* What the run cache promises its users of a remote run root: one process *)
(* at a time works on it; the sources in it grow and are torn down until   *)
(* they are whole and what a sync makes from them is made, and it is then  *)
(* warm, for good.  Commands execute in warm roots only, without a lock:   *)
(* the sources of a warm root never change again.  What was made in it     *)
(* does, under a process told to redo it, even while others execute there; *)
(* and one that dies at that leaves it warm and made in part.              *)
(*                                                                         *)
(* Module RunCache implements it, with clones, worktrees, registrations,   *)
(* a marker, tuple files and two levels of locks.                          *)
(***************************************************************************)
CONSTANTS
    Proc,      \* processes
    Root,      \* run roots
    Nobody,    \* "no process"
    NoRoot,    \* "no root"
    State,     \* what may stand in a root
    Empty,     \* nothing
    Whole      \* all the sources that a command needs

VARIABLES
    tree,      \* tree[r]: the sources that stand in root r
    made,      \* made[r]: how much of what a sync makes is there
    warm,      \* the roots that are ready
    maker,     \* maker[r]: who works on r
    redo,      \* the roots whose maker was told to redo them
    user       \* user[p]: the root p executes in

vars == <<tree, made, warm, maker, redo, user>>

Made == {"none", "partial", "done"}

Init ==
    /\ tree = [r \in Root |-> Empty]
    /\ made = [r \in Root |-> "none"]
    /\ warm = {}
    /\ maker = [r \in Root |-> Nobody]
    /\ redo = {}
    /\ user = [p \in Proc |-> NoRoot]

\* p waits for its turn.
Enter(p, r) ==
    /\ maker[r] = Nobody
    /\ maker' = [maker EXCEPT ![r] = p]
    /\ redo' \in {redo, redo \cup {r}}
    /\ UNCHANGED <<tree, made, warm, user>>

\* It adds to a root that is not warm, or takes from it.
Work(p, r) ==
    /\ maker[r] = p /\ r \notin warm
    /\ \E s \in State : tree' = [tree EXCEPT ![r] = s]
    /\ \E m \in Made : made' = [made EXCEPT ![r] = m]
    /\ UNCHANGED <<warm, maker, redo, user>>

\* It makes again what a sync makes in a warm root, from the same sources.
Redo(p, r) ==
    /\ maker[r] = p /\ r \in warm \cap redo
    /\ \E m \in Made \ {"none"} : made' = [made EXCEPT ![r] = m]
    /\ UNCHANGED <<tree, warm, maker, redo, user>>

\* A whole root with all made is declared warm, and left to its users.
Finish(p, r) ==
    /\ maker[r] = p /\ tree[r] = Whole /\ made[r] = "done"
    /\ warm' = warm \cup {r}
    /\ maker' = [maker EXCEPT ![r] = Nobody]
    /\ redo' = redo \ {r}
    /\ UNCHANGED <<tree, made, user>>

\* A root that is warm already is left as it is, unless it is to be redone.
Find(p, r) ==
    /\ maker[r] = p /\ r \in warm \ redo
    /\ maker' = [maker EXCEPT ![r] = Nobody]
    /\ UNCHANGED <<tree, made, warm, redo, user>>

Use(p, r) ==
    /\ user[p] = NoRoot /\ r \in warm
    /\ user' = [user EXCEPT ![p] = r]
    /\ UNCHANGED <<tree, made, warm, maker, redo>>

\* Its command ends, or it fails or dies at whatever it was doing.
Depart(p) ==
    /\ maker' = [r \in Root |-> IF maker[r] = p THEN Nobody ELSE maker[r]]
    /\ redo' = {r \in redo : maker[r] # p}
    /\ user' = [user EXCEPT ![p] = NoRoot]
    /\ UNCHANGED <<tree, made, warm>>

Next ==
    \E p \in Proc :
        \/ Depart(p)
        \/ \E r \in Root :
              \/ Enter(p, r) \/ Work(p, r) \/ Redo(p, r)
              \/ Finish(p, r) \/ Find(p, r) \/ Use(p, r)

Spec == Init /\ [][Next]_vars
=============================================================================
