--------------------------- MODULE RunCache_proofs --------------------------
(***************************************************************************)
(* What holds of the run cache for any number of processes and run roots,  *)
(* whatever is killed, as long as nobody cleans the cache meanwhile.       *)
(***************************************************************************)
EXTENDS RunCache, TLAPS

-----------------------------------------------------------------------------
(* The inductive invariant. *)

\* What p does fits the kind of its command.
Fits(p) ==
    /\ job[p].kind \in {"none", "remote", "local"}
    /\ job[p].kind = "none" <=> job[p].pc = "idle"
    /\ job[p].kind = "remote" =>
          /\ job[p].root \in Remote
          /\ job[p].pc \in {"root", "inspect", "discard"} =>
                job[p].part = "member"
    /\ job[p].kind = "local" =>
          /\ job[p].root \in Local
          /\ ~job[p].pinned
          /\ job[p].part = "register"
          /\ job[p].pc \notin {"tuple", "inspect", "discard", "mark"}

JobInv == \A p \in Proc : Fits(p)

\* p holds the lock of every section it is in.
Holds(p) ==
    /\ InRoot(p) => lock[job[p].root] = p
    /\ InClone(p) => lock[job[p].part] = p

LockInv == \A p \in Proc : Holds(p)

\* What p has established about the member's worktree in its root.
Built(p) ==
    job[p].kind = "remote" =>
        /\ job[p].pc \in {"inputs", "exec"} => job[p].root \in marker
        /\ job[p].pc = "discard" => job[p].root \notin marker
        /\ job[p].pc = "checkout" /\ job[p].part = "member" =>
              dir[job[p].root]["member"] # "partial"
        /\ job[p].pc = "worktree" /\ job[p].part = "member" =>
              dir[job[p].root]["member"] = "absent"
        /\ job[p].pc = "adding" /\ job[p].part = "member" =>
              job[p].root \notin marker
        /\ (\/ job[p].pc \in {"sync", "syncing", "mark"}
            \/ /\ job[p].pc \in {"checkout", "worktree", "adding"}
               /\ job[p].part = "register")
           => dir[job[p].root]["member"] = "whole"

\* Only marked roots are entered warm, and what is marked is whole.
RootInv ==
    /\ tuple \subseteq marker
    /\ \A r \in marker : dir[r]["member"] = "whole"
    /\ \A p \in Proc : Built(p)

\* git holds a registration for what is being added and for what is whole.
RegisteredInv ==
    /\ WholeIsRegistered
    /\ \A p \in Proc :
          job[p].pc = "adding" => job[p].root \in registered[job[p].part]

-----------------------------------------------------------------------------
(* Types. *)

\* The jobs a run starts with.
RemoteJob(r, force, pinned) ==
    [Idle EXCEPT !.kind = "remote", !.root = r, !.force = force,
        !.pinned = pinned,
        !.pc = IF pinned /\ ~force THEN "tuple" ELSE "clone"]
LocalJob(r) ==
    [Idle EXCEPT !.kind = "local", !.root = r, !.part = "register",
        !.pc = "root"]

\* The job of a running process, field by field.
LEMMA JobFields ==
    ASSUME TypeOK, JobInv, NEW p \in Proc
    PROVE  /\ job[p] \in Job
           /\ job[p].part \in {"member", "register"}
           /\ job[p].reg \in 0..MaxRev
           /\ job[p].pc # "idle" => job[p].root \in Root
<1>1. job[p] \in Job
  BY DEF TypeOK
<1> QED
  BY <1>1 DEF Job, Part, JobInv, Fits, Root

\* The jobs a process starts with or goes back to.
LEMMA JobValues ==
    /\ Idle \in Job
    /\ \A r \in Remote, force \in Forces, pinned \in BOOLEAN :
          RemoteJob(r, force, pinned) \in Job
    /\ \A r \in Local : LocalJob(r) \in Job
<1>1. 0 \in 0..MaxRev
  BY CacheBounds
<1>2. Idle \in Job
  BY <1>1 DEF Idle, Job, Pc, Part
<1>3. ASSUME NEW r \in Remote, NEW force \in Forces, NEW pinned \in BOOLEAN
      PROVE  RemoteJob(r, force, pinned) \in Job
  <2>1. force \in BOOLEAN /\ r \in Root
    BY CacheAssumption DEF Root
  <2> QED
    BY <1>1, <2>1 DEF RemoteJob, Idle, Job, Pc, Part
<1>4. ASSUME NEW r \in Local
      PROVE  LocalJob(r) \in Job
  <2>1. r \in Root
    BY DEF Root
  <2> QED
    BY <1>1, <2>1 DEF LocalJob, Idle, Job, Pc, Part
<1> QED
  BY <1>2, <1>3, <1>4

\* Moving on keeps a job's type.
LEMMA GotoTypes ==
    ASSUME TypeOK, NEW p \in Proc, NEW c \in Part, NEW pc \in Pc,
           Goto(p, pc) \/ GotoPart(p, c, pc)
    PROVE  job' \in [Proc -> Job]
<1>1. job \in [Proc -> Job]
  BY DEF TypeOK
<1>2. [job[p] EXCEPT !.pc = pc] \in Job
  BY <1>1 DEF Job
<1>3. [job[p] EXCEPT !.part = c, !.pc = pc] \in Job
  BY <1>1 DEF Job
<1> QED
  BY <1>1, <1>2, <1>3 DEF Goto, GotoPart

\* The job after any step of a run is a job.
LEMMA JobMovesOn ==
    ASSUME TypeOK, JobInv, NEW p \in Proc, Step(p)
    PROVE  job' \in [Proc -> Job]
<1> USE DEF Part, Pc
<1>1. CASE EnterTuple(p)
  BY <1>1, GotoTypes DEF EnterTuple
<1>2. CASE LockClone(p)
  BY <1>2, GotoTypes DEF LockClone
<1>3. CASE Fetch(p)
  BY <1>3, GotoTypes DEF Fetch, Refreshed
<1>4. CASE FetchFails(p)
  BY <1>4, JobValues DEF FetchFails, Leave, TypeOK
<1>5. CASE BeginClone(p)
  BY <1>5, GotoTypes DEF BeginClone
<1>6. CASE EndClone(p)
  BY <1>6, GotoTypes DEF EndClone, Refreshed
<1>7. CASE Resolve(p)
  <2>1. job \in [Proc -> Job] /\ head \in 0..MaxRev
    BY DEF TypeOK
  <2>2. [job[p] EXCEPT !.reg = head, !.part = "member", !.pc = "root"] \in Job
    BY <2>1 DEF Job
  <2>3. [job[p] EXCEPT !.reg = head, !.pc = "checkout"] \in Job
    BY <2>1 DEF Job
  <2> QED
    BY <1>7, <2>1, <2>2, <2>3 DEF Resolve
<1>8. CASE LockRoot(p)
  BY <1>8, GotoTypes DEF LockRoot
<1>9. CASE Inspect(p)
  BY <1>9, GotoTypes DEF Inspect
<1>10. CASE Discard(p)
  BY <1>10, GotoTypes DEF Discard, TypeOK
<1>11. CASE Keep(p)
  BY <1>11, GotoTypes DEF Keep, Placed
<1>12. CASE LockWorktree(p)
  BY <1>12, GotoTypes DEF LockWorktree
<1>13. CASE Prune(p)
  BY <1>13, GotoTypes DEF Prune, TypeOK
<1>14. CASE BeginAdd(p)
  BY <1>14, GotoTypes DEF BeginAdd
<1>15. CASE EndAdd(p)
  BY <1>15, GotoTypes DEF EndAdd, Placed
<1>16. CASE BeginSync(p)
  BY <1>16, GotoTypes DEF BeginSync
<1>17. CASE EndSync(p)
  BY <1>17, GotoTypes DEF EndSync
<1>18. CASE Mark(p)
  BY <1>18, GotoTypes DEF Mark
<1>19. CASE CheckInputs(p)
  BY <1>19, GotoTypes DEF CheckInputs, Tupled, Keyed
<1>20. CASE End(p)
  BY <1>20, JobValues DEF End, Leave, TypeOK
<1> QED
  BY <1>1, <1>2, <1>3, <1>4, <1>5, <1>6, <1>7, <1>8, <1>9, <1>10,
     <1>11, <1>12, <1>13, <1>14, <1>15, <1>16, <1>17, <1>18, <1>19, <1>20 DEF Step

\* Every step keeps the types.
LEMMA TypeStep ==
    ASSUME TypeOK, JobInv, [Next]_vars
    PROVE  TypeOK'
<1> USE CacheAssumption, CacheBounds DEF TypeOK, Job, Pc, Idle, Part, Key,
        Root, State
<1>0. ASSUME NEW p \in Proc, NEW j \in Job, Start(p, j)
      PROVE  TypeOK'
  BY <1>0 DEF Start, roots
<1>1. ASSUME NEW p \in Proc, RunRemote(p)
      PROVE  TypeOK'
  <2>1. PICK r \in Remote, force \in Forces, pinned \in BOOLEAN :
            Start(p, RemoteJob(r, force, pinned))
    BY <1>1 DEF RunRemote, RemoteJob
  <2>2. RemoteJob(r, force, pinned) \in Job
    BY JobValues
  <2> QED BY <2>1, <2>2, <1>0
<1>2. ASSUME NEW p \in Proc, RunLocal(p)
      PROVE  TypeOK'
  <2>1. PICK r \in Local : Start(p, LocalJob(r))
    BY <1>2 DEF RunLocal, LocalJob
  <2>2. LocalJob(r) \in Job
    BY JobValues
  <2> QED BY <2>1, <2>2, <1>0
<1>3. ASSUME NEW p \in Proc, Abort(p)
      PROVE  TypeOK'
  BY <1>3 DEF Abort, Leave, roots
<1>4. CASE Publish
  BY <1>4 DEF Publish, roots
<1>5. CASE UNCHANGED vars
  BY <1>5 DEF vars
<1>6. ASSUME NEW p \in Proc, Step(p)
      PROVE  TypeOK'
  <2>0. /\ job' \in [Proc -> Job]
        /\ job[p] \in Job /\ job[p].root \in Root
    BY <1>6, JobMovesOn, JobFields DEF Step, EnterTuple, LockClone, Fetch,
       FetchFails, BeginClone, EndClone, Resolve, LockRoot, Inspect, Discard,
       Keep, LockWorktree, Prune, BeginAdd, EndAdd, BeginSync, EndSync, Mark,
       CheckInputs, Tupled, Keyed, End
  <2> USE DEF clones, roots, counts
  <2>1. CASE EnterTuple(p) BY <2>0, <2>1 DEF EnterTuple
  <2>2. CASE LockClone(p) BY <2>0, <2>2 DEF LockClone, Acquire
  <2>3. CASE Fetch(p) BY <2>0, <2>3 DEF Fetch, Refreshed, Release
  <2>4. CASE FetchFails(p) BY <2>0, <2>4 DEF FetchFails, Leave
  <2>5. CASE BeginClone(p) BY <2>0, <2>5 DEF BeginClone
  <2>6. CASE EndClone(p) BY <2>0, <2>6 DEF EndClone, Refreshed, Release
  <2>7. CASE Resolve(p) BY <2>0, <2>7 DEF Resolve
  <2>8. CASE LockRoot(p) BY <2>0, <2>8 DEF LockRoot, Acquire
  <2>9. CASE Inspect(p) BY <2>0, <2>9 DEF Inspect, Release
  <2>10. CASE Discard(p) BY <2>0, <2>10 DEF Discard, Wear
  <2>11. CASE Keep(p) BY <2>0, <2>11 DEF Keep
  <2>12. CASE LockWorktree(p) BY <2>0, <2>12 DEF LockWorktree, Acquire
  <2>13. CASE Prune(p) BY <2>0, <2>13 DEF Prune
  <2>14. CASE BeginAdd(p) BY <2>0, <2>14 DEF BeginAdd
  <2>15. CASE EndAdd(p) BY <2>0, <2>15 DEF EndAdd, Release
  <2>16. CASE BeginSync(p) BY <2>0, <2>16 DEF BeginSync
  <2>17. CASE EndSync(p) BY <2>0, <2>17 DEF EndSync
  <2>18. CASE Mark(p) BY <2>0, <2>18 DEF Mark, Release
  <2>19. CASE CheckInputs(p) BY <2>0, <2>19 DEF CheckInputs, Tupled, Keyed
  <2>20. CASE End(p) BY <2>0, <2>20 DEF End, Leave
  <2> QED BY <1>6, <2>1, <2>2, <2>3, <2>4, <2>5, <2>6, <2>7, <2>8, <2>9,
             <2>10, <2>11, <2>12, <2>13, <2>14, <2>15, <2>16, <2>17, <2>18,
             <2>19, <2>20 DEF Step
<1> QED BY <1>1, <1>2, <1>3, <1>4, <1>5, <1>6 DEF Next

-----------------------------------------------------------------------------
(* What the step of one process leaves alone. *)

\* Whatever p does.
Moves(p) == RunRemote(p) \/ RunLocal(p) \/ Step(p) \/ Abort(p)

\* The job and the locks of another process.
LEMMA OthersLeftAlone ==
    ASSUME TypeOK, NEW p \in Proc, Moves(p), NEW q \in Proc, q # p
    PROVE  /\ job'[q] = job[q]
           /\ \A k \in Key : lock[k] = q => lock'[k] = q
<1> USE DEF TypeOK
<1>1. q # Nobody
  BY CacheAssumption
<1>2. ASSUME NEW j, Start(p, j)
      PROVE  job'[q] = job[q] /\ lock' = lock
  BY <1>2 DEF Start
<1>3. CASE RunRemote(p)
  BY <1>3, <1>2 DEF RunRemote
<1>4. CASE RunLocal(p)
  BY <1>4, <1>2 DEF RunLocal
<1>5. CASE Abort(p)
  BY <1>5 DEF Abort, Leave
<1>6. CASE Step(p)
  <2>1. job'[q] = job[q]
    BY <1>6 DEF Step, Goto, GotoPart, Refreshed, Placed, Leave,
       EnterTuple, LockClone, Fetch, FetchFails, BeginClone, EndClone, Resolve,
     LockRoot, Inspect, Discard, Keep, LockWorktree, Prune, BeginAdd, EndAdd,
     BeginSync, EndSync, Mark, CheckInputs, Tupled, Keyed, End
  <2>2. \A k \in Key : lock[k] = q => lock'[k] = q
    <3>1. CASE EnterTuple(p) \/ BeginClone(p) \/ Resolve(p) \/ Discard(p)
               \/ Keep(p) \/ Prune(p) \/ BeginAdd(p) \/ BeginSync(p)
               \/ EndSync(p) \/ CheckInputs(p)
      BY <3>1 DEF EnterTuple, BeginClone, Resolve, Discard, Keep, Prune,
         BeginAdd, BeginSync, EndSync, CheckInputs, Tupled, Keyed
    <3>2. CASE LockClone(p) \/ LockRoot(p) \/ LockWorktree(p)
      BY <3>2, <1>1 DEF LockClone, LockRoot, LockWorktree, Acquire
    <3>3. CASE Fetch(p) \/ EndClone(p) \/ Inspect(p) \/ EndAdd(p) \/ Mark(p)
      BY <3>3 DEF Fetch, EndClone, Refreshed, Inspect, EndAdd, Mark, Release
    <3>4. CASE FetchFails(p) \/ End(p)
      BY <3>4 DEF FetchFails, End, Leave
    <3> QED
      BY <1>6, <3>1, <3>2, <3>3, <3>4 DEF Step
  <2> QED
    BY <2>1, <2>2
<1> QED
  BY <1>3, <1>4, <1>5, <1>6 DEF Moves

\* A run root p is not working in, and a clone it is not working in.
LEMMA ElsewhereLeftAlone ==
    ASSUME TypeOK, JobInv, NEW p \in Proc, Moves(p)
    PROVE  /\ \A r \in Root : ~(InRoot(p) /\ job[p].root = r) =>
                 dir'[r] = dir[r] /\ (r \in marker' <=> r \in marker)
           /\ marker \subseteq marker'
           /\ \A c \in Part : ~(InClone(p) /\ job[p].part = c) =>
                 registered'[c] = registered[c]
<1> USE DEF roots, clones
<1>1. job[p].pc # "idle" => job[p].kind \in {"remote", "local"}
  BY DEF JobInv, Fits
<1>2. CASE UNCHANGED <<dir, marker, registered>>
  BY <1>2
<1>3. CASE Discard(p)
  <2>1. InRoot(p) /\ marker' = marker /\ registered' = registered
    BY <1>3, <1>1 DEF Discard, InRoot, JobInv, Fits
  <2>2. \A r \in Root : r # job[p].root => dir'[r] = dir[r]
    BY <1>3 DEF Discard, TypeOK
  <2> QED
    BY <2>1, <2>2
<1>4. CASE Prune(p)
  <2>1. InClone(p) /\ dir' = dir /\ marker' = marker
    BY <1>4 DEF Prune, InClone
  <2>2. \A c \in Part : c # job[p].part => registered'[c] = registered[c]
    BY <1>4 DEF Prune, TypeOK
  <2> QED
    BY <2>1, <2>2
<1>5. CASE BeginAdd(p)
  <2>1. InRoot(p) /\ InClone(p) /\ marker' = marker
    BY <1>5, <1>1 DEF BeginAdd, InRoot, InClone
  <2>2. \A c \in Part : c # job[p].part => registered'[c] = registered[c]
    BY <1>5 DEF BeginAdd, TypeOK
  <2>3. \A r \in Root : r # job[p].root => dir'[r] = dir[r]
    BY <1>5 DEF BeginAdd, TypeOK
  <2> QED
    BY <2>1, <2>2, <2>3
<1>6. CASE EndAdd(p)
  <2>1. InRoot(p) /\ marker' = marker /\ registered' = registered
    BY <1>6, <1>1 DEF EndAdd, InRoot
  <2>2. \A r \in Root : r # job[p].root => dir'[r] = dir[r]
    BY <1>6 DEF EndAdd, TypeOK
  <2> QED
    BY <2>1, <2>2
<1>7. CASE Mark(p)
  <2>1. InRoot(p) /\ dir' = dir /\ registered' = registered
    BY <1>7, <1>1 DEF Mark, InRoot, JobInv, Fits
  <2> QED
    BY <1>7, <2>1 DEF Mark
<1>8. CASE \/ RunRemote(p) \/ RunLocal(p) \/ Abort(p) \/ EnterTuple(p)
           \/ LockClone(p) \/ Fetch(p) \/ FetchFails(p) \/ BeginClone(p)
           \/ EndClone(p) \/ Resolve(p) \/ LockRoot(p) \/ Inspect(p)
           \/ Keep(p) \/ LockWorktree(p) \/ BeginSync(p) \/ EndSync(p)
           \/ CheckInputs(p) \/ End(p)
  BY <1>8, <1>2 DEF RunRemote, RunLocal, Start, Abort, EnterTuple, LockClone,
     Fetch, FetchFails, BeginClone, EndClone, Resolve, LockRoot, Inspect,
     Keep, LockWorktree, BeginSync, EndSync, CheckInputs, Tupled, Keyed, End
<1> QED
  BY <1>3, <1>4, <1>5, <1>6, <1>7, <1>8 DEF Moves, Step

-----------------------------------------------------------------------------
(* The job after a step, field by field. *)

Same(p) ==
    /\ job'[p].kind = job[p].kind
    /\ job'[p].root = job[p].root
    /\ job'[p].pinned = job[p].pinned
    /\ job'[p].force = job[p].force

\* Moving on changes where p is, and perhaps which repository it is at.
LEMMA AfterGoto ==
    ASSUME TypeOK, NEW p \in Proc
    PROVE  /\ \A pc : Goto(p, pc) =>
                 Same(p) /\ job'[p].pc = pc /\ job'[p].part = job[p].part
           /\ \A c, pc : GotoPart(p, c, pc) =>
                 Same(p) /\ job'[p].pc = pc /\ job'[p].part = c
           /\ job' = job =>
                 Same(p) /\ job'[p].pc = job[p].pc /\ job'[p].part = job[p].part
<1>1. job \in [Proc -> Job] /\ job[p] \in Job
  BY DEF TypeOK
<1>2. ASSUME NEW pc, Goto(p, pc)
      PROVE  Same(p) /\ job'[p].pc = pc /\ job'[p].part = job[p].part
  <2>1. job'[p] = [job[p] EXCEPT !.pc = pc]
    BY <1>1, <1>2 DEF Goto
  <2> QED
    BY <1>1, <2>1 DEF Same, Job
<1>3. ASSUME NEW c, NEW pc, GotoPart(p, c, pc)
      PROVE  Same(p) /\ job'[p].pc = pc /\ job'[p].part = c
  <2>1. job'[p] = [job[p] EXCEPT !.part = c, !.pc = pc]
    BY <1>1, <1>3 DEF GotoPart
  <2> QED
    BY <1>1, <2>1 DEF Same, Job
<1> QED
  BY <1>2, <1>3 DEF Same

\* Resolving the register's revision sends a run to its root.
LEMMA AfterResolve ==
    ASSUME TypeOK, NEW p \in Proc, Resolve(p)
    PROVE  /\ Same(p)
           /\ UNCHANGED <<clones, roots, lock>>
           /\ job[p].pc = "resolve"
           /\ job[p].kind = "remote" =>
                 job'[p].pc = "root" /\ job'[p].part = "member"
           /\ job[p].kind # "remote" =>
                 job'[p].pc = "checkout" /\ job'[p].part = job[p].part
<1>1. job \in [Proc -> Job] /\ job[p] \in Job
  BY DEF TypeOK
<1>2. job'[p] = IF job[p].kind = "remote"
                THEN [job[p] EXCEPT !.reg = head, !.part = "member", !.pc = "root"]
                ELSE [job[p] EXCEPT !.reg = head, !.pc = "checkout"]
  BY <1>1 DEF Resolve
<1>3. UNCHANGED <<clones, roots, lock>> /\ job[p].pc = "resolve"
  BY DEF Resolve
<1>4. CASE job[p].kind = "remote"
  BY <1>1, <1>2, <1>3, <1>4 DEF Same, Job
<1>5. CASE job[p].kind # "remote"
  BY <1>1, <1>2, <1>3, <1>5 DEF Same, Job
<1> QED
  BY <1>4, <1>5

\* A command starts outside every section, and leaves them all at its end.
LEMMA AfterStart ==
    ASSUME TypeOK, NEW p \in Proc
    PROVE  /\ RunRemote(p) =>
                 /\ job'[p].kind = "remote" /\ job'[p].root \in Remote
                 /\ job'[p].pc \in {"tuple", "clone"} /\ job'[p].force \in Forces
                 /\ UNCHANGED roots
           /\ RunLocal(p) =>
                 /\ job'[p].kind = "local" /\ job'[p].root \in Local
                 /\ job'[p].pc = "root" /\ job'[p].part = "register"
                 /\ ~job'[p].pinned /\ ~job'[p].force
                 /\ UNCHANGED roots
           /\ Abort(p) \/ FetchFails(p) \/ End(p) =>
                 /\ job'[p].kind = "none" /\ job'[p].pc = "idle" /\ ~job'[p].force
                 /\ UNCHANGED roots
<1>1. job \in [Proc -> Job]
  BY DEF TypeOK
<1>2. ASSUME NEW j, Start(p, j)
      PROVE  job'[p] = j /\ UNCHANGED roots
  BY <1>1, <1>2 DEF Start
<1>3. ASSUME RunRemote(p)
      PROVE  /\ job'[p].kind = "remote" /\ job'[p].root \in Remote
             /\ job'[p].pc \in {"tuple", "clone"} /\ job'[p].force \in Forces
             /\ UNCHANGED roots
  <2>1. PICK r \in Remote, force \in Forces, pinned \in BOOLEAN :
            Start(p, RemoteJob(r, force, pinned))
    BY <1>3 DEF RunRemote, RemoteJob
  <2>2. job'[p] = RemoteJob(r, force, pinned) /\ UNCHANGED roots
    BY <2>1, <1>2
  <2> QED
    BY <2>2 DEF RemoteJob, Idle
<1>4. ASSUME RunLocal(p)
      PROVE  /\ job'[p].kind = "local" /\ job'[p].root \in Local
             /\ job'[p].pc = "root" /\ job'[p].part = "register"
             /\ ~job'[p].pinned /\ ~job'[p].force
             /\ UNCHANGED roots
  <2>1. PICK r \in Local : Start(p, LocalJob(r))
    BY <1>4 DEF RunLocal, LocalJob
  <2>2. job'[p] = LocalJob(r) /\ UNCHANGED roots
    BY <2>1, <1>2
  <2> QED
    BY <2>2 DEF LocalJob, Idle
<1>5. ASSUME Abort(p) \/ FetchFails(p) \/ End(p)
      PROVE  /\ job'[p].kind = "none" /\ job'[p].pc = "idle" /\ ~job'[p].force
             /\ UNCHANGED roots
  BY <1>1, <1>5 DEF Abort, FetchFails, End, Leave, Idle
<1> QED
  BY <1>3, <1>4, <1>5

-----------------------------------------------------------------------------
(* One process per lock. *)

\* A step of p keeps what p is doing consistent with its command.
LEMMA FitsStep ==
    ASSUME TypeOK, JobInv, NEW p \in Proc, Moves(p)
    PROVE  Fits(p)'
<1> USE DEF Fits, Same
<1>0. /\ Fits(p)
      /\ job[p].part \in {"member", "register"}
      /\ job[p].pc # "idle" => job[p].kind \in {"remote", "local"}
  BY JobFields DEF JobInv
<1>1. CASE RunRemote(p) \/ RunLocal(p)
  BY <1>1, AfterStart
<1>2. CASE Abort(p)
  BY <1>2, AfterStart
<1>3. CASE EnterTuple(p)
  BY <1>3, <1>0, AfterGoto DEF EnterTuple
<1>4. CASE LockClone(p)
  BY <1>4, <1>0, AfterGoto DEF LockClone, Acquire
<1>5. CASE Fetch(p)
  BY <1>5, <1>0, AfterGoto DEF Fetch, Refreshed, Release
<1>6. CASE FetchFails(p)
  BY <1>6, <1>0, AfterStart DEF FetchFails
<1>7. CASE BeginClone(p)
  BY <1>7, <1>0, AfterGoto DEF BeginClone
<1>8. CASE EndClone(p)
  BY <1>8, <1>0, AfterGoto DEF EndClone, Refreshed, Release
<1>9. CASE Resolve(p)
  BY <1>9, <1>0, AfterResolve
<1>10. CASE LockRoot(p)
  BY <1>10, <1>0, AfterGoto DEF LockRoot, Acquire
<1>11. CASE Inspect(p)
  BY <1>11, <1>0, AfterGoto DEF Inspect, Release
<1>12. CASE Discard(p)
  BY <1>12, <1>0, AfterGoto DEF Discard
<1>13. CASE Keep(p)
  BY <1>13, <1>0, AfterGoto DEF Keep, Placed
<1>14. CASE LockWorktree(p)
  BY <1>14, <1>0, AfterGoto DEF LockWorktree, Acquire
<1>15. CASE Prune(p)
  BY <1>15, <1>0, AfterGoto DEF Prune
<1>16. CASE BeginAdd(p)
  BY <1>16, <1>0, AfterGoto DEF BeginAdd
<1>17. CASE EndAdd(p)
  BY <1>17, <1>0, AfterGoto DEF EndAdd, Placed, Release
<1>18. CASE BeginSync(p)
  BY <1>18, <1>0, AfterGoto DEF BeginSync
<1>19. CASE EndSync(p)
  BY <1>19, <1>0, AfterGoto DEF EndSync
<1>20. CASE Mark(p)
  BY <1>20, <1>0, AfterGoto DEF Mark, Release
<1>21. CASE CheckInputs(p)
  BY <1>21, <1>0, AfterGoto DEF CheckInputs, Tupled, Keyed
<1>22. CASE End(p)
  BY <1>22, <1>0, AfterStart DEF End
<1> QED
  BY <1>1, <1>2, <1>3, <1>4, <1>5, <1>6, <1>7, <1>8, <1>9, <1>10, <1>11,
     <1>12, <1>13, <1>14, <1>15, <1>16, <1>17, <1>18, <1>19, <1>20,
     <1>21, <1>22 DEF Moves, Step

\* A step of p takes the lock of every section it enters, and gives up none
\* of a section it stays in.
LEMMA HoldsStep ==
    ASSUME TypeOK, JobInv, LockInv, NEW p \in Proc, Moves(p)
    PROVE  Holds(p)'
<1> USE DEF Holds, InRoot, InClone, Same
<1>0. /\ lock \in [Key -> Proc \cup {Nobody}]
      /\ Fits(p) /\ Holds(p)
      /\ job[p].part \in Key
      /\ job[p].part \in {"member", "register"}
      /\ job[p].pc # "idle" =>
            /\ job[p].kind \in {"remote", "local"}
            /\ job[p].root # job[p].part
            /\ job[p].root \in Key
  <2>1. job[p].part \in {"member", "register"} /\ job[p] \in Job
    BY JobFields
  <2>2. job[p].part \in Key
    BY <2>1 DEF Part, Key
  <2> QED
    BY <2>1, <2>2, JobFields, CacheAssumption
    DEF TypeOK, JobInv, Fits, LockInv, Key, Part
<1> USE DEF Fits
<1>1. CASE RunRemote(p) \/ RunLocal(p)
  BY <1>1, AfterStart
<1>2. CASE Abort(p)
  BY <1>2, AfterStart
<1>3. CASE EnterTuple(p)
  BY <1>3, <1>0, AfterGoto DEF EnterTuple
<1>4. CASE LockClone(p)
  BY <1>4, <1>0, AfterGoto DEF LockClone, Acquire
<1>5. CASE Fetch(p)
  BY <1>5, <1>0, AfterGoto DEF Fetch, Refreshed, Release
<1>6. CASE FetchFails(p)
  BY <1>6, <1>0, AfterStart DEF FetchFails
<1>7. CASE BeginClone(p)
  BY <1>7, <1>0, AfterGoto DEF BeginClone
<1>8. CASE EndClone(p)
  BY <1>8, <1>0, AfterGoto DEF EndClone, Refreshed, Release
<1>9. CASE Resolve(p)
  BY <1>9, <1>0, AfterResolve
<1>10. CASE LockRoot(p)
  BY <1>10, <1>0, AfterGoto DEF LockRoot, Acquire
<1>11. CASE Inspect(p)
  BY <1>11, <1>0, AfterGoto DEF Inspect, Release
<1>12. CASE Discard(p)
  BY <1>12, <1>0, AfterGoto DEF Discard
<1>13. CASE Keep(p)
  BY <1>13, <1>0, AfterGoto DEF Keep, Placed
<1>14. CASE LockWorktree(p)
  BY <1>14, <1>0, AfterGoto DEF LockWorktree, Acquire
<1>15. CASE Prune(p)
  BY <1>15, <1>0, AfterGoto DEF Prune
<1>16. CASE BeginAdd(p)
  BY <1>16, <1>0, AfterGoto DEF BeginAdd
<1>17. CASE EndAdd(p)
  BY <1>17, <1>0, AfterGoto DEF EndAdd, Placed, Release
<1>18. CASE BeginSync(p)
  BY <1>18, <1>0, AfterGoto DEF BeginSync
<1>19. CASE EndSync(p)
  BY <1>19, <1>0, AfterGoto DEF EndSync
<1>20. CASE Mark(p)
  BY <1>20, <1>0, AfterGoto DEF Mark, Release
<1>21. CASE CheckInputs(p)
  BY <1>21, <1>0, AfterGoto DEF CheckInputs, Tupled, Keyed
<1>22. CASE End(p)
  BY <1>22, <1>0, AfterStart DEF End
<1> QED
  BY <1>1, <1>2, <1>3, <1>4, <1>5, <1>6, <1>7, <1>8, <1>9, <1>10, <1>11,
     <1>12, <1>13, <1>14, <1>15, <1>16, <1>17, <1>18, <1>19, <1>20,
     <1>21, <1>22 DEF Moves, Step

-----------------------------------------------------------------------------
(* Whole worktrees. *)

\* What p knows of its own root after its step.
LEMMA BuiltStep ==
    ASSUME TypeOK, JobInv, LockInv, RootInv, NEW p \in Proc, Moves(p)
    PROVE  /\ Built(p)'
           /\ tuple' \subseteq marker'
           /\ \A r \in marker' : dir'[r]["member"] = "whole"
<1> USE DEF Built, Same, roots
<1>0. /\ Fits(p) /\ Built(p)
      /\ job[p].part \in {"member", "register"}
      /\ job[p].pc # "idle" =>
            /\ job[p].kind \in {"remote", "local"}
            /\ job[p].root \in Root
      /\ tuple \subseteq marker /\ marker \subseteq Root
      /\ \A r \in marker : dir[r]["member"] = "whole"
      /\ dir \in [Root -> [Part -> State]]
      /\ Local \cap Remote = {}
  BY JobFields, CacheAssumption DEF JobInv, Fits, RootInv, TypeOK
<1> USE DEF Fits
<1>1. CASE RunRemote(p) \/ RunLocal(p)
  BY <1>1, <1>0, AfterStart
<1>2. CASE Abort(p)
  BY <1>2, <1>0, AfterStart
<1>3. CASE EnterTuple(p)
  BY <1>3, <1>0, AfterGoto DEF EnterTuple
<1>4. CASE LockClone(p)
  BY <1>4, <1>0, AfterGoto DEF LockClone
<1>5. CASE Fetch(p)
  BY <1>5, <1>0, AfterGoto DEF Fetch, Refreshed
<1>6. CASE FetchFails(p)
  BY <1>6, <1>0, AfterStart DEF FetchFails
<1>7. CASE BeginClone(p)
  BY <1>7, <1>0, AfterGoto DEF BeginClone
<1>8. CASE EndClone(p)
  BY <1>8, <1>0, AfterGoto DEF EndClone, Refreshed
<1>9. CASE Resolve(p)
  BY <1>9, <1>0, AfterResolve
<1>10. CASE LockRoot(p)
  BY <1>10, <1>0, AfterGoto DEF LockRoot
<1>11. CASE Inspect(p)
  <2>1. job[p].kind = "remote" /\ UNCHANGED <<dir, marker, tuple>>
    BY <1>11, <1>0 DEF Inspect
  <2>2. \/ job[p].root \notin marker /\ Goto(p, "discard")
        \/ job[p].root \in marker /\ Goto(p, "inputs")
        \/ /\ \/ dir[job[p].root]["member"] = "absent"
              \/ job[p].root \in marker
           /\ Goto(p, "checkout")
    BY <1>11 DEF Inspect
  <2>3. job[p].part = "member"
    BY <1>11, <1>0 DEF Inspect
  <2> QED
    BY <2>1, <2>2, <2>3, <1>0, AfterGoto
<1>12. CASE Discard(p)
  <2>1. /\ job[p].kind = "remote" /\ job[p].pc = "discard"
        /\ UNCHANGED <<marker, tuple>>
        /\ job[p].root \notin marker
    BY <1>12, <1>0 DEF Discard
  <2>2. \A r \in marker : dir'[r] = dir[r]
    BY <1>12, <1>0, <2>1 DEF Discard
  <2>3. CASE job' = job
    BY <2>1, <2>2, <2>3, <1>0, AfterGoto
  <2>4. CASE Goto(p, "checkout") /\ dir' = dir
             /\ \A c \in Part : dir[job[p].root][c] = "absent"
    BY <2>1, <2>2, <2>4, <1>0, AfterGoto DEF Part
  <2> QED
    BY <1>12, <2>3, <2>4 DEF Discard
<1>13. CASE Keep(p)
  <2>1. /\ job[p].pc = "checkout" /\ job[p].root \in Root
        /\ dir[job[p].root][job[p].part] # "absent"
        /\ UNCHANGED <<dir, marker, tuple>>
    BY <1>13, <1>0 DEF Keep
  <2>2. dir[job[p].root]["member"] \in {"absent", "partial", "whole"}
    BY <2>1, <1>0 DEF Part, State
  <2> QED
    BY <1>13, <2>1, <2>2, <1>0, AfterGoto DEF Keep, Placed
<1>14. CASE LockWorktree(p)
  BY <1>14, <1>0, AfterGoto DEF LockWorktree
<1>15. CASE Prune(p)
  BY <1>15, <1>0, AfterGoto DEF Prune
<1>16. CASE BeginAdd(p)
  <2>1. /\ job[p].pc = "worktree" /\ job[p].root \in Root
        /\ UNCHANGED <<marker, tuple>> /\ Goto(p, "adding")
    BY <1>16, <1>0 DEF BeginAdd
  <2>2. CASE job[p].part = "member"
    <3>1. job[p].kind = "remote" /\ job[p].root \notin marker
      BY <2>1, <2>2, <1>0
    <3>2. \A r \in marker : dir'[r] = dir[r]
      BY <1>16, <3>1, <1>0 DEF BeginAdd
    <3> QED
      BY <2>1, <2>2, <3>1, <3>2, <1>0, AfterGoto
  <2>3. CASE job[p].part = "register"
    <3>1. \A r \in Root : dir'[r]["member"] = dir[r]["member"]
      BY <1>16, <2>1, <2>3, <1>0 DEF BeginAdd, Part
    <3> QED
      BY <2>1, <2>3, <3>1, <1>0, AfterGoto
  <2> QED
    BY <2>2, <2>3, <1>0
<1>17. CASE EndAdd(p)
  <2>1. /\ job[p].pc = "adding" /\ job[p].root \in Root
        /\ job[p].part \in Part /\ UNCHANGED <<marker, tuple>>
    BY <1>17, <1>0 DEF EndAdd, Part
  <2>2. dir' = [dir EXCEPT ![job[p].root][job[p].part] = "whole"]
    BY <1>17 DEF EndAdd
  <2>3. \A r \in Root :
            dir[r]["member"] = "whole" => dir'[r]["member"] = "whole"
    BY <2>1, <2>2, <1>0 DEF Part
  <2>4. job[p].part = "member" => dir'[job[p].root]["member"] = "whole"
    BY <2>1, <2>2, <1>0
  <2> QED
    BY <1>17, <2>1, <2>3, <2>4, <1>0, AfterGoto DEF EndAdd, Placed
<1>18. CASE BeginSync(p)
  BY <1>18, <1>0, AfterGoto DEF BeginSync
<1>19. CASE EndSync(p)
  BY <1>19, <1>0, AfterGoto DEF EndSync
<1>20. CASE Mark(p)
  BY <1>20, <1>0, AfterGoto DEF Mark
<1>21. CASE CheckInputs(p)
  BY <1>21, <1>0, AfterGoto DEF CheckInputs, Tupled, Keyed
<1>22. CASE End(p)
  BY <1>22, <1>0, AfterStart DEF End
<1> QED
  BY <1>1, <1>2, <1>3, <1>4, <1>5, <1>6, <1>7, <1>8, <1>9, <1>10, <1>11,
     <1>12, <1>13, <1>14, <1>15, <1>16, <1>17, <1>18, <1>19, <1>20,
     <1>21, <1>22 DEF Moves, Step

\* What another process knows of its root survives a step of p.
LEMMA BuiltElsewhere ==
    ASSUME TypeOK, JobInv, LockInv, RootInv, NEW p \in Proc, Moves(p),
           NEW q \in Proc, q # p
    PROVE  Built(q)'
<1>1. job'[q] = job[q]
  BY OthersLeftAlone
<1>2. Built(q)
  BY DEF RootInv
<1>3. CASE InRoot(q)
  <2>1. job[q].root \in Root
    BY <1>3, JobFields DEF InRoot
  <2>2. ~(InRoot(p) /\ job[p].root = job[q].root)
    BY <1>3 DEF LockInv, Holds
  <2>3. dir'[job[q].root] = dir[job[q].root]
        /\ (job[q].root \in marker' <=> job[q].root \in marker)
    BY <2>1, <2>2, ElsewhereLeftAlone
  <2> QED
    BY <1>1, <1>2, <2>3 DEF Built
<1>4. CASE ~InRoot(q)
  <2>1. marker \subseteq marker'
    BY ElsewhereLeftAlone
  <2> QED
    BY <1>1, <1>2, <1>4, <2>1 DEF Built, InRoot
<1> QED
  BY <1>3, <1>4

\* Every step keeps the whole worktrees registered.
LEMMA RegisteredStep ==
    ASSUME TypeOK, JobInv, LockInv, RegisteredInv, NEW p \in Proc, Moves(p)
    PROVE  RegisteredInv'
<1> USE DEF Same
<1>0. /\ job[p].part \in Part
      /\ job[p].pc # "idle" => job[p].root \in Root
      /\ dir \in [Root -> [Part -> State]]
      /\ registered \in [Part -> SUBSET Root]
      /\ WholeIsRegistered
      /\ job[p].pc = "adding" => job[p].root \in registered[job[p].part]
  BY JobFields DEF TypeOK, RegisteredInv, Part
<1>A. ASSUME NEW q \in Proc, q # p, job'[q].pc = "adding"
      PROVE  job'[q].root \in registered'[job'[q].part]
  <2>1. job'[q] = job[q] /\ job[q].part \in Part
    BY <1>A, OthersLeftAlone, JobFields DEF Part
  <2>2. job[q].root \in registered[job[q].part]
    BY <1>A, <2>1 DEF RegisteredInv
  <2>3. ~(InClone(p) /\ job[p].part = job[q].part)
    BY <1>A, <2>1 DEF LockInv, Holds, InClone
  <2>4. registered'[job[q].part] = registered[job[q].part]
    BY <2>1, <2>3, ElsewhereLeftAlone
  <2> QED
    BY <2>1, <2>2, <2>4
<1>B. SUFFICES /\ WholeIsRegistered'
               /\ job'[p].pc = "adding" =>
                     job'[p].root \in registered'[job'[p].part]
  BY <1>A DEF RegisteredInv
<1> USE DEF roots, clones
<1>1. CASE RunRemote(p) \/ RunLocal(p)
  BY <1>1, <1>0, AfterStart DEF RunRemote, RunLocal, Start, WholeIsRegistered
<1>2. CASE Abort(p)
  BY <1>2, <1>0, AfterStart DEF Abort, WholeIsRegistered
<1>3. CASE EnterTuple(p)
  BY <1>3, <1>0, AfterGoto DEF WholeIsRegistered, EnterTuple
<1>4. CASE LockClone(p)
  BY <1>4, <1>0, AfterGoto DEF WholeIsRegistered, LockClone
<1>5. CASE Fetch(p)
  BY <1>5, <1>0, AfterGoto DEF WholeIsRegistered, Fetch, Refreshed
<1>6. CASE FetchFails(p)
  BY <1>6, <1>0, AfterStart DEF WholeIsRegistered, FetchFails
<1>7. CASE BeginClone(p)
  BY <1>7, <1>0, AfterGoto DEF WholeIsRegistered, BeginClone
<1>8. CASE EndClone(p)
  BY <1>8, <1>0, AfterGoto DEF WholeIsRegistered, EndClone, Refreshed
<1>9. CASE Resolve(p)
  BY <1>9, <1>0, AfterResolve DEF WholeIsRegistered
<1>10. CASE LockRoot(p)
  BY <1>10, <1>0, AfterGoto DEF WholeIsRegistered, LockRoot
<1>11. CASE Inspect(p)
  BY <1>11, <1>0, AfterGoto DEF WholeIsRegistered, Inspect
<1>12. CASE Discard(p)
  <2>1. registered' = registered /\ job'[p].pc # "adding"
    BY <1>12, AfterGoto DEF Discard
  <2>2. \A r \in Root, c \in Part : dir'[r][c] = "whole" => dir[r][c] = "whole"
    <3>1. CASE dir' = dir
      BY <3>1
    <3>2. CASE \E c \in Part :
                   dir' = [dir EXCEPT ![job[p].root][c] = Wear(@)]
      <4>1. \A s : Wear(s) # "whole"
        BY DEF Wear
      <4>2. job[p].root \in Root
        BY <1>12, <1>0 DEF Discard
      <4> QED
        BY <3>2, <4>1, <4>2, <1>0
    <3> QED
      BY <1>12, <3>1, <3>2 DEF Discard
  <2> QED
    BY <2>1, <2>2, <1>0 DEF WholeIsRegistered
<1>13. CASE Keep(p)
  BY <1>13, <1>0, AfterGoto DEF WholeIsRegistered, Keep, Placed
<1>14. CASE LockWorktree(p)
  BY <1>14, <1>0, AfterGoto DEF WholeIsRegistered, LockWorktree
<1>15. CASE Prune(p)
  <2>1. dir' = dir /\ job'[p].pc # "adding"
    BY <1>15, AfterGoto DEF Prune
  <2>2. \A r \in Root, c \in Part :
            dir[r][c] = "whole" /\ r \in registered[c] => r \in registered'[c]
    BY <1>15, <1>0 DEF Prune
  <2> QED
    BY <2>1, <2>2, <1>0 DEF WholeIsRegistered
<1>16. CASE BeginAdd(p)
  <2>1. /\ job[p].root \in Root /\ job'[p].root = job[p].root
        /\ job'[p].part = job[p].part
    BY <1>16, <1>0, AfterGoto DEF BeginAdd
  <2>2. job[p].root \in registered'[job[p].part]
    BY <1>16, <1>0 DEF BeginAdd
  <2>3. \A c \in Part : registered[c] \subseteq registered'[c]
    BY <1>16, <1>0 DEF BeginAdd
  <2>4. \A r \in Root, c \in Part : dir'[r][c] = "whole" => dir[r][c] = "whole"
    BY <1>16, <1>0, <2>1 DEF BeginAdd
  <2> QED
    BY <2>1, <2>2, <2>3, <2>4, <1>0 DEF WholeIsRegistered
<1>17. CASE EndAdd(p)
  <2>1. registered' = registered /\ job'[p].pc # "adding"
    BY <1>17, AfterGoto DEF EndAdd, Placed
  <2>2. \A r \in Root, c \in Part :
            dir'[r][c] = "whole" =>
                dir[r][c] = "whole" \/ (r = job[p].root /\ c = job[p].part)
    BY <1>17, <1>0 DEF EndAdd
  <2>3. job[p].root \in registered[job[p].part]
    BY <1>17, <1>0 DEF EndAdd
  <2> QED
    BY <2>1, <2>2, <2>3, <1>0 DEF WholeIsRegistered
<1>18. CASE BeginSync(p)
  BY <1>18, <1>0, AfterGoto DEF WholeIsRegistered, BeginSync
<1>19. CASE EndSync(p)
  BY <1>19, <1>0, AfterGoto DEF WholeIsRegistered, EndSync
<1>20. CASE Mark(p)
  BY <1>20, <1>0, AfterGoto DEF WholeIsRegistered, Mark
<1>21. CASE CheckInputs(p)
  BY <1>21, <1>0, AfterGoto DEF WholeIsRegistered, CheckInputs, Tupled, Keyed
<1>22. CASE End(p)
  BY <1>22, <1>0, AfterStart DEF WholeIsRegistered, End
<1> QED
  BY <1>1, <1>2, <1>3, <1>4, <1>5, <1>6, <1>7, <1>8, <1>9, <1>10, <1>11,
     <1>12, <1>13, <1>14, <1>15, <1>16, <1>17, <1>18, <1>19, <1>20,
     <1>21, <1>22 DEF Moves, Step

-----------------------------------------------------------------------------
(* The theorems. *)

CacheInv == TypeOK /\ JobInv /\ LockInv /\ RootInv /\ RegisteredInv

\* The empty cache satisfies the invariant.
LEMMA CacheInit == Init => CacheInv
<1> SUFFICES ASSUME Init PROVE CacheInv
  OBVIOUS
<1>1. \A p \in Proc : job[p] = Idle
  BY DEF Init
<1>2. TypeOK
  BY JobValues, CacheBounds DEF Init, TypeOK, State, Part, Key
<1>3. JobInv /\ LockInv
  BY <1>1 DEF JobInv, Fits, LockInv, Holds, InRoot, InClone, Idle
<1>4. RootInv
  BY <1>1 DEF RootInv, Built, Init, Idle
<1>5. RegisteredInv
  BY <1>1 DEF RegisteredInv, WholeIsRegistered, Init, Idle, Part
<1> QED
  BY <1>2, <1>3, <1>4, <1>5 DEF CacheInv

\* Every step keeps it.
LEMMA CacheStep == CacheInv /\ [Next]_vars => CacheInv'
<1> SUFFICES ASSUME CacheInv, [Next]_vars PROVE CacheInv'
  OBVIOUS
<1> USE DEF CacheInv
<1>1. TypeOK'
  BY TypeStep
<1>2. CASE UNCHANGED vars
  BY <1>1, <1>2 DEF vars, JobInv, Fits, LockInv, Holds, InRoot, InClone,
     RootInv, Built, RegisteredInv, WholeIsRegistered
<1>3. CASE Publish
  BY <1>1, <1>3 DEF Publish, roots, JobInv, Fits, LockInv, Holds, InRoot,
     InClone, RootInv, Built, RegisteredInv, WholeIsRegistered
<1>4. ASSUME NEW p \in Proc, Moves(p)
      PROVE  CacheInv'
  <2>1. ASSUME NEW q \in Proc, q # p
        PROVE  Fits(q)' /\ Holds(q)' /\ Built(q)'
    <3>1. /\ job'[q] = job[q]
          /\ \A k \in Key : lock[k] = q => lock'[k] = q
      BY <1>4, <2>1, OthersLeftAlone
    <3>2. Fits(q) /\ Holds(q) /\ job[q].part \in Key
      BY JobFields DEF JobInv, LockInv, Key, Part
    <3>3. InRoot(q) => job[q].root \in Key
      BY JobFields DEF InRoot, Key
    <3>4. Fits(q)' /\ Holds(q)'
      BY <3>1, <3>2, <3>3 DEF Fits, Holds, InRoot, InClone
    <3> QED
      BY <1>4, <2>1, <3>4, BuiltElsewhere
  <2>2. Fits(p)' /\ Holds(p)'
    BY <1>4, FitsStep, HoldsStep
  <2>3. /\ Built(p)'
        /\ tuple' \subseteq marker'
        /\ \A r \in marker' : dir'[r]["member"] = "whole"
    BY <1>4, BuiltStep
  <2>4. JobInv' /\ LockInv' /\ RootInv'
    BY <2>1, <2>2, <2>3 DEF JobInv, LockInv, RootInv
  <2> QED
    BY <1>1, <1>4, <2>4, RegisteredStep
<1> QED
  BY <1>2, <1>3, <1>4 DEF Next, Moves

LEMMA CacheInvariant == Spec => []CacheInv
  BY CacheInit, CacheStep, PTL DEF Spec

\* The cache is well typed in every reachable state.
THEOREM CacheTypeCorrect == Spec => []TypeOK
<1>1. CacheInv => TypeOK
  BY DEF CacheInv
<1> QED
  BY <1>1, CacheInvariant, PTL

\* However many processes share the cache, and whichever are killed, no two
\* are ever in one run root or in one clone at a time.
THEOREM LocksExclude == Spec => []OneAtATime
<1>1. CacheInv => OneAtATime
  BY DEF CacheInv, LockInv, Holds, OneAtATime
<1> QED
  BY <1>1, CacheInvariant, PTL

\* No kill and no interleaving leaves a root that is entered warm, by its
\* marker or by its tuple file, without a whole worktree of the member.
THEOREM WarmRootsAreWhole == Spec => []WarmRootsWhole
<1>1. CacheInv => WarmRootsWhole
  BY DEF CacheInv, RootInv, WarmRootsWhole
<1> QED
  BY <1>1, CacheInvariant, PTL

\* A remote run always executes in a whole worktree, though it has let go of
\* the lock of its root.
THEOREM RunsExecuteWhole == Spec => []ExecWhole
<1>1. CacheInv => ExecWhole
  BY DEF CacheInv, RootInv, Built, ExecWhole
<1> QED
  BY <1>1, CacheInvariant, PTL

\* No prune makes git forget a whole worktree.
THEOREM PruneForgetsNothing == Spec => []WholeIsRegistered
<1>1. CacheInv => WholeIsRegistered
  BY DEF CacheInv, RegisteredInv
<1> QED
  BY <1>1, CacheInvariant, PTL

-----------------------------------------------------------------------------
(* A marked root is synced. *)

\* p holds its root and is past the look at the marker.
Working(p) ==
    /\ job[p].kind = "remote"
    /\ job[p].pc \in {"checkout", "worktree", "adding", "sync", "syncing", "mark"}

\* A root that is marked is worked in again by a forced run only.
Unforced(p) ==
    /\ TRUE \notin Forces => ~job[p].force
    /\ Working(p) /\ job[p].root \in marker => job[p].force

SyncedOrMarking(p) ==
    job[p].kind = "remote" /\ job[p].pc = "mark" => synced[job[p].root] = "done"

SyncInv ==
    /\ marker \subseteq Remote
    /\ \A p \in Proc : Unforced(p) /\ SyncedOrMarking(p)
    /\ aborts = 0 \/ TRUE \notin Forces =>
          \A r \in marker :
              synced[r] = "done" \/ \E p \in Proc : Working(p) /\ job[p].root = r

\* The sync of a root is the work of whoever holds it.
LEMMA SyncedElsewhere ==
    ASSUME CacheInv, NEW p \in Proc, Moves(p),
           NEW r \in Root, ~(InRoot(p) /\ job[p].root = r)
    PROVE  synced'[r] = synced[r]
<1> USE DEF CacheInv
<1>1. job[p].pc # "idle" => job[p].kind \in {"remote", "local"}
  BY DEF JobInv, Fits
<1>2. CASE Discard(p)
  <2>1. InRoot(p)
    BY <1>1, <1>2 DEF Discard, InRoot, JobInv, Fits
  <2> QED
    BY <1>2, <2>1 DEF Discard, TypeOK
<1>3. CASE BeginSync(p) \/ EndSync(p)
  <2>1. InRoot(p)
    BY <1>1, <1>3 DEF BeginSync, EndSync, InRoot
  <2> QED
    BY <1>3, <2>1 DEF BeginSync, EndSync, TypeOK
<1>4. CASE ~Discard(p) /\ ~BeginSync(p) /\ ~EndSync(p)
  BY <1>4 DEF Moves, Step, RunRemote, RunLocal, Start, Abort, EnterTuple,
     LockClone, Fetch, FetchFails, BeginClone, EndClone, Resolve, LockRoot,
     Inspect, Keep, LockWorktree, Prune, BeginAdd, EndAdd, Mark, CheckInputs,
     Tupled, Keyed, End, roots
<1> QED
  BY <1>2, <1>3, <1>4

\* What p does with the root it works in: it goes on, marks it, or dies.
LEMMA WorkingStep ==
    ASSUME CacheInv, NEW p \in Proc, Moves(p), Working(p)
    PROVE  \/ Working(p)' /\ job'[p].root = job[p].root
           \/ Mark(p)
           \/ Abort(p)
<1> USE DEF CacheInv, Working, Same
<1>1. CASE Keep(p)
  BY <1>1, AfterGoto DEF Keep, Placed
<1>2. CASE LockWorktree(p)
  BY <1>2, AfterGoto DEF LockWorktree
<1>3. CASE Prune(p)
  BY <1>3 DEF Prune
<1>4. CASE BeginAdd(p)
  BY <1>4, AfterGoto DEF BeginAdd
<1>5. CASE EndAdd(p)
  BY <1>5, AfterGoto DEF EndAdd, Placed
<1>6. CASE BeginSync(p) \/ EndSync(p)
  BY <1>6, AfterGoto DEF BeginSync, EndSync
<1>7. \/ Keep(p) \/ LockWorktree(p) \/ Prune(p) \/ BeginAdd(p) \/ EndAdd(p)
      \/ BeginSync(p) \/ EndSync(p) \/ Mark(p) \/ Abort(p)
  BY DEF Moves, Step, RunRemote, RunLocal, Start, EnterTuple, LockClone, Fetch,
     FetchFails, BeginClone, EndClone, Resolve, LockRoot, Inspect, Discard,
     CheckInputs, End
<1> QED
  BY <1>1, <1>2, <1>3, <1>4, <1>5, <1>6, <1>7

\* Work begins in a root that is discarded or found cold, or is forced.
LEMMA WorkBegins ==
    ASSUME CacheInv, NEW p \in Proc, Moves(p), ~Working(p), Working(p)'
    PROVE  /\ Inspect(p) \/ Discard(p)
           /\ Same(p) /\ marker' = marker
           /\ job[p].root \notin marker \/ job[p].force
<1> USE DEF CacheInv, Working, Same
<1>1. CASE RunRemote(p) \/ RunLocal(p) \/ Abort(p) \/ FetchFails(p) \/ End(p)
  BY <1>1, AfterStart
<1>2. CASE Resolve(p)
  BY <1>2, AfterResolve
<1>3. CASE Inspect(p)
  BY <1>3, AfterGoto DEF Inspect, RootInv, roots
<1>4. CASE Discard(p)
  BY <1>4, AfterGoto DEF Discard, RootInv, Built, JobInv, Fits
<1>5. CASE EnterTuple(p) \/ LockClone(p) \/ BeginClone(p) \/ LockRoot(p) \/ CheckInputs(p)
  BY <1>5, AfterGoto DEF EnterTuple, LockClone, BeginClone, LockRoot, CheckInputs
<1>6. CASE Fetch(p) \/ EndClone(p)
  BY <1>6, AfterGoto DEF Fetch, EndClone, Refreshed
<1>7. CASE Keep(p) \/ EndAdd(p)
  BY <1>7, AfterGoto DEF Keep, EndAdd, Placed
<1>8. CASE LockWorktree(p) \/ BeginAdd(p) \/ BeginSync(p) \/ EndSync(p) \/ Mark(p)
  BY <1>8, AfterGoto DEF LockWorktree, BeginAdd, BeginSync, EndSync, Mark
<1>9. CASE Prune(p)
  BY <1>9 DEF Prune
<1> QED
  BY <1>1, <1>2, <1>3, <1>4, <1>5, <1>6, <1>7, <1>8, <1>9 DEF Moves, Step

\* A run is forced from its start to its end, or never.
LEMMA ForceStays ==
    ASSUME CacheInv, NEW p \in Proc, Moves(p)
    PROVE  \/ job'[p].force = job[p].force
           \/ /\ ~Working(p)' /\ ~InRoot(p)'
              /\ job'[p].force => TRUE \in Forces
<1> USE DEF CacheInv, Same
<1>1. CASE RunRemote(p) \/ RunLocal(p) \/ Abort(p) \/ FetchFails(p) \/ End(p)
  BY <1>1, AfterStart, CacheAssumption DEF Working, InRoot
<1>2. CASE Resolve(p)
  BY <1>2, AfterResolve
<1>3. CASE job' = job
  BY <1>3
<1>4. CASE \/ \E pc \in Pc : Goto(p, pc)
           \/ \E c \in Part, pc \in Pc : GotoPart(p, c, pc)
  BY <1>4, AfterGoto
<1>5. CASE EnterTuple(p) \/ LockClone(p) \/ BeginClone(p) \/ LockRoot(p) \/ CheckInputs(p)
  <2>1. \E pc \in Pc : Goto(p, pc)
    BY <1>5 DEF EnterTuple, LockClone, BeginClone, LockRoot, CheckInputs, Pc
  <2> QED
    BY <1>4, <2>1
<1>6. CASE Fetch(p) \/ EndClone(p)
  BY <1>4, <1>6 DEF Fetch, EndClone, Refreshed, Pc, Part
<1>7. CASE Keep(p) \/ EndAdd(p)
  BY <1>4, <1>7 DEF Keep, EndAdd, Placed, Pc, Part
<1>8. CASE LockWorktree(p) \/ BeginAdd(p) \/ BeginSync(p) \/ EndSync(p) \/ Mark(p)
  BY <1>4, <1>8 DEF LockWorktree, BeginAdd, BeginSync, EndSync, Mark, Pc
<1>9. CASE Inspect(p)
  BY <1>4, <1>9 DEF Inspect, Pc
<1>10. CASE Discard(p)
  BY <1>3, <1>4, <1>10 DEF Discard, Pc
<1>11. CASE Prune(p)
  BY <1>3, <1>11 DEF Prune
<1> QED
  BY <1>1, <1>2, <1>5, <1>6, <1>7, <1>8, <1>9, <1>10, <1>11 DEF Moves, Step

\* Only Mark marks, and what it marks has been synced.
LEMMA MarkerGrows ==
    ASSUME CacheInv, SyncInv, NEW p \in Proc, Moves(p)
    PROVE  \/ marker' = marker
           \/ /\ Mark(p) /\ marker' = marker \cup {job[p].root}
              /\ job[p].kind = "remote" /\ job[p].root \in Remote
              /\ synced' = synced /\ synced[job[p].root] = "done"
<1> USE DEF CacheInv
<1>1. CASE Mark(p)
  BY <1>1 DEF Mark, JobInv, Fits, SyncInv, SyncedOrMarking
<1>2. CASE ~Mark(p)
  BY <1>2 DEF Moves, Step, RunRemote, RunLocal, Start, Abort, EnterTuple,
     LockClone, Fetch, FetchFails, BeginClone, EndClone, Resolve, LockRoot,
     Inspect, Discard, Keep, LockWorktree, Prune, BeginAdd, EndAdd, BeginSync,
     EndSync, CheckInputs, Tupled, Keyed, End, roots
<1> QED
  BY <1>1, <1>2

LEMMA UnforcedStep ==
    ASSUME CacheInv, SyncInv, NEW p \in Proc, Moves(p), NEW q \in Proc
    PROVE  Unforced(q)'
<1> USE DEF CacheInv
<1>0. Unforced(q)
  BY DEF SyncInv
<1>1. CASE q # p
  <2>1. job'[q] = job[q]
    BY <1>1, OthersLeftAlone
  <2>2. ASSUME Working(q), job[q].root \in marker'
        PROVE  job[q].root \in marker
    <3>1. InRoot(q) /\ job[q].root \in Root
      BY <2>2, JobFields DEF Working, InRoot
    <3>2. ~(InRoot(p) /\ job[p].root = job[q].root)
      BY <1>1, <3>1 DEF LockInv, Holds
    <3> QED
      BY <2>2, <3>1, <3>2, ElsewhereLeftAlone
  <2> QED
    BY <1>0, <2>1, <2>2 DEF Unforced, Working
<1>2. CASE q = p
  <2>1. TRUE \notin Forces => ~job'[p].force
    BY <1>0, <1>2, ForceStays DEF Unforced
  <2>2. CASE Working(p) /\ Working(p)'
    <3>1. job'[p].root = job[p].root /\ ~Mark(p)
      <4>1. ~Mark(p)
        BY <2>2, AfterGoto DEF Mark, Working
      <4>2. ~Abort(p)
        BY <2>2, AfterStart DEF Working
      <4> QED
        BY <2>2, <4>1, <4>2, WorkingStep
    <3>2. marker' = marker /\ job'[p].force = job[p].force
      BY <2>2, <3>1, MarkerGrows, ForceStays
    <3> QED
      BY <1>0, <1>2, <2>1, <2>2, <3>1, <3>2 DEF Unforced
  <2>3. CASE ~Working(p) /\ Working(p)'
    <3>1. /\ Same(p) /\ marker' = marker
          /\ job[p].root \notin marker \/ job[p].force
      BY <2>3, WorkBegins
    <3> QED
      BY <1>2, <2>1, <3>1 DEF Same, Unforced
  <2>4. CASE ~Working(p)'
    BY <1>2, <2>1, <2>4 DEF Unforced
  <2> QED
    BY <2>2, <2>3, <2>4
<1> QED
  BY <1>1, <1>2

LEMMA MarkingStep ==
    ASSUME CacheInv, SyncInv, NEW p \in Proc, Moves(p), NEW q \in Proc
    PROVE  SyncedOrMarking(q)'
<1> USE DEF CacheInv
<1> SUFFICES ASSUME job'[q].kind = "remote", job'[q].pc = "mark"
             PROVE  synced'[job'[q].root] = "done"
  BY DEF SyncedOrMarking
<1>1. CASE q # p
  <2>1. job'[q] = job[q]
    BY <1>1, OthersLeftAlone
  <2>2. InRoot(q) /\ job[q].root \in Root
    BY <2>1, JobFields DEF InRoot
  <2>3. ~(InRoot(p) /\ job[p].root = job[q].root)
    BY <1>1, <2>2 DEF LockInv, Holds
  <2> QED
    BY <2>1, <2>2, <2>3, SyncedElsewhere DEF SyncInv, SyncedOrMarking
<1>2. CASE q = p
  <2>1. Working(p)'
    BY <1>2 DEF Working
  <2>2. Working(p)
    <3>1. ASSUME ~Working(p)
          PROVE  FALSE
      <4>1. Inspect(p) \/ Discard(p)
        BY <2>1, <3>1, WorkBegins
      <4> QED
        BY <1>2, <4>1, AfterGoto DEF Inspect, Discard
    <3> QED
      BY <3>1
  <2>3. CASE EndSync(p)
    BY <1>2, <2>3, AfterGoto, JobFields DEF EndSync, Same, TypeOK
  <2>4. CASE Prune(p)
    BY <1>2, <2>4 DEF Prune
  <2>5. CASE Keep(p) \/ LockWorktree(p) \/ BeginAdd(p) \/ EndAdd(p) \/ BeginSync(p) \/ Mark(p)
    BY <1>2, <2>5, AfterGoto DEF Keep, LockWorktree, BeginAdd, EndAdd, Placed,
       BeginSync, Mark
  <2>6. CASE Abort(p)
    BY <1>2, <2>6, AfterStart
  <2>7. \/ Keep(p) \/ LockWorktree(p) \/ Prune(p) \/ BeginAdd(p) \/ EndAdd(p)
        \/ BeginSync(p) \/ EndSync(p) \/ Mark(p) \/ Abort(p)
    BY <2>2 DEF Working, Moves, Step, RunRemote, RunLocal, Start, EnterTuple,
       LockClone, Fetch, FetchFails, BeginClone, EndClone, Resolve, LockRoot,
       Inspect, Discard, CheckInputs, End
  <2> QED
    BY <2>3, <2>4, <2>5, <2>6, <2>7
<1> QED
  BY <1>1, <1>2

LEMMA MarkedStep ==
    ASSUME CacheInv, SyncInv, NEW p \in Proc, Moves(p),
           aborts' = 0 \/ TRUE \notin Forces, NEW r \in marker'
    PROVE  synced'[r] = "done" \/ \E q \in Proc : Working(q)' /\ job'[q].root = r
<1> USE DEF CacheInv
<1>0. /\ aborts = 0 \/ TRUE \notin Forces
      /\ Abort(p) => TRUE \notin Forces
  <2>1. aborts \in Nat
    BY CacheBounds DEF TypeOK
  <2>2. Abort(p) => aborts' # 0
    BY <2>1 DEF Abort
  <2>3. ~Abort(p) => aborts' = aborts
    BY DEF Moves, Step, RunRemote, RunLocal, Start, EnterTuple, LockClone, Fetch,
       FetchFails, BeginClone, EndClone, Resolve, LockRoot, Inspect, Discard,
       Keep, LockWorktree, Prune, BeginAdd, EndAdd, BeginSync, EndSync, Mark,
       CheckInputs, Tupled, Keyed, End, counts
  <2> QED
    BY <2>2, <2>3
<1>1. CASE r \notin marker
  BY <1>1, MarkerGrows
<1>2. CASE r \in marker
  <2>0. r \in Remote /\ r \in Root /\ r \notin Local
    BY <1>2, CacheAssumption DEF SyncInv, Root
  <2>1. CASE \E q \in Proc : q # p /\ Working(q) /\ job[q].root = r
    BY <2>1, OthersLeftAlone DEF Working
  <2>2. CASE Working(p) /\ job[p].root = r
    <3>1. CASE Mark(p)
      BY <2>2, <3>1, MarkerGrows DEF SyncInv, SyncedOrMarking, Mark, Working
    <3>2. CASE Abort(p)
      BY <1>0, <1>2, <2>2, <3>2 DEF SyncInv, Unforced
    <3> QED
      BY <2>2, <3>1, <3>2, WorkingStep
  <2>3. CASE synced[r] = "done" /\ ~(Working(p) /\ job[p].root = r)
    <3>1. CASE ~(InRoot(p) /\ job[p].root = r)
      BY <2>0, <2>3, <3>1, SyncedElsewhere
    <3>2. CASE InRoot(p) /\ job[p].root = r
      <4>1. job[p].kind = "remote" /\ job[p].pc \in {"inspect", "discard"}
        BY <2>0, <2>3, <3>2 DEF InRoot, Working, JobInv, Fits
      <4>2. job[p].pc # "discard"
        BY <1>2, <3>2, <4>1 DEF RootInv, Built
      <4>3. Inspect(p) \/ Abort(p)
        BY <4>1, <4>2 DEF Moves, Step, RunRemote, RunLocal, Start, EnterTuple,
           LockClone, Fetch, FetchFails, BeginClone, EndClone, Resolve, LockRoot,
           Discard, Keep, LockWorktree, Prune, BeginAdd, EndAdd, BeginSync,
           EndSync, Mark, CheckInputs, End
      <4> QED
        BY <2>3, <4>3 DEF Inspect, Abort, roots
    <3> QED
      BY <3>1, <3>2
  <2> QED
    BY <1>0, <1>2, <2>1, <2>2, <2>3 DEF SyncInv
<1> QED
  BY <1>1, <1>2

LEMMA SyncInvariant == Spec => []SyncInv
<1>1. Init => SyncInv
  <2> SUFFICES ASSUME Init
               PROVE  SyncInv
    OBVIOUS
  <2>1. \A p \in Proc : job[p] = Idle
    BY DEF Init
  <2>2. ~Idle.force /\ Idle.kind = "none"
    BY DEF Idle
  <2>3. ASSUME NEW p \in Proc
        PROVE  Unforced(p) /\ SyncedOrMarking(p)
    <3>1. job[p].kind = "none" /\ job[p].force = Idle.force
      BY <2>1, <2>2
    <3> QED
      BY <2>2, <3>1 DEF Unforced, SyncedOrMarking, Working
  <2>4. marker = {}
    BY DEF Init
  <2> QED
    BY <2>3, <2>4 DEF SyncInv
<1>2. CacheInv /\ SyncInv /\ [Next]_vars => SyncInv'
  <2> SUFFICES ASSUME CacheInv, SyncInv, [Next]_vars
               PROVE  SyncInv'
    OBVIOUS
  <2>1. CASE UNCHANGED vars
    BY <2>1 DEF vars, SyncInv, Unforced, SyncedOrMarking, Working
  <2>2. CASE Publish
    BY <2>2 DEF Publish, roots, SyncInv, Unforced, SyncedOrMarking, Working
  <2>3. ASSUME NEW p \in Proc, Moves(p)
        PROVE  SyncInv'
    <3>1. marker' \subseteq Remote
      BY <2>3, MarkerGrows DEF SyncInv
    <3>2. \A q \in Proc : Unforced(q)' /\ SyncedOrMarking(q)'
      BY <2>3, UnforcedStep, MarkingStep
    <3>3. aborts' = 0 \/ TRUE \notin Forces =>
              \A r \in marker' : synced'[r] = "done"
                                 \/ \E q \in Proc : Working(q)' /\ job'[q].root = r
      BY <2>3, MarkedStep
    <3> QED
      BY <3>1, <3>2, <3>3 DEF SyncInv
  <2> QED
    BY <2>1, <2>2, <2>3 DEF Next, Moves
<1> QED
  BY <1>1, <1>2, CacheInvariant, PTL DEF Spec

\* Whatever is killed, a marked root that nobody works in is wholly synced, as
\* long as no run is forced: a forced run syncs a marked root again, and one
\* that is killed while it does leaves the marker.
THEOREM MarkedRootsAreSynced ==
    ASSUME TRUE \notin Forces
    PROVE  Spec => []MarkedSynced
<1>1. SyncInv => MarkedSynced
  BY DEF SyncInv, Working, InRoot, MarkedSynced
<1> QED
  BY <1>1, SyncInvariant, PTL

\* With forced runs among them it still holds until a run is cut short.
THEOREM UncutRootsAreSynced == Spec => [](aborts = 0 => MarkedSynced)
<1>1. SyncInv => (aborts = 0 => MarkedSynced)
  BY DEF SyncInv, Working, InRoot, MarkedSynced
<1> QED
  BY <1>1, SyncInvariant, PTL
-----------------------------------------------------------------------------
(* The cache implements WarmRoots. *)

\* A clone's lock is no root's.
LEMMA ClonesApart ==
    ASSUME TypeOK, NEW p \in Proc, NEW c \in Part, Release(p, c) \/ Acquire(p, c)
    PROVE  \A r \in Remote : lock'[r] = lock[r]
<1>1. \A r \in Remote : r # c /\ r \in Key
  BY CacheAssumption DEF Root, Key
<1> QED
  BY <1>1 DEF TypeOK, Release, Acquire

\* The other processes execute where they did.
LEMMA OthersExecute ==
    ASSUME TypeOK, NEW p \in Proc, Moves(p)
    PROVE  \A q \in Proc : q # p => ExecutesIn(q)' = ExecutesIn(q)
  BY OthersLeftAlone DEF ExecutesIn

\* What p redoes in a root is redone by its holder.
Redone == {r \in Remote : \E p \in Proc : Redoes(p) /\ job[p].root = r}

LEMMA HolderRedoes ==
    ASSUME LockInv, NEW p \in Proc, Redoes(p)
    PROVE  lock[job[p].root] = p
  BY DEF Redoes, LockInv, Holds

\* A step neither into nor out of a root's lock changes nothing of what is redone.
LEMMA RedoneAlike ==
    ASSUME TypeOK, NEW p \in Proc, Moves(p),
           \/ ~(Redoes(p) /\ job[p].root \in Remote)
              /\ ~(Redoes(p)' /\ job'[p].root \in Remote)
           \/ Same(p) /\ (InRoot(p)' <=> InRoot(p))
    PROVE  Redone' = Redone
<1>1. \A q \in Proc : q # p => (Redoes(q)' <=> Redoes(q)) /\ job'[q].root = job[q].root
  BY OthersLeftAlone DEF Redoes, InRoot
<1>2. \A r \in Remote : (Redoes(p)' /\ job'[p].root = r) <=> (Redoes(p) /\ job[p].root = r)
  BY DEF Redoes, Same
<1> QED
  BY <1>1, <1>2 DEF Redone

\* A step that leaves marker, member's worktrees, what is synced and roots' locks
\* alone, and neither begins nor ends a command, is none of a root's users'
\* business.
LEMMA SeenAlike ==
    ASSUME TypeOK, NEW p \in Proc, Moves(p),
           ExecutesIn(p)' = ExecutesIn(p), marker' = marker, Redone' = Redone,
           \A r \in Remote : dir'[r]["member"] = dir[r]["member"],
           \A r \in Remote : synced'[r] = synced[r],
           \A r \in Remote : lock'[r] = lock[r]
    PROVE  UNCHANGED Warm!vars
<1>1. \A q \in Proc : ExecutesIn(q)' = ExecutesIn(q)
  BY OthersExecute
<1>2. [q \in Proc |-> ExecutesIn(q)]' = [q \in Proc |-> ExecutesIn(q)]
  BY <1>1
<1> QED
  BY <1>2 DEF Warm!vars, Redone

\* The user of a process's root, once the process does something else.
LEMMA ExecutesElsewhere ==
    ASSUME TypeOK, NEW p \in Proc, Moves(p)
    PROVE  [q \in Proc |-> ExecutesIn(q)]' =
               [[q \in Proc |-> ExecutesIn(q)] EXCEPT ![p] = ExecutesIn(p)']
  BY OthersExecute

\* A process that moves on, and not to or from its command, executes nothing.
LEMMA Underway ==
    ASSUME TypeOK, JobInv, NEW p \in Proc, Step(p), ~CheckInputs(p), ~End(p),
           ~(EnterTuple(p) /\ job[p].root \in tuple /\ dir[job[p].root]["member"] # "absent")
    PROVE  ExecutesIn(p)' = ExecutesIn(p)
<1>1. job[p].pc # "exec" /\ job'[p].pc # "exec"
  <2>1. CASE EnterTuple(p)
    BY <2>1, AfterGoto DEF EnterTuple
  <2>2. CASE LockClone(p) \/ BeginClone(p)
    BY <2>2, AfterGoto DEF LockClone, BeginClone
  <2>3. CASE Fetch(p) \/ EndClone(p)
    BY <2>3, AfterGoto DEF Fetch, EndClone, Refreshed
  <2>4. CASE FetchFails(p)
    BY <2>4, AfterStart DEF FetchFails
  <2>5. CASE Resolve(p)
    <3>1. job'[p].pc \in {"root", "checkout"}
      BY <2>5, AfterResolve
    <3> QED
      BY <2>5, <3>1 DEF Resolve
  <2>6. CASE LockRoot(p) \/ Inspect(p)
    BY <2>6, AfterGoto DEF LockRoot, Inspect
  <2>7. CASE Discard(p)
    BY <2>7, AfterGoto DEF Discard
  <2>8. CASE Keep(p) \/ LockWorktree(p) \/ EndAdd(p)
    BY <2>8, AfterGoto DEF Keep, LockWorktree, EndAdd, Placed
  <2>9. CASE Prune(p) \/ BeginAdd(p)
    BY <2>9, AfterGoto DEF Prune, BeginAdd
  <2>10. CASE BeginSync(p) \/ EndSync(p) \/ Mark(p)
    BY <2>10, AfterGoto DEF BeginSync, EndSync, Mark
  <2> QED
    BY <2>1, <2>2, <2>3, <2>4, <2>5, <2>6, <2>7, <2>8, <2>9, <2>10 DEF Step
<1> QED
  BY <1>1 DEF ExecutesIn

\* The steps that a root's users cannot see.
LEMMA UnseenStep ==
    ASSUME CacheInv, NEW p \in Proc,
           \/ LockClone(p) \/ Fetch(p) \/ BeginClone(p) \/ EndClone(p)
           \/ Resolve(p) \/ Keep(p) \/ LockWorktree(p) \/ Prune(p)
    PROVE  UNCHANGED Warm!vars
<1> USE DEF CacheInv
<1>1. Step(p) /\ Moves(p)
  BY DEF Step, Moves
<1>2. ~CheckInputs(p) /\ ~End(p) /\ ~EnterTuple(p)
  BY DEF LockClone, Fetch, BeginClone, EndClone, Resolve, Keep, LockWorktree,
     Prune, CheckInputs, End, EnterTuple
<1>3. ExecutesIn(p)' = ExecutesIn(p)
  BY <1>1, <1>2, Underway
<1>4. UNCHANGED <<dir, marker, synced>>
  BY DEF LockClone, Fetch, BeginClone, EndClone, Resolve, Keep, LockWorktree,
     Prune, roots
<1>5. \A r \in Remote : lock'[r] = lock[r]
  <2>1. job[p].part \in Part
    BY JobFields DEF Part
  <2>2. CASE LockClone(p) \/ LockWorktree(p)
    BY <2>1, <2>2, ClonesApart DEF LockClone, LockWorktree
  <2>3. CASE Fetch(p) \/ EndClone(p)
    BY <2>1, <2>3, ClonesApart DEF Fetch, EndClone, Refreshed
  <2>4. CASE BeginClone(p) \/ Resolve(p) \/ Keep(p) \/ Prune(p)
    BY <2>4 DEF BeginClone, Resolve, Keep, Prune
  <2> QED
    BY <2>2, <2>3, <2>4
<1>6. Redone' = Redone
  <2>1. CASE job[p].kind = "local"
    <3>1. job'[p].root = job[p].root /\ job[p].root \notin Remote
      <4>1. Same(p)
        BY AfterGoto, AfterResolve DEF LockClone, Fetch, BeginClone, EndClone,
           Refreshed, Keep, LockWorktree, Placed, Prune
      <4> QED
        BY <2>1, <4>1, CacheAssumption DEF Same, JobInv, Fits
    <3> QED
      BY <1>1, <3>1, RedoneAlike
  <2>2. CASE job[p].kind # "local" /\ ~Resolve(p)
    <3>1. Same(p) /\ (InRoot(p)' <=> InRoot(p))
      <4>1. CASE LockClone(p) \/ BeginClone(p)
        BY <2>2, <4>1, AfterGoto DEF LockClone, BeginClone, InRoot, Same
      <4>2. CASE Fetch(p) \/ EndClone(p)
        BY <2>2, <4>2, AfterGoto DEF Fetch, EndClone, Refreshed, InRoot, Same
      <4>3. CASE Keep(p) \/ LockWorktree(p)
        BY <2>2, <4>3, AfterGoto DEF Keep, LockWorktree, Placed, InRoot, Same
      <4>4. CASE Prune(p)
        BY <2>2, <4>4, AfterGoto DEF Prune, InRoot
      <4> QED
        BY <2>2, <4>1, <4>2, <4>3, <4>4
    <3> QED
      BY <1>1, <3>1, RedoneAlike
  <2>3. CASE job[p].kind # "local" /\ Resolve(p)
    <3>1. job[p].kind = "remote" /\ job[p].pc = "resolve"
      BY <2>3, AfterResolve DEF JobInv, Fits
    <3>2. Same(p) /\ job'[p].pc = "root"
      BY <2>3, <3>1, AfterResolve
    <3> QED
      BY <1>1, <3>1, <3>2, RedoneAlike DEF InRoot, Same
  <2> QED
    BY <2>1, <2>2, <2>3
<1> QED
  BY <1>1, <1>3, <1>4, <1>5, <1>6, SeenAlike

\* A command starts where nobody sees it.
LEMMA StartUnseen ==
    ASSUME CacheInv, NEW p \in Proc, RunRemote(p) \/ RunLocal(p)
    PROVE  UNCHANGED Warm!vars
<1> USE DEF CacheInv
<1>1. Moves(p)
  BY DEF Moves
<1>2. job[p].pc = "idle" /\ lock' = lock
  BY DEF RunRemote, RunLocal, Start
<1>3. job'[p].pc \in {"tuple", "clone", "root"} /\ UNCHANGED roots
  BY AfterStart
<1>4. ExecutesIn(p)' = ExecutesIn(p)
  BY <1>2, <1>3 DEF ExecutesIn
<1>5. ~Redoes(p) /\ ~(Redoes(p)' /\ job'[p].root \in Remote)
  BY <1>2, AfterStart DEF Redoes, InRoot
<1>6. Redone' = Redone
  BY <1>1, <1>5, RedoneAlike
<1> QED
  BY <1>1, <1>2, <1>3, <1>4, <1>6, SeenAlike DEF roots

\* A process that ends, fails or dies departs.
LEMMA DepartStep ==
    ASSUME CacheInv, NEW p \in Proc, End(p) \/ FetchFails(p) \/ Abort(p)
    PROVE  Warm!Depart(p)
<1> USE DEF CacheInv
<1>1. Moves(p) /\ Leave(p) /\ UNCHANGED roots
  BY DEF Moves, Step, End, FetchFails, Abort
<1>2. ExecutesIn(p)' = NoRoot
  BY AfterStart DEF ExecutesIn
<1>3. \A r \in Remote : lock'[r] = IF lock[r] = p THEN Nobody ELSE lock[r]
  BY <1>1 DEF Leave, Key, Root
<1>4. [r \in Remote |-> lock[r]]' =
          [r \in Remote |-> IF [s \in Remote |-> lock[s]][r] = p THEN Nobody
                            ELSE [s \in Remote |-> lock[s]][r]]
  BY <1>3
<1>5. [q \in Proc |-> ExecutesIn(q)]' = [[q \in Proc |-> ExecutesIn(q)] EXCEPT ![p] = NoRoot]
  BY <1>1, <1>2, ExecutesElsewhere
<1>6. Redone' = {r \in Redone : [s \in Remote |-> lock[s]][r] # p}
  <2>1. ~Redoes(p)'
    BY AfterStart DEF Redoes
  <2>2. \A q \in Proc : q # p => (Redoes(q)' <=> Redoes(q)) /\ job'[q].root = job[q].root
    BY <1>1, OthersLeftAlone DEF Redoes, InRoot
  <2>3. \A q \in Proc : Redoes(q) => lock[job[q].root] = q
    BY HolderRedoes
  <2> QED
    BY <2>1, <2>2, <2>3 DEF Redone
<1> QED
  BY <1>1, <1>4, <1>5, <1>6 DEF Warm!Depart, roots, Redone

\* A step upon one root is one of the abstraction's.
LEMMA UponRoot ==
    ASSUME NEW p \in Proc, NEW r \in Remote,
           \/ Warm!Enter(p, r) \/ Warm!Work(p, r) \/ Warm!Redo(p, r)
           \/ Warm!Finish(p, r) \/ Warm!Find(p, r) \/ Warm!Use(p, r)
    PROVE  Warm!Next
  BY Zenon DEF Warm!Next

\* The lock of a remote root is what Enter takes.
LEMMA EnterStep ==
    ASSUME CacheInv, NEW p \in Proc, LockRoot(p)
    PROVE  [Warm!Next]_Warm!vars
<1> USE DEF CacheInv
<1>1. Moves(p) /\ Step(p) /\ ~CheckInputs(p) /\ ~End(p) /\ ~EnterTuple(p)
  BY DEF Moves, Step, LockRoot, CheckInputs, End, EnterTuple
<1>2. ExecutesIn(p)' = ExecutesIn(p)
  BY <1>1, Underway
<1>3. /\ UNCHANGED <<dir, marker, synced>> /\ Acquire(p, job[p].root)
      /\ Same(p) /\ ~InRoot(p)
  BY AfterGoto DEF LockRoot, roots, InRoot
<1>4. CASE job[p].root \in Remote
  <2>1. [r \in Remote |-> lock[r]][job[p].root] = Nobody
    BY <1>3, <1>4 DEF Acquire
  <2>2. [r \in Remote |-> lock[r]]' = [[r \in Remote |-> lock[r]] EXCEPT ![job[p].root] = p]
    BY <1>3, <1>4 DEF Acquire, TypeOK, Key, Root
  <2>3. [q \in Proc |-> ExecutesIn(q)]' = [q \in Proc |-> ExecutesIn(q)]
    BY <1>1, <1>2, OthersExecute
  <2>4. PICK r \in Remote : r = job[p].root
    BY <1>4
  <2>5. Redone' \in {Redone, Redone \cup {r}}
    <3>1. \A q \in Proc : q # p => (Redoes(q)' <=> Redoes(q)) /\ job'[q].root = job[q].root
      BY <1>1, OthersLeftAlone DEF Redoes, InRoot
    <3>2. ~Redoes(p) /\ job'[p].root = r
      BY <1>3, <2>4 DEF Redoes, Same
    <3>3. CASE Redoes(p)'
      BY <3>1, <3>2, <3>3 DEF Redone
    <3>4. CASE ~Redoes(p)'
      BY <3>1, <3>2, <3>4 DEF Redone
    <3> QED
      BY <3>3, <3>4
  <2>6. Warm!Enter(p, r)
    BY <1>3, <2>1, <2>2, <2>3, <2>4, <2>5 DEF Warm!Enter, Redone
  <2> QED
    BY <2>6, UponRoot
<1>5. CASE job[p].root \notin Remote
  <2>1. \A r \in Remote : lock'[r] = lock[r]
    BY <1>3, <1>5 DEF Acquire, TypeOK, Key, Root
  <2>2. Redone' = Redone
    BY <1>1, <1>3, <1>5, RedoneAlike DEF Same
  <2> QED
    BY <1>1, <1>2, <1>3, <2>1, <2>2, SeenAlike
<1> QED
  BY <1>4, <1>5

\* The holder of a root's lock alone changes what stands and what is made in it,
\* and in a marked root only what is made, when it is forced.
LEMMA WorkStep ==
    ASSUME CacheInv, SyncInv, NEW p \in Proc,
           Discard(p) \/ BeginAdd(p) \/ EndAdd(p) \/ BeginSync(p) \/ EndSync(p)
    PROVE  [Warm!Next]_Warm!vars
<1> USE DEF CacheInv
<1> DEFINE r0 == job[p].root
<1>1. Moves(p) /\ Step(p) /\ ~CheckInputs(p) /\ ~End(p) /\ ~EnterTuple(p)
  BY DEF Moves, Step, Discard, BeginAdd, EndAdd, BeginSync, EndSync, CheckInputs,
     End, EnterTuple
<1>2. ExecutesIn(p)' = ExecutesIn(p)
  BY <1>1, Underway
<1>3. [q \in Proc |-> ExecutesIn(q)]' = [q \in Proc |-> ExecutesIn(q)]
  BY <1>1, <1>2, OthersExecute
<1>4. /\ marker' = marker
      /\ job[p].pc \in {"discard", "worktree", "adding", "sync", "syncing"}
      /\ job[p].part \in Part /\ r0 \in Root
  BY JobFields DEF Discard, BeginAdd, EndAdd, BeginSync, EndSync, roots, Part
<1>5. \A r \in Remote : lock'[r] = lock[r]
  <2>1. CASE Discard(p) \/ BeginAdd(p) \/ BeginSync(p) \/ EndSync(p)
    BY <2>1 DEF Discard, BeginAdd, BeginSync, EndSync
  <2>2. CASE EndAdd(p)
    BY <2>2, <1>4, ClonesApart DEF EndAdd
  <2> QED
    BY <2>1, <2>2
<1>6. \A r \in Remote : r # r0 => dir'[r]["member"] = dir[r]["member"]
                                   /\ synced'[r] = synced[r]
  BY <1>1, ElsewhereLeftAlone, SyncedElsewhere DEF Root
<1>7. Same(p) /\ (job[p].kind = "remote" => (InRoot(p)' <=> InRoot(p)))
  <2>1. CASE Discard(p)
    BY <2>1, AfterGoto DEF Discard, InRoot, Same
  <2>2. CASE BeginAdd(p) \/ BeginSync(p)
    BY <2>2, AfterGoto DEF BeginAdd, BeginSync, InRoot, Same
  <2>3. CASE EndAdd(p)
    BY <2>3, AfterGoto DEF EndAdd, Placed, InRoot, Same
  <2>4. CASE EndSync(p)
    BY <2>4, AfterGoto DEF EndSync, InRoot, Same
  <2> QED
    BY <2>1, <2>2, <2>3, <2>4
<1>8. Redone' = Redone
  <2>1. CASE job[p].kind = "remote"
    BY <1>1, <1>7, <2>1, RedoneAlike
  <2>2. CASE job[p].kind # "remote"
    <3>1. r0 \notin Remote /\ job'[p].root = r0
      BY <1>4, <1>7, <2>2, CacheAssumption DEF JobInv, Fits, Same
    <3> QED
      BY <1>1, <3>1, RedoneAlike
  <2> QED
    BY <2>1, <2>2
<1>9. CASE r0 \notin Remote
  BY <1>1, <1>2, <1>4, <1>5, <1>6, <1>8, <1>9, SeenAlike
<1>10. CASE r0 \in Remote
  <2>1. job[p].kind = "remote"
    BY <1>4, <1>10, CacheAssumption DEF JobInv, Fits
  <2>2. InRoot(p) /\ lock[r0] = p
    BY <1>4, <2>1 DEF InRoot, LockInv, Holds
  <2>3. /\ dir'[r0]["member"] \in State
        /\ synced'[r0] \in Warm!Made
    <3>1. TypeOK'
      BY <1>1, TypeStep DEF Next, Moves
    <3> QED
      BY <3>1, <1>4 DEF TypeOK, Part, Warm!Made
  <2>4. /\ [r \in Remote |-> dir[r]["member"]]' =
              [[r \in Remote |-> dir[r]["member"]] EXCEPT ![r0] = dir'[r0]["member"]]
        /\ [r \in Remote |-> synced[r]]' =
              [[r \in Remote |-> synced[r]] EXCEPT ![r0] = synced'[r0]]
    BY <1>6, <1>10
  <2>5. [r \in Remote |-> lock[r]]' = [r \in Remote |-> lock[r]]
    BY <1>5
  <2>6. [r \in Remote |-> lock[r]][r0] = p
    BY <1>10, <2>2
  <2>7. PICK r \in Remote : r = r0
    BY <1>10
  <2>8. CASE r0 \notin marker
    <3>1. Warm!Work(p, r)
      BY <1>3, <1>4, <1>8, <2>3, <2>4, <2>5, <2>6, <2>7, <2>8 DEF Warm!Work, Redone
    <3> QED
      BY <3>1, UponRoot
  <2>9. CASE r0 \in marker
    <3>1. job[p].pc # "discard" /\ dir[r0]["member"] = "whole"
      BY <2>1, <2>9 DEF RootInv, Built
    <3>2. Working(p)
      BY <1>4, <2>1, <3>1 DEF Working
    <3>3. Redoes(p) /\ r0 \in Redone
      BY <1>10, <2>2, <2>9, <3>2 DEF SyncInv, Unforced, Redoes, Redone
    <3>4. CASE BeginAdd(p) \/ EndAdd(p)
      <4>1. job[p].part # "member"
        BY <2>1, <2>9, <3>1, <3>4 DEF RootInv, Built, BeginAdd, EndAdd
      <4>2. dir'[r0]["member"] = dir[r0]["member"] /\ synced' = synced
        BY <1>4, <3>4, <4>1 DEF BeginAdd, EndAdd, TypeOK, Part
      <4> QED
        BY <1>1, <1>2, <1>4, <1>5, <1>6, <1>8, <4>2, SeenAlike
    <3>5. CASE BeginSync(p) \/ EndSync(p)
      <4>1. dir' = dir /\ synced'[r0] \in {"partial", "done"}
        BY <1>4, <3>5 DEF BeginSync, EndSync, TypeOK
      <4>2. [q \in Remote |-> dir[q]["member"]]' = [q \in Remote |-> dir[q]["member"]]
        BY <4>1
      <4>3. synced'[r0] \in Warm!Made \ {"none"}
        BY <4>1 DEF Warm!Made
      <4>4. Warm!Redo(p, r)
        BY <1>3, <1>4, <1>8, <2>4, <2>5, <2>6, <2>7, <2>9, <3>3, <4>2, <4>3
           DEF Warm!Redo, Redone
      <4> QED
        BY <4>4, UponRoot
    <3> QED
      BY <3>1, <3>4, <3>5 DEF Discard
  <2> QED
    BY <2>8, <2>9
<1> QED
  BY <1>9, <1>10

\* Who leaves a root's lock for its command lets go of what it was to redo.
LEMMA RedoneLeft ==
    ASSUME CacheInv, NEW p \in Proc, Moves(p), Same(p), InRoot(p), ~InRoot(p)',
           job[p].root \in Remote
    PROVE  Redone' = Redone \ {job[p].root}
<1> USE DEF CacheInv
<1>1. \A q \in Proc : q # p => (Redoes(q)' <=> Redoes(q)) /\ job'[q].root = job[q].root
  BY OthersLeftAlone DEF Redoes, InRoot
<1>2. ~Redoes(p)'
  BY DEF Redoes
<1>3. \A q \in Proc : q # p /\ Redoes(q) => job[q].root # job[p].root
  BY DEF Redoes, LockInv, Holds
<1> QED
  BY <1>1, <1>2, <1>3 DEF Redone

\* A root is left to its users whole and synced: marked just now, or found marked
\* by a run that is not to redo it.
LEMMA FinishStep ==
    ASSUME CacheInv, SyncInv, NEW p \in Proc, Inspect(p) \/ Mark(p)
    PROVE  [Warm!Next]_Warm!vars
<1> USE DEF CacheInv
<1> DEFINE r0 == job[p].root
<1>1. Moves(p) /\ Step(p) /\ ~CheckInputs(p) /\ ~End(p) /\ ~EnterTuple(p)
  BY DEF Moves, Step, Inspect, Mark, CheckInputs, End, EnterTuple
<1>2. ExecutesIn(p)' = ExecutesIn(p)
  BY <1>1, Underway
<1>3. [q \in Proc |-> ExecutesIn(q)]' = [q \in Proc |-> ExecutesIn(q)]
  BY <1>1, <1>2, OthersExecute
<1>4. /\ UNCHANGED <<dir, synced>> /\ job[p].pc \in {"inspect", "mark"}
      /\ Same(p)
  BY AfterGoto DEF Inspect, Mark, roots
<1>5. /\ job[p].kind = "remote" /\ r0 \in Remote /\ r0 \in Key
      /\ InRoot(p) /\ lock[r0] = p
  <2>1. job[p].kind = "remote" /\ r0 \in Remote /\ r0 \in Key
    BY <1>4 DEF JobInv, Fits, Key, Root
  <2> QED
    BY <1>4, <2>1 DEF InRoot, LockInv, Holds
<1>6. PICK r \in Remote : r = r0
  BY <1>5
<1>7. [q \in Remote |-> lock[q]][r0] = p
  BY <1>5
<1>8. Release(p, r0) =>
          [q \in Remote |-> lock[q]]' = [[q \in Remote |-> lock[q]] EXCEPT ![r0] = Nobody]
  BY <1>5 DEF Release, TypeOK, Key, Root
<1>9. CASE Mark(p)
  <2>1. marker' = marker \cup {r0} /\ Release(p, r0) /\ ~InRoot(p)'
    BY <1>5, <1>9, AfterGoto DEF Mark, InRoot, Same
  <2>2. dir[r0]["member"] = "whole" /\ synced[r0] = "done"
    BY <1>5, <1>9 DEF Mark, RootInv, Built, SyncInv, SyncedOrMarking
  <2>3. /\ [q \in Remote |-> dir[q]["member"]][r0] = "whole"
        /\ [q \in Remote |-> synced[q]][r0] = "done"
    BY <1>5, <2>2
  <2>4. Redone' = Redone \ {r0}
    BY <1>1, <1>4, <1>5, <2>1, RedoneLeft
  <2>5. Warm!Finish(p, r)
    BY <1>3, <1>4, <1>6, <1>7, <1>8, <2>1, <2>3, <2>4 DEF Warm!Finish, Redone
  <2> QED
    BY <2>5, UponRoot
<1>10. CASE Inspect(p) /\ lock' = lock
  <2>1. marker' = marker /\ (InRoot(p)' <=> InRoot(p))
    <3>1. CASE Goto(p, "discard") \/ Goto(p, "checkout")
      BY <1>4, <1>5, <1>10, <3>1, AfterGoto DEF Inspect, roots, InRoot, Same
    <3>2. CASE Release(p, r0)
      <4>1. lock'[r0] = Nobody
        BY <1>5, <3>2 DEF Release, TypeOK
      <4> QED
        BY <1>5, <1>10, <4>1, CacheAssumption
    <3> QED
      BY <1>10, <3>1, <3>2 DEF Inspect
  <2>2. Redone' = Redone
    BY <1>1, <1>4, <2>1, RedoneAlike
  <2> QED
    BY <1>1, <1>2, <1>4, <1>10, <2>1, <2>2, SeenAlike
<1>11. CASE Inspect(p) /\ lock' # lock
  <2>1. /\ r0 \in marker /\ ~job[p].force /\ marker' = marker
        /\ Release(p, r0) /\ Goto(p, "inputs")
    BY <1>11 DEF Inspect, roots
  <2>2. ~InRoot(p)'
    BY <1>4, <1>5, <2>1, AfterGoto DEF InRoot, Same
  <2>3. r0 \notin Redone
    BY <1>5, <2>1 DEF Redone, Redoes, LockInv, Holds
  <2>4. Redone' = Redone
    BY <1>1, <1>4, <1>5, <2>2, <2>3, RedoneLeft
  <2>5. Warm!Find(p, r)
    BY <1>3, <1>4, <1>6, <1>7, <1>8, <2>1, <2>3, <2>4 DEF Warm!Find, Redone
  <2> QED
    BY <2>5, UponRoot
<1> QED
  BY <1>9, <1>10, <1>11

\* A command begins in a warm root: marked, or found by a tuple file.
LEMMA UseStep ==
    ASSUME CacheInv, NEW p \in Proc, CheckInputs(p) \/ EnterTuple(p)
    PROVE  [Warm!Next]_Warm!vars
<1> USE DEF CacheInv
<1> DEFINE r0 == job[p].root
<1>1. Moves(p) /\ Step(p)
  BY DEF Moves, Step
<1>2. UNCHANGED <<dir, synced, marker, lock>> /\ job[p].pc \in {"inputs", "tuple"}
  BY DEF CheckInputs, EnterTuple, roots
<1>A. Redone' = Redone
  <2>1. /\ Same(p)
        /\ job'[p].pc \in {"exec", "clone"}
    BY AfterGoto DEF CheckInputs, EnterTuple
  <2>2. CASE job[p].kind = "local"
    <3>1. job'[p].root = job[p].root /\ job[p].root \notin Remote
      BY <2>1, <2>2, CacheAssumption DEF Same, JobInv, Fits
    <3> QED
      BY <1>1, <3>1, RedoneAlike
  <2>3. CASE job[p].kind # "local"
    <3>1. ~InRoot(p) /\ ~InRoot(p)'
      BY <1>2, <2>1, <2>3 DEF InRoot, Same
    <3> QED
      BY <1>1, <3>1, RedoneAlike DEF Redoes
  <2> QED
    BY <2>2, <2>3
<1>3. ExecutesIn(p) = NoRoot
  BY <1>2 DEF ExecutesIn
<1>4. CASE ExecutesIn(p)' = ExecutesIn(p)
  BY <1>1, <1>2, <1>A, <1>4, SeenAlike
<1>5. CASE ExecutesIn(p)' # ExecutesIn(p)
  <2>1. job'[p].kind = "remote" /\ job'[p].pc = "exec" /\ ExecutesIn(p)' = job'[p].root
    BY <1>3, <1>5 DEF ExecutesIn
  <2>2. Same(p)
    BY AfterGoto DEF CheckInputs, EnterTuple
  <2>3. job[p].kind = "remote" /\ ExecutesIn(p)' = r0 /\ r0 \in Remote
    BY <2>1, <2>2 DEF Same, JobInv, Fits
  <2>4. r0 \in marker
    <3>1. CASE CheckInputs(p)
      BY <3>1, <2>3 DEF CheckInputs, RootInv, Built
    <3>2. CASE EnterTuple(p)
      <4>1. r0 \in tuple
        BY <3>2, <2>1, AfterGoto DEF EnterTuple
      <4> QED
        BY <4>1 DEF RootInv
    <3> QED
      BY <3>1, <3>2
  <2>5. [q \in Proc |-> ExecutesIn(q)]' = [[q \in Proc |-> ExecutesIn(q)] EXCEPT ![p] = r0]
    BY <1>1, <2>3, ExecutesElsewhere
  <2>6. [q \in Proc |-> ExecutesIn(q)][p] = NoRoot
    BY <1>3
  <2>7. PICK r \in Remote : r = r0
    BY <2>3
  <2>8. Warm!Use(p, r)
    BY <1>2, <1>A, <2>4, <2>5, <2>6, <2>7 DEF Warm!Use, Redone
  <2> QED
    BY <2>8, UponRoot
<1> QED
  BY <1>4, <1>5

\* Every step of the cache is a step of its abstraction or none.
LEMMA WarmStep == CacheInv /\ SyncInv /\ [Next]_vars => [Warm!Next]_Warm!vars
<1> SUFFICES ASSUME CacheInv, SyncInv, [Next]_vars PROVE [Warm!Next]_Warm!vars
  OBVIOUS
<1>1. CASE UNCHANGED vars
  BY <1>1 DEF vars, Warm!vars, ExecutesIn, Redoes, InRoot
<1>2. CASE Publish
  BY <1>2 DEF Publish, roots, Warm!vars, ExecutesIn, Redoes, InRoot
<1>3. ASSUME NEW p \in Proc, RunRemote(p) \/ RunLocal(p)
      PROVE  [Warm!Next]_Warm!vars
  BY <1>3, StartUnseen
<1>4. ASSUME NEW p \in Proc, Abort(p) \/ End(p) \/ FetchFails(p)
      PROVE  [Warm!Next]_Warm!vars
  BY <1>4, DepartStep DEF Warm!Next
<1>5. ASSUME NEW p \in Proc, Step(p), ~End(p), ~FetchFails(p)
      PROVE  [Warm!Next]_Warm!vars
  BY <1>5, UnseenStep, EnterStep, WorkStep, FinishStep, UseStep DEF Step
<1> QED
  BY <1>1, <1>2, <1>3, <1>4, <1>5 DEF Next

\* For any number of processes and roots: a marked root keeps its sources, what
\* its sync made changes under a forced run only, and remote commands execute in
\* marked roots only.
THEOREM CacheKeepsWarmRoots == Spec => KeepsWarmRoots
<1>1. Init => Warm!Init
  <2> SUFFICES ASSUME Init PROVE Warm!Init
    OBVIOUS
  <2>1. /\ [r \in Remote |-> dir[r]["member"]] = [r \in Remote |-> "absent"]
        /\ [r \in Remote |-> synced[r]] = [r \in Remote |-> "none"]
        /\ [r \in Remote |-> lock[r]] = [r \in Remote |-> Nobody]
    BY DEF Init, Root, Part, Key
  <2>2. [p \in Proc |-> ExecutesIn(p)] = [p \in Proc |-> NoRoot]
    BY DEF Init, Idle, ExecutesIn
  <2>3. {r \in Remote : \E p \in Proc : Redoes(p) /\ job[p].root = r} = {}
    BY DEF Init, Idle, Redoes
  <2> QED
    BY <2>1, <2>2, <2>3 DEF Init, Warm!Init
<1> QED
  BY <1>1, WarmStep, CacheInvariant, SyncInvariant, PTL DEF Spec, KeepsWarmRoots, Warm!Spec

=============================================================================
