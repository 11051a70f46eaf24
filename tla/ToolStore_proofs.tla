-------------------------- MODULE ToolStore_proofs ---------------------------
(***************************************************************************)
(* What holds of the tool store for any number of processes, workspaces,   *)
(* revisions and binaries, whatever overlaps and whatever is killed.       *)
(***************************************************************************)
EXTENDS ToolStore, TLAPS

-----------------------------------------------------------------------------
(* The inductive invariant. *)

\* What p remembers fits what it is about to do.
Fits(p) ==
    /\ job[p].todo \subseteq Tool
    /\ job[p].pc = "look" => job[p].ws \in Workspace
    /\ job[p].pc = "look" /\ job[p].todo # {} => job[p].to \in Revision
    /\ job[p].pc = "look" /\ job[p].phase = "view" => job[p].to \in Revision
    /\ job[p].pc \in {"stage", "fill", "rename", "unlinkview", "linkview"} =>
          /\ job[p].ws \in Workspace
          /\ job[p].to \in Revision
          /\ job[p].at \in Tool
          /\ job[p].digest = Index[job[p].to][job[p].at]
    /\ job[p].pc \in {"find", "lock", "recheck", "build", "land", "name"} =>
          /\ job[p].ws \in Workspace
          /\ job[p].to = "entry"
          /\ job[p].at \in Entry
          /\ job[p].todo = {}
          /\ job[p].phase = "bin"
    /\ job[p].pc \in {"land", "name"} => job[p].digest \in Digest
    /\ job[p].pc \in {"unlinkbin", "linkbin"} =>
          /\ job[p].ws \in Workspace
          /\ job[p].at \in Name
          /\ job[p].phase = "bin"
          /\ job[p].to \in Revision \/ job[p].todo = {}

JobInv == \A p \in Proc : Fits(p)

\* p holds the lock of the entry it builds, which nobody has built.
Guards(p) ==
    /\ Building(p) => lock[job[p].at] = p
    /\ job[p].pc \in {"build", "land", "name"} => entry[job[p].at] = NoDigest

LockInv == \A p \in Proc : Guards(p)

\* What p has seen in the store before it links to it.
Backed(p) ==
    /\ job[p].pc \in {"unlinkview", "linkview", "name"} =>
          blob[job[p].digest] # "absent"
    /\ job[p].pc \in {"unlinkbin", "linkbin"} /\ job[p].at \in Entry =>
          Built(job[p].at)

LinkInv ==
    /\ LinksLeadToBlobs
    /\ \A e \in Entry : entry[e] # NoDigest => blob[entry[e]] # "absent"
    /\ \A p \in Proc : Backed(p)

\* p writes the staging file it has opened.
Staging(p) == job[p].pc \in {"fill", "rename"}

\* An ordinary user's processes never share a staging file, and none is
\* renamed before it is written.
StageInv ==
    ~superuser =>
        /\ \A d \in Digest : blob[d] # "partial"
        /\ \A p \in Proc :
              /\ job[p].pc = "fill" =>
                    /\ job[p].hand = "stage"
                    /\ stage[job[p].digest] # "absent"
              /\ job[p].pc = "rename" => stage[job[p].digest] = "whole"
        /\ \A p, q \in Proc :
              p # q /\ Staging(p) /\ Staging(q) => job[p].digest # job[q].digest

StoreInv == TypeOK /\ JobInv /\ LockInv /\ LinkInv /\ StageInv

-----------------------------------------------------------------------------
(* Types. *)

\* The jobs a process starts with.
ApplyJob(w, r) ==
    [Idle EXCEPT !.pc = "look", !.ws = w, !.to = r, !.todo = Tool]
BuildJob(w, e) ==
    [Idle EXCEPT !.pc = "find", !.ws = w, !.to = "entry", !.at = e,
                 !.phase = "bin"]

\* They are jobs, and so is what a process goes back to.
LEMMA JobValues ==
    /\ Idle \in Job
    /\ \A w \in Workspace, r \in Revision : ApplyJob(w, r) \in Job
    /\ \A w \in Workspace, e \in Entry : BuildJob(w, e) \in Job
  BY DEF Idle, Job, Pc, Target, Name, ApplyJob, BuildJob

\* What a process is about to do with a tool names a tool, a digest, an entry.
LEMMA JobFields ==
    ASSUME TypeOK, JobInv, NEW p \in Proc
    PROVE  /\ job[p] \in Job
           /\ job[p].pc \in {"stage", "fill", "rename", "unlinkview", "linkview"}
                 => job[p].at \in Tool /\ job[p].to \in Revision
                    /\ job[p].digest \in Digest
           /\ job[p].pc \in {"land", "name"} => job[p].digest \in Digest
<1>1. job[p] \in Job
  BY DEF TypeOK
<1> QED
  BY <1>1, StoreAssumption DEF JobInv, Fits

\* Every step of a job keeps the types.
LEMMA StepTypes ==
    ASSUME TypeOK, JobInv, NEW p \in Proc, Step(p)
    PROVE  TypeOK'
<1>0. Idle \in Job
  BY JobValues
<1>j. /\ job \in [Proc -> Job] /\ job[p] \in Job
      /\ job[p].pc \in {"stage", "fill", "rename", "unlinkview", "linkview"}
             => job[p].at \in Tool /\ job[p].to \in Revision
                /\ job[p].digest \in Digest
      /\ job[p].pc \in {"land", "name"} => job[p].digest \in Digest
  BY JobFields DEF TypeOK
<1> USE <1>j, StoreAssumption DEF TypeOK, Job, Pc, Target, State, Name,
        Goto, files, links, rest
<1>g. ASSUME NEW pc \in Pc, Goto(p, pc)
      PROVE  job' \in [Proc -> Job]
  <2>1. [job[p] EXCEPT !.pc = pc] \in Job
    OBVIOUS
  <2> QED
    BY <1>g, <2>1
<1>1. CASE Look(p)
  BY <1>1 DEF Look
<1>2. CASE OpenStage(p)
  <2>1. [job[p] EXCEPT !.pc = "fill", !.hand = "stage"] \in Job
    OBVIOUS
  <2>2. job' \in [Proc -> Job]
    BY <1>2, <1>g, <2>1 DEF OpenStage
  <2>3. stage' \in [Digest -> State]
    <3>1. stage \in [Digest -> State]
      OBVIOUS
    <3>2. \/ stage' = stage
          \/ stage' = [stage EXCEPT ![job[p].digest] = "partial"]
      BY <1>2 DEF OpenStage
    <3> QED
      BY <3>1, <3>2
  <2> QED
    BY <1>2, <2>2, <2>3 DEF OpenStage
<1>3. CASE Fill(p)
  BY <1>3 DEF Fill
<1>4. CASE Rename(p)
  <2>1. [job[p] EXCEPT !.pc = "unlinkview"] \in Job
    OBVIOUS
  <2>2. \A q \in Proc : [job[q] EXCEPT !.hand = Moved(@)] \in Job
    <3>1. \A q \in Proc : Moved(job[q].hand) \in {"stage", "blob", "lost"}
      BY DEF Moved
    <3> QED
      BY <3>1, ZenonT(60)
  <2>3. CASE stage[job[p].digest] = "absent"
    <3>1. Goto(p, "refused") /\ UNCHANGED files
      BY <1>4, <2>3 DEF Rename
    <3>2. job' \in [Proc -> Job]
      BY <3>1, <1>g
    <3> QED
      BY <1>4, <3>1, <3>2 DEF Rename
  <2>4. CASE stage[job[p].digest] # "absent"
    <3>1. job' \in [Proc -> Job]
      <4> HIDE DEF Job, State, Pc
      <4>1. job' = [q \in Proc |->
                IF q = p THEN [job[p] EXCEPT !.pc = "unlinkview"]
                ELSE IF job[q].pc = "fill" /\ job[q].digest = job[p].digest
                THEN [job[q] EXCEPT !.hand = Moved(@)]
                ELSE job[q]]
        BY <1>4, <2>4, Zenon DEF Rename
      <4> QED
        BY <2>1, <2>2, <4>1, Zenon
    <3>2. /\ blob' = [blob EXCEPT ![job[p].digest] = stage[job[p].digest]]
          /\ stage' = [stage EXCEPT ![job[p].digest] = "absent"]
          /\ job[p].digest \in Digest
      BY <1>4, <2>4 DEF Rename
    <3>3. blob' \in [Digest -> State] /\ stage' \in [Digest -> State]
      BY <3>2
    <3> QED
      BY <1>4, <3>1, <3>3 DEF Rename
  <2> QED
    BY <2>3, <2>4
<1>5. CASE UnlinkView(p)
  BY <1>5 DEF UnlinkView
<1>6. CASE LinkView(p)
  <2>1. [job[p] EXCEPT !.todo = @ \ {job[p].at}, !.pc = "look"] \in Job
    OBVIOUS
  <2>2. job' \in [Proc -> Job]
    BY <1>6, <1>g, <2>1 DEF LinkView
  <2>3. view' \in [Revision -> SUBSET Tool]
    BY <1>6 DEF LinkView
  <2> QED
    BY <1>6, <2>2, <2>3 DEF LinkView
<1>7. CASE Viewed(p)
  BY <1>7, ZenonT(60) DEF Viewed
<1>8. CASE Find(p)
  BY <1>8 DEF Find
<1>9. CASE LockEntry(p)
  BY <1>9 DEF LockEntry
<1>10. CASE Recheck(p)
  <2>1. job' \in [Proc -> Job]
    BY <1>10, <1>g DEF Recheck
  <2>2. lock' \in [Entry -> Proc \cup {Nobody}]
    BY <1>10 DEF Recheck, Unlock
  <2> QED
    BY <1>10, <2>1, <2>2 DEF Recheck
<1>11. CASE Build(p)
  BY <1>11 DEF Build
<1>12. CASE Land(p)
  <2>1. [job[p] EXCEPT !.pc = "name"] \in Job
    OBVIOUS
  <2>2. \A q \in Proc : [job[q] EXCEPT !.hand = "lost"] \in Job
    BY ZenonT(60)
  <2>3. job' \in [Proc -> Job]
    <3> HIDE DEF Job
    <3> QED
      BY <1>12, <2>1, <2>2, Zenon DEF Land
  <2>4. blob' \in [Digest -> State]
    BY <1>12 DEF Land
  <2> QED
    BY <1>12, <2>3, <2>4 DEF Land
<1>13. CASE NameEntry(p)
  BY <1>13 DEF NameEntry, Unlock
<1>14. CASE LookBin(p)
  BY <1>14 DEF LookBin
<1>15. CASE UnlinkBin(p)
  BY <1>15 DEF UnlinkBin
<1>16. CASE LinkBin(p)
  <2>1. [job[p] EXCEPT !.todo = @ \ {job[p].at}, !.pc = "look"] \in Job
    OBVIOUS
  <2>2. job' \in [Proc -> Job]
    BY <1>16, <1>g, <2>1 DEF LinkBin
  <2>3. bin' \in [Workspace -> [Name -> Target]]
    <3>1. job[p].ws \in Workspace /\ job[p].at \in Name /\ job[p].to \in Target
      BY <1>16 DEF LinkBin, JobInv, Fits
    <3>2. [bin[job[p].ws] EXCEPT ![job[p].at] = job[p].to] \in [Name -> Target]
      BY <3>1
    <3>3. \/ bin' = bin
          \/ bin' = [bin EXCEPT ![job[p].ws][job[p].at] = job[p].to]
      BY <1>16 DEF LinkBin
    <3>4. bin \in [Workspace -> [Name -> Target]]
      OBVIOUS
    <3> HIDE <1>j DEF TypeOK, Job, Pc, Target, State, Name
    <3> QED
      BY <3>1, <3>2, <3>3, <3>4
  <2> QED
    BY <1>16, <2>2, <2>3 DEF LinkBin
<1>17. CASE Linked(p)
  BY <1>0, <1>17 DEF Linked, Leave
<1>18. CASE Report(p)
  BY <1>0, <1>18 DEF Report, Leave
<1> QED
  BY <1>1, <1>2, <1>3, <1>4, <1>5, <1>6, <1>7, <1>8, <1>9, <1>10, <1>11,
     <1>12, <1>13, <1>14, <1>15, <1>16, <1>17, <1>18, Zenon DEF Step

\* Jobs start in one of two ways.
LEMMA StartsAre ==
    ASSUME NEW p \in Proc, Apply(p) \/ ProvisionBinary(p)
    PROVE  \E j \in Job :
              /\ Start(p, j)
              /\ \/ \E w \in Workspace, r \in Revision : j = ApplyJob(w, r)
                 \/ \E w \in Workspace, e \in Entry : j = BuildJob(w, e)
<1>1. CASE Apply(p)
  <2>1. PICK w \in Workspace, r \in Revision : Start(p, ApplyJob(w, r))
    BY <1>1 DEF Apply, ApplyJob
  <2>2. ApplyJob(w, r) \in Job
    BY JobValues
  <2> QED
    BY <2>1, <2>2
<1>2. CASE ProvisionBinary(p)
  <2>1. PICK w \in Workspace, e \in Entry : Start(p, BuildJob(w, e))
    BY <1>2 DEF ProvisionBinary, BuildJob
  <2>2. BuildJob(w, e) \in Job
    BY JobValues
  <2> QED
    BY <2>1, <2>2
<1> QED
  BY <1>1, <1>2

\* So do a start and an end.
LEMMA TypeStep ==
    ASSUME TypeOK, JobInv, [Next]_vars
    PROVE  TypeOK'
<1>1. ASSUME NEW p \in Proc, Apply(p) \/ ProvisionBinary(p)
      PROVE  TypeOK'
  <2>1. PICK j \in Job : Start(p, j)
    BY <1>1, StartsAre
  <2> QED
    BY <2>1, StoreBounds DEF TypeOK, Start, files, links
<1>2. ASSUME NEW p \in Proc, Abort(p)
      PROVE  TypeOK'
  BY <1>2, JobValues, StoreBounds DEF TypeOK, Abort, Leave, files, links
<1>3. CASE UNCHANGED vars
  BY <1>3 DEF TypeOK, vars
<1> QED
  BY <1>1, <1>2, <1>3, StepTypes DEF Next

-----------------------------------------------------------------------------
(* What a step does to jobs. *)

\* Whatever p does.
Moves(p) == Apply(p) \/ ProvisionBinary(p) \/ Step(p) \/ Abort(p)

\* All of a job but where the file it writes is.
SameJob(j, k) ==
    /\ j.pc = k.pc /\ j.phase = k.phase /\ j.ws = k.ws /\ j.to = k.to
    /\ j.todo = k.todo /\ j.at = k.at /\ j.digest = k.digest

\* Another process keeps its job and its locks.
LEMMA OthersLeftAlone ==
    ASSUME TypeOK, JobInv, LockInv,
           NEW p \in Proc, Moves(p), NEW q \in Proc, q # p
    PROVE  /\ SameJob(job'[q], job[q])
           /\ \A e \in Entry : lock[e] = q => lock'[e] = q
<1>1. q # Nobody /\ job \in [Proc -> Job] /\ job[q] \in Job
      /\ lock \in [Entry -> Proc \cup {Nobody}]
  BY StoreAssumption DEF TypeOK
<1> USE <1>1 DEF SameJob
<1>2. ASSUME NEW h PROVE SameJob([job[q] EXCEPT !.hand = h], job[q])
  BY DEF Job
<1>3. CASE Apply(p) \/ ProvisionBinary(p)
  BY <1>3 DEF Apply, ProvisionBinary, Start
<1>4. CASE Abort(p) \/ Linked(p) \/ Report(p)
  BY <1>4 DEF Abort, Linked, Report, Leave
<1>5. CASE Rename(p)
  <2>1. lock' = lock
    BY <1>5 DEF Rename
  <2>2. job'[q] = job[q] \/ job'[q] = [job[q] EXCEPT !.hand = Moved(@)]
    BY <1>5 DEF Rename, Goto
  <2> QED
    BY <1>2, <2>1, <2>2, ZenonT(60)
<1>6. CASE Land(p)
  <2>1. lock' = lock
    BY <1>6 DEF Land
  <2>2. job'[q] = job[q] \/ job'[q] = [job[q] EXCEPT !.hand = "lost"]
    BY <1>6 DEF Land
  <2>3. SameJob([job[q] EXCEPT !.hand = "lost"], job[q])
    BY <1>2
  <2> QED
    BY <2>1, <2>2, <2>3
<1>7. CASE Look(p) \/ OpenStage(p) \/ Fill(p) \/ UnlinkView(p) \/ LinkView(p)
           \/ Viewed(p) \/ Find(p) \/ Build(p) \/ LookBin(p) \/ UnlinkBin(p)
           \/ LinkBin(p)
  BY <1>7 DEF Look, OpenStage, Fill, UnlinkView, LinkView, Viewed, Find, Build,
     LookBin, UnlinkBin, LinkBin, Goto
<1>8. CASE LockEntry(p) \/ Recheck(p) \/ NameEntry(p)
  <2>1. job'[q] = job[q]
    BY <1>8 DEF LockEntry, Recheck, NameEntry, Goto
  <2>2. CASE LockEntry(p)
    BY <1>1, <2>1, <2>2 DEF LockEntry
  <2>3. CASE Recheck(p) \/ NameEntry(p)
    <3>1. job[p].at \in Entry /\ lock[job[p].at] = p
      BY <2>3 DEF Recheck, NameEntry, JobInv, Fits, LockInv, Guards, Building
    <3>2. \/ lock' = lock
          \/ lock' = [lock EXCEPT ![job[p].at] = Nobody]
      BY <2>3 DEF Recheck, NameEntry, Unlock
    <3> QED
      BY <2>1, <3>1, <3>2
  <2> QED
    BY <1>8, <2>1, <2>2, <2>3
<1> QED
  BY <1>3, <1>4, <1>5, <1>6, <1>7, <1>8 DEF Moves, Step

\* A process that moves on keeps the rest of its job.
LEMMA AfterGoto ==
    ASSUME TypeOK, NEW p \in Proc, NEW pc, Goto(p, pc)
    PROVE  /\ job'[p].pc = pc /\ job'[p].phase = job[p].phase
           /\ job'[p].ws = job[p].ws /\ job'[p].to = job[p].to
           /\ job'[p].todo = job[p].todo /\ job'[p].at = job[p].at
           /\ job'[p].digest = job[p].digest /\ job'[p].hand = job[p].hand
<1>1. job \in [Proc -> Job] /\ job[p] \in Job
  BY DEF TypeOK
<1>2. job'[p] = [job[p] EXCEPT !.pc = pc]
  BY <1>1 DEF Goto
<1> QED
  BY <1>1, <1>2 DEF Job

\* So does one whose rename or landing moves other files than its own.
LEMMA AfterMove ==
    ASSUME TypeOK, NEW p \in Proc, Rename(p) \/ Land(p)
    PROVE  \E pc \in {"refused", "unlinkview", "name"} :
              /\ job'[p] = [job[p] EXCEPT !.pc = pc]
              /\ Land(p) <=> pc = "name"
              /\ Rename(p) /\ stage[job[p].digest] = "absent" <=> pc = "refused"
<1>1. job \in [Proc -> Job] /\ job[p] \in Job
  BY DEF TypeOK
<1>2. CASE Rename(p)
  BY <1>1, <1>2 DEF Rename, Land, Goto
<1>3. CASE Land(p)
  BY <1>1, <1>3 DEF Rename, Land
<1> QED
  BY <1>2, <1>3

\* Nobody takes a blob away.
LEMMA BlobsStay ==
    ASSUME TypeOK, JobInv, NEW p \in Proc, Moves(p), NEW d \in Digest
    PROVE  blob[d] # "absent" => blob'[d] # "absent"
<1>1. blob \in [Digest -> State]
  BY DEF TypeOK
<1>2. CASE Fill(p)
  BY <1>1, <1>2 DEF Fill
<1>3. CASE Rename(p)
  BY <1>1, <1>3 DEF Rename, files
<1>4. CASE Land(p)
  BY <1>1, <1>4 DEF Land
<1>5. CASE ~(Fill(p) \/ Rename(p) \/ Land(p))
  <2>1. blob' = blob
    BY <1>5 DEF Moves, Step, Apply, ProvisionBinary, Start, Abort, Look,
       OpenStage, UnlinkView, LinkView, Viewed, Find, LockEntry, Recheck,
       Build, NameEntry, LookBin, UnlinkBin, LinkBin, Linked, Report, files
  <2> QED
    BY <2>1
<1> QED
  BY <1>2, <1>3, <1>4, <1>5

\* An entry is named by the process that holds its lock, and once.
LEMMA EntriesStay ==
    ASSUME TypeOK, JobInv, LockInv, NEW p \in Proc, Moves(p), NEW e \in Entry
    PROVE  /\ entry[e] # NoDigest => entry'[e] = entry[e]
           /\ lock[e] # p => entry'[e] = entry[e]
<1>1. entry \in [Entry -> Digest \cup {NoDigest}]
  BY DEF TypeOK
<1>2. CASE NameEntry(p)
  BY <1>1, <1>2 DEF NameEntry, LockInv, Guards, Building
<1>3. CASE ~NameEntry(p)
  <2>1. entry' = entry
    BY <1>3 DEF Moves, Step, Apply, ProvisionBinary, Start, Abort, Look,
       OpenStage, Fill, Rename, UnlinkView, LinkView, Viewed, Find, LockEntry,
       Recheck, Build, Land, LookBin, UnlinkBin, LinkBin, Linked, Report, links
  <2> QED
    BY <2>1
<1> QED
  BY <1>2, <1>3

\* The steps that change more of a job than where it is.
LEMMA AfterStart ==
    ASSUME TypeOK, NEW p \in Proc, Apply(p) \/ ProvisionBinary(p)
    PROVE  /\ job'[p].ws \in Workspace
           /\ \/ /\ job'[p].pc = "look" /\ job'[p].to \in Revision
                 /\ job'[p].todo = Tool
              \/ /\ job'[p].pc = "find" /\ job'[p].phase = "bin"
                 /\ job'[p].to = "entry" /\ job'[p].at \in Entry
                 /\ job'[p].todo = {}
<1>0. Idle \in Job /\ Idle.todo = {}
  BY JobValues DEF Idle
<1>1. PICK j \in Job :
          /\ Start(p, j)
          /\ \/ \E w \in Workspace, r \in Revision : j = ApplyJob(w, r)
             \/ \E w \in Workspace, e \in Entry : j = BuildJob(w, e)
  BY StartsAre
<1>2. job'[p] = j
  BY <1>1 DEF Start, TypeOK
<1>3. ASSUME NEW w \in Workspace, NEW r \in Revision, j = ApplyJob(w, r)
      PROVE  /\ j.ws \in Workspace /\ j.pc = "look" /\ j.to \in Revision
             /\ j.todo = Tool
  BY <1>0, <1>3 DEF ApplyJob, Job
<1>4. ASSUME NEW w \in Workspace, NEW e \in Entry, j = BuildJob(w, e)
      PROVE  /\ j.ws \in Workspace /\ j.pc = "find" /\ j.phase = "bin"
             /\ j.to = "entry" /\ j.at \in Entry /\ j.todo = {}
  BY <1>0, <1>4 DEF BuildJob, Job
<1> QED
  BY <1>1, <1>2, <1>3, <1>4

LEMMA AfterEnd ==
    ASSUME TypeOK, NEW p \in Proc, Linked(p) \/ Report(p) \/ Abort(p)
    PROVE  job'[p] = Idle
  BY DEF TypeOK, Linked, Report, Abort, Leave

LEMMA AfterLook ==
    ASSUME TypeOK, NEW p \in Proc, Look(p)
    PROVE  \E t \in job[p].todo :
              /\ job'[p].at = t /\ job'[p].digest = Index[job[p].to][t]
              /\ \/ job'[p].pc = "stage"
                 \/ job'[p].pc = "unlinkview" /\ blob[job'[p].digest] # "absent"
              /\ job'[p].ws = job[p].ws /\ job'[p].to = job[p].to
              /\ job'[p].todo = job[p].todo
<1>1. job \in [Proc -> Job] /\ job[p] \in Job
  BY DEF TypeOK
<1>2. PICK t \in job[p].todo :
          job' = [job EXCEPT ![p].at = t, ![p].digest = Index[job[p].to][t],
                     ![p].pc = IF blob[Index[job[p].to][t]] # "absent"
                               THEN "unlinkview" ELSE "stage"]
  BY DEF Look
<1>3. job'[p] = [job[p] EXCEPT !.at = t, !.digest = Index[job[p].to][t],
                     !.pc = IF blob[Index[job[p].to][t]] # "absent"
                            THEN "unlinkview" ELSE "stage"]
  BY <1>1, <1>2
<1> QED
  BY <1>1, <1>3 DEF Job

LEMMA AfterOpen ==
    ASSUME TypeOK, NEW p \in Proc, OpenStage(p), ~Goto(p, "refused")
    PROVE  /\ job'[p].pc = "fill" /\ job'[p].hand = "stage"
           /\ job'[p].at = job[p].at /\ job'[p].digest = job[p].digest
           /\ job'[p].ws = job[p].ws /\ job'[p].to = job[p].to
           /\ job'[p].todo = job[p].todo
<1>1. job \in [Proc -> Job] /\ job[p] \in Job
  BY DEF TypeOK
<1>2. job'[p] = [job[p] EXCEPT !.pc = "fill", !.hand = "stage"]
  BY <1>1 DEF OpenStage
<1> QED
  BY <1>1, <1>2 DEF Job

LEMMA AfterLink ==
    ASSUME TypeOK, NEW p \in Proc, LinkView(p) \/ LinkBin(p),
           ~Goto(p, "refused")
    PROVE  /\ job'[p].pc = "look" /\ job'[p].todo = job[p].todo \ {job[p].at}
           /\ job'[p].phase = job[p].phase
           /\ job'[p].ws = job[p].ws /\ job'[p].to = job[p].to
<1>1. job \in [Proc -> Job] /\ job[p] \in Job
  BY DEF TypeOK
<1>2. job'[p] = [job[p] EXCEPT !.todo = @ \ {job[p].at}, !.pc = "look"]
  BY <1>1 DEF LinkView, LinkBin
<1> QED
  BY <1>1, <1>2 DEF Job

LEMMA AfterViewed ==
    ASSUME TypeOK, NEW p \in Proc, Viewed(p)
    PROVE  /\ job'[p].pc = "look" /\ job'[p].todo = Tool
           /\ job'[p].ws = job[p].ws /\ job'[p].to = job[p].to
<1>1. job \in [Proc -> Job] /\ job[p] \in Job
  BY DEF TypeOK
<1>2. job'[p] = [job[p] EXCEPT !.phase = "bin", !.todo = Tool]
  BY <1>1 DEF Viewed
<1> QED
  BY <1>1, <1>2 DEF Job, Viewed

LEMMA AfterBuild ==
    ASSUME TypeOK, NEW p \in Proc, Build(p)
    PROVE  /\ job'[p].digest \in Builds[job[p].at]
           /\ \/ job'[p].pc = "land"
              \/ job'[p].pc = "name" /\ blob[job'[p].digest] # "absent"
           /\ job'[p].at = job[p].at /\ job'[p].phase = job[p].phase
           /\ job'[p].ws = job[p].ws /\ job'[p].to = job[p].to
           /\ job'[p].todo = job[p].todo
<1>1. job \in [Proc -> Job] /\ job[p] \in Job
  BY DEF TypeOK
<1>2. PICK d \in Builds[job[p].at] :
          job'[p] = [job[p] EXCEPT !.digest = d,
                        !.pc = IF blob[d] # "absent" THEN "name" ELSE "land"]
  BY <1>1 DEF Build
<1> QED
  BY <1>1, <1>2 DEF Job

LEMMA AfterLookBin ==
    ASSUME TypeOK, NEW p \in Proc, LookBin(p)
    PROVE  /\ job'[p].at \in job[p].todo /\ job'[p].pc = "unlinkbin"
           /\ job'[p].phase = "bin"
           /\ job'[p].ws = job[p].ws /\ job'[p].to = job[p].to
           /\ job'[p].todo = job[p].todo
<1>1. job \in [Proc -> Job] /\ job[p] \in Job
  BY DEF TypeOK
<1>2. PICK t \in job[p].todo :
          job'[p] = [job[p] EXCEPT !.at = t, !.pc = "unlinkbin"]
  BY <1>1 DEF LookBin
<1> QED
  BY <1>1, <1>2 DEF Job, LookBin

-----------------------------------------------------------------------------
(* What p's own step keeps. *)

\* What it remembers.
LEMMA FitsStep ==
    ASSUME TypeOK, JobInv, NEW p \in Proc, Moves(p)
    PROVE  Fits(p)'
<1>1. job \in [Proc -> Job] /\ job[p] \in Job /\ Fits(p)
  BY DEF TypeOK, JobInv
<1> USE <1>1 DEF Fits
<1>2. CASE Apply(p) \/ ProvisionBinary(p)
  BY <1>2, AfterStart
<1>3. CASE Linked(p) \/ Report(p) \/ Abort(p)
  <2>1. job'[p] = Idle
    BY <1>3, AfterEnd
  <2> QED
    BY <2>1 DEF Idle
<1>4. ASSUME NEW pc \in {"refused"}, Goto(p, pc)
      PROVE  Fits(p)'
  BY <1>4, AfterGoto
<1>5. CASE Look(p)
  <2>1. job[p].pc = "look" /\ job[p].phase = "view"
    BY <1>5 DEF Look
  <2> QED
    BY <1>5, <2>1, AfterLook
<1>6. CASE OpenStage(p)
  <2>1. job[p].pc = "stage"
    BY <1>6 DEF OpenStage
  <2> QED
    BY <1>4, <1>6, <2>1, AfterOpen
<1>7. CASE Rename(p) \/ Land(p)
  <2>1. job[p].pc \in {"rename", "land"} /\ (Rename(p) <=> job[p].pc = "rename")
    BY <1>7 DEF Rename, Land
  <2>2. PICK pc \in {"refused", "unlinkview", "name"} :
            /\ job'[p] = [job[p] EXCEPT !.pc = pc]
            /\ Land(p) <=> pc = "name"
    BY <1>7, AfterMove
  <2>3. Land(p) => job[p].pc = "land"
    BY DEF Land
  <2> QED
    BY <1>7, <2>1, <2>2, <2>3 DEF Job
<1>8. CASE Fill(p) \/ UnlinkView(p)
  BY <1>8, AfterGoto DEF Fill, UnlinkView
<1>9. CASE LinkView(p)
  <2>1. job[p].pc = "linkview"
    BY <1>9 DEF LinkView
  <2> QED
    BY <1>4, <1>9, <2>1, AfterLink
<1>10. CASE Viewed(p)
  <2>1. job[p].pc = "look" /\ job[p].phase = "view"
    BY <1>10 DEF Viewed
  <2> QED
    BY <1>10, <2>1, AfterViewed
<1>11. CASE Find(p) \/ LockEntry(p) \/ Recheck(p) \/ NameEntry(p)
  BY <1>11, AfterGoto DEF Find, LockEntry, Recheck, NameEntry, Name
<1>12. CASE Build(p)
  <2>1. job[p].pc = "build"
    BY <1>12 DEF Build
  <2>2. job'[p].digest \in Digest
    BY <1>12, <2>1, AfterBuild, StoreAssumption
  <2> QED
    BY <1>12, <2>1, <2>2, AfterBuild
<1>13. CASE LookBin(p)
  <2>1. job[p].pc = "look" /\ job[p].phase = "bin"
    BY <1>13 DEF LookBin
  <2> QED
    BY <1>13, <2>1, AfterLookBin DEF Name
<1>14. CASE UnlinkBin(p)
  BY <1>14, AfterGoto DEF UnlinkBin
<1>15. CASE LinkBin(p)
  <2>1. job[p].pc = "linkbin"
    BY <1>15 DEF LinkBin
  <2> QED
    BY <1>4, <1>15, <2>1, AfterLink
<1> QED
  BY <1>2, <1>3, <1>5, <1>6, <1>7, <1>8, <1>9, <1>10, <1>11, <1>12, <1>13,
     <1>14, <1>15 DEF Moves, Step

\* The lock of what it builds.
LEMMA GuardsStep ==
    ASSUME TypeOK, JobInv, LockInv, LinkInv, NEW p \in Proc, Moves(p)
    PROVE  Guards(p)'
<1>1. /\ job \in [Proc -> Job] /\ job[p] \in Job /\ Fits(p) /\ Guards(p)
      /\ lock \in [Entry -> Proc \cup {Nobody}]
  BY DEF TypeOK, JobInv, LockInv
<1>2. CASE LockEntry(p)
  <2>1. job'[p].pc = "recheck" /\ job'[p].at = job[p].at
    BY <1>2, AfterGoto DEF LockEntry
  <2>2. job[p].at \in Entry
    BY <1>1, <1>2 DEF LockEntry, Fits
  <2>3. lock'[job[p].at] = p
    BY <1>1, <1>2, <2>2 DEF LockEntry
  <2> QED
    BY <2>1, <2>3 DEF Guards, Building
<1>3. CASE Recheck(p)
  <2>1. job[p].at \in Entry /\ job[p].pc = "recheck" /\ entry' = entry
    BY <1>1, <1>3 DEF Recheck, Fits, links
  <2>2. CASE Built(job[p].at)
    BY <1>3, <2>2, AfterGoto DEF Recheck, Guards, Building
  <2>3. CASE ~Built(job[p].at)
    <3>1. job'[p].pc = "build" /\ job'[p].at = job[p].at /\ lock' = lock
      BY <1>3, <2>3, AfterGoto DEF Recheck
    <3>2. entry[job[p].at] = NoDigest
      BY <2>1, <2>3 DEF Built, LinkInv
    <3> QED
      BY <1>1, <2>1, <3>1, <3>2 DEF Guards, Building
  <2> QED
    BY <2>2, <2>3
<1>4. CASE Build(p)
  <2>1. job'[p].pc \in {"name", "land"} /\ job'[p].at = job[p].at
    BY <1>4, AfterBuild
  <2> QED
    BY <1>1, <1>4, <2>1 DEF Build, Guards, Building, links
<1>5. CASE Land(p)
  <2>1. job'[p].pc = "name" /\ job'[p].at = job[p].at
    BY <1>1, <1>5, AfterMove DEF Job
  <2> QED
    BY <1>1, <1>5, <2>1 DEF Land, Guards, Building, links
<1>6. CASE ~(LockEntry(p) \/ Recheck(p) \/ Build(p) \/ Land(p))
  <2>1. job'[p].pc \notin {"recheck", "build", "land", "name"}
    <3>1. CASE Apply(p) \/ ProvisionBinary(p)
      BY <3>1, AfterStart
    <3>2. CASE Linked(p) \/ Report(p) \/ Abort(p)
      BY <3>2, AfterEnd DEF Idle
    <3>3. CASE Rename(p)
      <4>1. ~Land(p)
        BY <3>3 DEF Rename, Land
      <4> QED
        BY <1>1, <3>3, <4>1, AfterMove DEF Job
    <3>4. CASE Look(p)
      BY <3>4, AfterLook
    <3>5. CASE Viewed(p) \/ LookBin(p) \/ OpenStage(p) \/ LinkView(p) \/ LinkBin(p)
      BY <3>5, AfterViewed, AfterLookBin, AfterOpen, AfterLink, AfterGoto
    <3>6. CASE Fill(p) \/ UnlinkView(p) \/ Find(p) \/ NameEntry(p) \/ UnlinkBin(p)
      BY <3>6, AfterGoto DEF Fill, UnlinkView, Find, NameEntry, UnlinkBin
    <3> QED
      BY <1>6, <3>1, <3>2, <3>3, <3>4, <3>5, <3>6 DEF Moves, Step
  <2> QED
    BY <2>1 DEF Guards, Building
<1> QED
  BY <1>2, <1>3, <1>4, <1>5, <1>6

\* What is built stays built.
LEMMA BuiltStays ==
    ASSUME TypeOK, JobInv, LockInv, NEW p \in Proc, Moves(p), NEW e \in Entry
    PROVE  Built(e) => Built(e)'
<1> SUFFICES ASSUME Built(e) PROVE Built(e)'
  OBVIOUS
<1>1. entry[e] \in Digest /\ entry'[e] = entry[e]
  BY EntriesStay DEF Built, TypeOK
<1> QED
  BY <1>1, BlobsStay DEF Built

\* The bytes of what it links to.
LEMMA BackedStep ==
    ASSUME TypeOK, JobInv, LockInv, LinkInv, NEW p \in Proc, Moves(p)
    PROVE  Backed(p)'
<1>1. /\ job \in [Proc -> Job] /\ job[p] \in Job /\ Fits(p) /\ Backed(p)
      /\ blob \in [Digest -> State]
  BY DEF TypeOK, JobInv, LinkInv
<1>2. CASE Look(p)
  <2>1. PICK t \in job[p].todo :
            /\ job'[p].digest = Index[job[p].to][t]
            /\ \/ job'[p].pc = "stage"
               \/ job'[p].pc = "unlinkview" /\ blob[job'[p].digest] # "absent"
    BY <1>2, AfterLook
  <2>2. job'[p].digest \in Digest
    BY <1>1, <1>2, <2>1, StoreAssumption DEF Look, Fits
  <2> QED
    BY <2>1, <2>2, BlobsStay DEF Backed
<1>3. CASE Rename(p)
  <2>1. job[p].digest \in Digest /\ ~Land(p)
    BY <1>3, JobFields DEF Rename, Land
  <2>2. CASE stage[job[p].digest] = "absent"
    BY <1>3, <2>2, AfterGoto DEF Rename, Backed
  <2>3. CASE stage[job[p].digest] # "absent"
    <3>1. job'[p].pc = "unlinkview" /\ job'[p].digest = job[p].digest
      BY <1>1, <1>3, <2>1, <2>3, AfterMove DEF Job
    <3>2. blob'[job[p].digest] # "absent"
      BY <1>1, <1>3, <2>1, <2>3 DEF Rename
    <3> QED
      BY <3>1, <3>2 DEF Backed
  <2> QED
    BY <2>2, <2>3
<1>4. CASE UnlinkView(p)
  <2>1. job[p].digest \in Digest /\ job[p].pc = "unlinkview"
    BY <1>4, JobFields DEF UnlinkView
  <2>2. job'[p].pc = "linkview" /\ job'[p].digest = job[p].digest
    BY <1>4, AfterGoto DEF UnlinkView
  <2> QED
    BY <1>1, <2>1, <2>2, BlobsStay DEF Backed
<1>5. CASE Build(p)
  <2>1. job'[p].digest \in Digest
    BY <1>1, <1>5, AfterBuild, StoreAssumption DEF Build, Fits
  <2> QED
    BY <1>5, <2>1, AfterBuild, BlobsStay DEF Backed
<1>6. CASE Land(p)
  <2>1. job[p].digest \in Digest
    BY <1>6, JobFields DEF Land
  <2>2. job'[p].pc = "name" /\ job'[p].digest = job[p].digest
    BY <1>1, <1>6, AfterMove DEF Job
  <2>3. blob'[job[p].digest] # "absent"
    BY <1>1, <1>6, <2>1 DEF Land
  <2> QED
    BY <2>2, <2>3 DEF Backed
<1>7. CASE Find(p) \/ Recheck(p)
  <2>1. job[p].at \in Entry
    BY <1>1, <1>7 DEF Find, Recheck, Fits
  <2>2. /\ job'[p].at = job[p].at
        /\ \/ job'[p].pc = "unlinkbin" /\ Built(job[p].at)
           \/ job'[p].pc \in {"lock", "build"}
    BY <1>7, AfterGoto DEF Find, Recheck
  <2> QED
    BY <2>1, <2>2, BuiltStays DEF Backed
<1>8. CASE NameEntry(p)
  <2>1. job[p].at \in Entry /\ job[p].digest \in Digest
    BY <1>1, <1>8 DEF NameEntry, Fits
  <2>2. job'[p].pc = "unlinkbin" /\ job'[p].at = job[p].at
    BY <1>8, AfterGoto DEF NameEntry
  <2>3. entry'[job[p].at] = job[p].digest
    BY <1>8, <2>1 DEF NameEntry, TypeOK
  <2>4. blob'[job[p].digest] # "absent"
    BY <1>1, <1>8, <2>1, BlobsStay DEF NameEntry, Backed
  <2> QED
    BY <2>1, <2>2, <2>3, <2>4, StoreAssumption DEF Backed, Built
<1>9. CASE LookBin(p)
  BY <1>1, <1>9, AfterLookBin, StoreAssumption DEF Backed, Fits
<1>10. CASE UnlinkBin(p)
  <2>1. job'[p].pc = "linkbin" /\ job'[p].at = job[p].at
    BY <1>10, AfterGoto DEF UnlinkBin
  <2> QED
    BY <1>1, <1>10, <2>1, BuiltStays DEF UnlinkBin, Backed
<1>11. CASE \/ Apply(p) \/ ProvisionBinary(p) \/ Abort(p) \/ OpenStage(p) \/ Fill(p)
            \/ LinkView(p) \/ Viewed(p) \/ LockEntry(p) \/ LinkBin(p) \/ Linked(p)
            \/ Report(p)
  <2>1. job'[p].pc \notin {"unlinkview", "linkview", "name", "unlinkbin", "linkbin"}
    <3>1. CASE Apply(p) \/ ProvisionBinary(p)
      BY <3>1, AfterStart
    <3>2. CASE Linked(p) \/ Report(p) \/ Abort(p)
      BY <3>2, AfterEnd DEF Idle
    <3>3. CASE OpenStage(p) \/ LinkView(p) \/ Viewed(p) \/ LinkBin(p)
      BY <3>3, AfterOpen, AfterLink, AfterViewed, AfterGoto
    <3>4. CASE Fill(p) \/ LockEntry(p)
      BY <3>4, AfterGoto DEF Fill, LockEntry
    <3> QED
      BY <1>11, <3>1, <3>2, <3>3, <3>4
  <2> QED
    BY <2>1 DEF Backed
<1> QED
  BY <1>2, <1>3, <1>4, <1>5, <1>6, <1>7, <1>8, <1>9, <1>10, <1>11 DEF Moves, Step

\* And the links themselves.
LEMMA LinksStep ==
    ASSUME TypeOK, JobInv, LockInv, LinkInv, NEW p \in Proc, Moves(p)
    PROVE  /\ LinksLeadToBlobs'
           /\ \A e \in Entry : entry'[e] # NoDigest => blob'[entry'[e]] # "absent"
<1>1. Fits(p) /\ Backed(p) /\ LinksLeadToBlobs
  BY DEF JobInv, LinkInv
<1>2. ASSUME NEW e \in Entry, entry'[e] # NoDigest
      PROVE  blob'[entry'[e]] # "absent"
  <2>1. CASE entry'[e] = entry[e]
    <3>1. entry[e] \in Digest
      BY <1>2, <2>1 DEF TypeOK
    <3> QED
      BY <1>2, <2>1, <3>1, BlobsStay DEF LinkInv
  <2>2. CASE NameEntry(p)
    <3>1. job[p].digest \in Digest /\ job[p].pc = "name"
      BY <2>2, JobFields DEF NameEntry
    <3>2. entry'[e] \in {entry[e], job[p].digest}
      BY <2>2 DEF NameEntry, TypeOK
    <3> QED
      BY <1>1, <2>1, <3>1, <3>2, BlobsStay DEF Backed
  <2>3. CASE ~NameEntry(p)
    <3>1. entry' = entry
      BY <2>3 DEF Moves, Step, Apply, ProvisionBinary, Start, Abort, Look,
       OpenStage, Fill, Rename, UnlinkView, LinkView, Viewed, Find, LockEntry,
       Recheck, Build, Land, LookBin, UnlinkBin, LinkBin, Linked, Report, links
    <3> QED
      BY <2>1, <3>1
  <2> QED
    BY <2>2, <2>3
<1>3. ASSUME NEW w \in Workspace, NEW e \in Entry, bin'[w][e] = "entry"
      PROVE  Built(e)'
  <2>1. e \in Name /\ bin \in [Workspace -> [Name -> Target]]
    BY DEF TypeOK, Name
  <2>2. CASE bin'[w][e] = bin[w][e]
    BY <1>1, <1>3, <2>2, BuiltStays DEF LinksLeadToBlobs
  <2>3. CASE UnlinkBin(p)
    <3>1. bin'[w][e] \in {bin[w][e], NoRevision}
      BY <2>1, <2>3 DEF UnlinkBin
    <3> QED
      BY <1>3, <2>2, <3>1, StoreAssumption
  <2>4. CASE LinkBin(p)
    <3>1. job[p].at = e \/ bin'[w][e] = bin[w][e]
      BY <2>1, <2>4 DEF LinkBin
    <3>2. CASE job[p].at = e
      <4>1. Built(e)
        BY <1>1, <2>4, <3>2 DEF LinkBin, Backed
      <4> QED
        BY <4>1, BuiltStays
    <3> QED
      BY <2>2, <3>1, <3>2
  <2>5. CASE ~(UnlinkBin(p) \/ LinkBin(p))
    <3>1. bin' = bin
      BY <2>5 DEF Moves, Step, Apply, ProvisionBinary, Start, Abort, Look,
       OpenStage, Fill, Rename, UnlinkView, LinkView, Viewed, Find, LockEntry,
       Recheck, Build, Land, NameEntry, LookBin, Linked, Report, links
    <3> QED
      BY <2>2, <3>1
  <2> QED
    BY <2>3, <2>4, <2>5
<1>4. ASSUME NEW r \in Revision, NEW t \in view'[r]
      PROVE  blob'[Index[r][t]] # "absent"
  <2>1. view \in [Revision -> SUBSET Tool]
    BY DEF TypeOK
  <2>2. CASE t \in view[r]
    <3>1. Index[r][t] \in Digest
      BY <2>1, <2>2, StoreAssumption
    <3> QED
      BY <1>1, <2>2, <3>1, BlobsStay DEF LinksLeadToBlobs
  <2>3. CASE UnlinkView(p)
    BY <2>1, <2>2, <2>3 DEF UnlinkView
  <2>4. CASE LinkView(p)
    <3>1. t \in view[r] \/ (r = job[p].to /\ t = job[p].at)
      BY <2>1, <2>4 DEF LinkView
    <3>2. /\ job[p].digest \in Digest /\ blob[job[p].digest] # "absent"
          /\ job[p].digest = Index[job[p].to][job[p].at]
      BY <1>1, <2>4, JobFields DEF LinkView, Backed, Fits
    <3> QED
      BY <2>2, <3>1, <3>2, BlobsStay
  <2>5. CASE ~(UnlinkView(p) \/ LinkView(p))
    <3>1. view' = view
      BY <2>5 DEF Moves, Step, Apply, ProvisionBinary, Start, Abort, Look,
       OpenStage, Fill, Rename, Viewed, Find, LockEntry, Recheck, Build, Land,
       NameEntry, LookBin, UnlinkBin, LinkBin, Linked, Report, links
    <3> QED
      BY <2>2, <3>1
  <2> QED
    BY <2>3, <2>4, <2>5
<1> QED
  BY <1>2, <1>3, <1>4 DEF LinksLeadToBlobs

\* A process that does not stage moves no other's file.
LEMMA HandsStay ==
    ASSUME TypeOK, JobInv, StageInv, ~superuser,
           NEW p \in Proc, Moves(p), NEW q \in Proc, q # p
    PROVE  job[q].pc = "fill" => job'[q].hand = job[q].hand
<1> SUFFICES ASSUME job[q].pc = "fill" PROVE job'[q] = job[q]
  OBVIOUS
<1>1. job \in [Proc -> Job] /\ job[q].hand = "stage"
  BY DEF TypeOK, StageInv
<1>2. CASE Rename(p)
  <2>1. job[p].digest # job[q].digest
    BY <1>2 DEF StageInv, Staging, Rename
  <2> QED
    BY <1>1, <1>2, <2>1 DEF Rename, Goto
<1>3. CASE Land(p)
  BY <1>1, <1>3 DEF Land
<1>4. CASE ~(Rename(p) \/ Land(p))
  BY <1>1, <1>4 DEF Moves, Step, Apply, ProvisionBinary, Start, Abort, Leave,
     Goto, Look, OpenStage, Fill, UnlinkView, LinkView, Viewed, Find, LockEntry,
     Recheck, Build, NameEntry, LookBin, UnlinkBin, LinkBin, Linked, Report
<1> QED
  BY <1>2, <1>3, <1>4

\* The staging files of an ordinary user.
LEMMA StageStep ==
    ASSUME TypeOK, JobInv, LockInv, StageInv, NEW p \in Proc, Moves(p)
    PROVE  StageInv'
<1>0. superuser' = superuser
  BY DEF Moves, Step, Apply, ProvisionBinary, Start, Abort, Look,
     OpenStage, Fill, Rename, UnlinkView, LinkView, Viewed, Find, LockEntry,
     Recheck, Build, Land, NameEntry, LookBin, UnlinkBin, LinkBin, Linked,
     Report, rest
<1> SUFFICES ASSUME ~superuser PROVE StageInv'
  BY <1>0 DEF StageInv
<1>1. /\ stage \in [Digest -> State] /\ blob \in [Digest -> State]
      /\ job \in [Proc -> Job]
  BY DEF TypeOK
<1>2. \A q \in Proc : q # p =>
          /\ job'[q].pc = job[q].pc /\ job'[q].digest = job[q].digest
          /\ job[q].pc = "fill" => job'[q].hand = job[q].hand
  BY OthersLeftAlone, HandsStay DEF SameJob
<1>3. \A q \in Proc : Staging(q) =>
          job[q].digest \in Digest /\ stage[job[q].digest] # "absent"
  <2>1. \A q \in Proc : Staging(q) => job[q].digest \in Digest
    BY JobFields DEF Staging
  <2> QED
    BY <2>1 DEF StageInv, Staging
<1>4. CASE OpenStage(p) /\ ~Goto(p, "refused")
  <2>1. /\ job[p].digest \in Digest /\ stage[job[p].digest] = "absent"
        /\ stage' = [stage EXCEPT ![job[p].digest] = "partial"]
        /\ blob' = blob
    BY <1>4, JobFields DEF OpenStage
  <2>2. /\ job'[p].pc = "fill" /\ job'[p].hand = "stage"
        /\ job'[p].digest = job[p].digest
    BY <1>4, AfterOpen
  <2>3. \A q \in Proc : q # p /\ Staging(q) =>
            /\ job[q].digest # job[p].digest
            /\ stage'[job[q].digest] = stage[job[q].digest]
    BY <1>1, <1>3, <2>1
  <2>4. stage'[job[p].digest] = "partial"
    BY <1>1, <2>1
  <2> QED
    BY <1>2, <2>1, <2>2, <2>3, <2>4 DEF StageInv, Staging
<1>5. CASE Fill(p)
  <2>1. /\ job[p].pc = "fill" /\ job[p].hand = "stage" /\ Staging(p)
        /\ stage' = [stage EXCEPT ![job[p].digest] = "whole"]
        /\ blob' = blob
    BY <1>5 DEF Fill, StageInv, Staging
  <2>2. job'[p].pc = "rename" /\ job'[p].digest = job[p].digest
    BY <1>5, AfterGoto DEF Fill
  <2>3. \A q \in Proc : q # p /\ Staging(q) =>
            /\ job[q].digest # job[p].digest
            /\ stage'[job[q].digest] = stage[job[q].digest]
    BY <1>1, <1>3, <2>1 DEF StageInv
  <2>4. stage'[job[p].digest] = "whole"
    BY <1>1, <1>3, <2>1
  <2> QED
    BY <1>2, <2>1, <2>2, <2>3, <2>4 DEF StageInv, Staging
<1>6. CASE Rename(p)
  <2>1. Staging(p) /\ stage[job[p].digest] = "whole" /\ ~Land(p)
    BY <1>6 DEF Rename, Land, Staging, StageInv
  <2>2. /\ stage' = [stage EXCEPT ![job[p].digest] = "absent"]
        /\ blob' = [blob EXCEPT ![job[p].digest] = "whole"]
    BY <1>6, <2>1 DEF Rename
  <2>3. job'[p].pc = "unlinkview"
    BY <1>1, <1>6, <2>1, AfterMove DEF Job
  <2>4. \A q \in Proc : q # p /\ Staging(q) =>
            /\ job[q].digest # job[p].digest
            /\ stage'[job[q].digest] = stage[job[q].digest]
    BY <1>1, <1>3, <2>1, <2>2 DEF StageInv
  <2>5. \A d \in Digest : blob'[d] # "partial"
    BY <1>1, <2>2 DEF StageInv
  <2> QED
    BY <1>2, <2>3, <2>4, <2>5 DEF StageInv, Staging
<1>7. CASE ~(Fill(p) \/ Rename(p) \/ (OpenStage(p) /\ ~Goto(p, "refused")))
  <2>1. stage' = stage
    <3>1. CASE OpenStage(p)
      <4>1. job[p].pc = "stage" /\ job'[p].pc = "refused"
        BY <1>7, <3>1, AfterGoto DEF OpenStage
      <4>2. ~(stage[job[p].digest] = "absent")
        <5>1. ASSUME stage[job[p].digest] = "absent" PROVE FALSE
          <6>1. job' = [job EXCEPT ![p].pc = "fill", ![p].hand = "stage"]
            BY <3>1, <5>1 DEF OpenStage
          <6>2. job'[p].pc = "fill"
            BY <1>1, <6>1 DEF Job
          <6> QED
            BY <4>1, <6>2
        <5> QED
          BY <5>1
      <4> QED
        BY <3>1, <4>2 DEF OpenStage
    <3>2. CASE ~OpenStage(p)
      BY <1>7, <3>2 DEF Moves, Step, Apply, ProvisionBinary, Start, Abort, Look,
         UnlinkView, LinkView, Viewed, Find, LockEntry, Recheck, Build, Land,
         NameEntry, LookBin, UnlinkBin, LinkBin, Linked, Report, files
    <3> QED
      BY <3>1, <3>2
  <2>2. \A d \in Digest : blob'[d] # "partial"
    <3>1. CASE Land(p)
      BY <1>1, <3>1 DEF Land, StageInv
    <3>2. CASE ~Land(p)
      <4>1. blob' = blob
        BY <1>7, <3>2 DEF Moves, Step, Apply, ProvisionBinary, Start, Abort,
           Look, OpenStage, UnlinkView, LinkView, Viewed, Find, LockEntry,
           Recheck, Build, NameEntry, LookBin, UnlinkBin, LinkBin, Linked,
           Report, files
      <4> QED
        BY <4>1 DEF StageInv
    <3> QED
      BY <3>1, <3>2
  <2>3. job'[p].pc \notin {"fill", "rename"}
    <3>1. CASE Apply(p) \/ ProvisionBinary(p)
      BY <3>1, AfterStart
    <3>2. CASE Linked(p) \/ Report(p) \/ Abort(p)
      BY <3>2, AfterEnd DEF Idle
    <3>3. CASE Look(p) \/ LookBin(p) \/ Viewed(p) \/ Build(p)
      BY <3>3, AfterLook, AfterLookBin, AfterViewed, AfterBuild
    <3>4. CASE OpenStage(p) \/ LinkView(p) \/ LinkBin(p)
      BY <1>7, <3>4, AfterLink, AfterGoto
    <3>5. CASE Land(p)
      BY <1>1, <3>5, AfterMove DEF Job
    <3>6. CASE \/ UnlinkView(p) \/ Find(p) \/ LockEntry(p) \/ Recheck(p)
               \/ NameEntry(p) \/ UnlinkBin(p)
      BY <3>6, AfterGoto DEF UnlinkView, Find, LockEntry, Recheck, NameEntry,
         UnlinkBin
    <3> QED
      BY <1>7, <3>1, <3>2, <3>3, <3>4, <3>5, <3>6 DEF Moves, Step
  <2> QED
    BY <1>2, <2>1, <2>2, <2>3 DEF StageInv, Staging
<1> QED
  BY <1>4, <1>5, <1>6, <1>7

-----------------------------------------------------------------------------
(* Gaps in a view: while nothing dies, each is about to be closed.          *)

\* r's view has t, or some process is between the two calls of linking it.
Closed(r, t) ==
    \/ t \in view[r]
    \/ \E q \in Proc : job[q].pc = "linkview" /\ job[q].to = r /\ job[q].at = t

\* p has linked t in the view it makes.
Viewing(p, t) == job[p].phase = "bin" \/ t \notin job[p].todo

\* What a workspace links to, and what a process has linked already and will
\* link a workspace to, is there or about to be.
GapInv ==
    aborts = 0 =>
        /\ \A p \in Proc, t \in Tool :
              job[p].to \in Revision /\ Viewing(p, t) => Closed(job[p].to, t)
        /\ \A w \in Workspace, r \in Revision, t \in Tool :
              bin[w][t] = r => Closed(r, t)

\* A gap that is being closed stays so until it is closed.
LEMMA ClosedStays ==
    ASSUME TypeOK, JobInv, LockInv, NEW p \in Proc, Moves(p), ~Abort(p),
           NEW r \in Revision, NEW t \in Tool, Closed(r, t)
    PROVE  Closed(r, t)'
<1>1. /\ view \in [Revision -> SUBSET Tool]
      /\ job \in [Proc -> Job] /\ job[p] \in Job
  BY DEF TypeOK
<1>2. \A q \in Proc : q # p =>
          job'[q].pc = job[q].pc /\ job'[q].to = job[q].to /\ job'[q].at = job[q].at
  BY OthersLeftAlone DEF SameJob
<1>3. CASE UnlinkView(p)
  <2>1. /\ job'[p].pc = "linkview" /\ job'[p].to = job[p].to
        /\ job'[p].at = job[p].at
    BY <1>3, AfterGoto DEF UnlinkView
  <2>2. t \in view[r] =>
            t \in view'[r] \/ (job[p].to = r /\ job[p].at = t)
    BY <1>1, <1>3 DEF UnlinkView
  <2>3. job[p].pc = "unlinkview"
    BY <1>3 DEF UnlinkView
  <2> QED
    BY <1>2, <2>1, <2>2, <2>3 DEF Closed
<1>4. CASE LinkView(p)
  <2>1. view[r] \subseteq view'[r]
    BY <1>1, <1>4 DEF LinkView
  <2>2. job[p].to = r /\ job[p].at = t => t \in view'[r]
    BY <1>1, <1>4 DEF LinkView
  <2> QED
    BY <1>2, <2>1, <2>2 DEF Closed
<1>5. CASE ~(UnlinkView(p) \/ LinkView(p))
  <2>1. view' = view /\ job[p].pc # "linkview"
    BY <1>5 DEF Moves, Step, Apply, ProvisionBinary, Start, Look, OpenStage, Fill,
       Rename, Viewed, Find, LockEntry, Recheck, Build, Land, NameEntry, LookBin,
       UnlinkBin, LinkBin, Linked, Report, links
  <2> QED
    BY <1>2, <2>1 DEF Closed
<1> QED
  BY <1>3, <1>4, <1>5

\* What p links in its view, one tool at a time.
LEMMA ViewingStep ==
    ASSUME TypeOK, JobInv, NEW p \in Proc, Moves(p),
           job'[p].to \in Revision, NEW t \in Tool, Viewing(p, t)'
    PROVE  \/ job[p].to = job'[p].to /\ Viewing(p, t)
           \/ t \in view'[job'[p].to]
<1>1. /\ job \in [Proc -> Job] /\ job[p] \in Job /\ Fits(p)
      /\ view \in [Revision -> SUBSET Tool]
  BY DEF TypeOK, JobInv
<1>2. CASE Apply(p) \/ ProvisionBinary(p)
  <2>1. PICK j \in Job :
          /\ Start(p, j)
          /\ \/ \E w \in Workspace, r \in Revision : j = ApplyJob(w, r)
             \/ \E w \in Workspace, e \in Entry : j = BuildJob(w, e)
    BY <1>2, StartsAre
  <2>2. job'[p] = j
    BY <1>1, <2>1 DEF Start
  <2>3. \A w \in Workspace, r \in Revision :
            ApplyJob(w, r).phase = "view" /\ ApplyJob(w, r).todo = Tool
    BY DEF ApplyJob, Idle
  <2>4. \A w \in Workspace, e \in Entry : BuildJob(w, e).to \notin Revision
    BY StoreAssumption DEF BuildJob, Idle
  <2> QED
    BY <2>1, <2>2, <2>3, <2>4 DEF Viewing
<1>3. CASE Linked(p) \/ Report(p) \/ Abort(p)
  BY <1>3, AfterEnd, StoreAssumption DEF Idle
<1>4. ASSUME NEW pc, Goto(p, pc)
      PROVE  job[p].to = job'[p].to /\ Viewing(p, t)
  BY <1>4, AfterGoto DEF Viewing
<1>5. CASE Look(p)
  <2>1. PICK u \in job[p].todo :
          job'[p] = [job[p] EXCEPT !.at = u, !.digest = Index[job[p].to][u],
                        !.pc = IF blob[Index[job[p].to][u]] # "absent"
                               THEN "unlinkview" ELSE "stage"]
    BY <1>1, <1>5 DEF Look
  <2>2. /\ job'[p].to = job[p].to /\ job'[p].phase = job[p].phase
        /\ job'[p].todo = job[p].todo
    BY <1>1, <2>1 DEF Job
  <2> QED
    BY <2>2 DEF Viewing
<1>6. CASE OpenStage(p) /\ ~Goto(p, "refused")
  <2>1. job'[p] = [job[p] EXCEPT !.pc = "fill", !.hand = "stage"]
    BY <1>1, <1>6 DEF OpenStage
  <2>2. /\ job'[p].to = job[p].to /\ job'[p].phase = job[p].phase
        /\ job'[p].todo = job[p].todo
    BY <1>1, <2>1 DEF Job
  <2> QED
    BY <2>2 DEF Viewing
<1>7. CASE Rename(p) \/ Land(p)
  <2>1. PICK pc : job'[p] = [job[p] EXCEPT !.pc = pc]
    BY <1>7, AfterMove
  <2>2. /\ job'[p].to = job[p].to /\ job'[p].phase = job[p].phase
        /\ job'[p].todo = job[p].todo
    BY <1>1, <2>1 DEF Job
  <2> QED
    BY <2>2 DEF Viewing
<1>8. CASE LinkView(p) /\ ~Goto(p, "refused")
  <2>1. /\ job'[p].todo = job[p].todo \ {job[p].at} /\ job'[p].phase = job[p].phase
        /\ job'[p].to = job[p].to
    BY <1>8, AfterLink
  <2>2. job[p].at \in view'[job[p].to]
    BY <1>1, <1>8, <2>1 DEF LinkView
  <2> QED
    BY <2>1, <2>2 DEF Viewing
<1>9. CASE Viewed(p)
  <2>1. job'[p].to = job[p].to /\ job[p].todo = {}
    BY <1>9, AfterViewed DEF Viewed
  <2> QED
    BY <2>1 DEF Viewing
<1>10. CASE Build(p)
  BY <1>10, AfterBuild DEF Viewing
<1>11. CASE LookBin(p)
  <2>1. job[p].phase = "bin"
    BY <1>11 DEF LookBin
  <2> QED
    BY <1>11, <2>1, AfterLookBin DEF Viewing
<1>12. CASE LinkBin(p) /\ ~Goto(p, "refused")
  <2>1. job[p].phase = "bin"
    BY <1>1, <1>12 DEF LinkBin, Fits
  <2> QED
    BY <1>12, <2>1, AfterLink DEF Viewing
<1> QED
  BY <1>2, <1>3, <1>4, <1>5, <1>6, <1>7, <1>8, <1>9, <1>10, <1>11, <1>12
  DEF Moves, Step, OpenStage, Fill, UnlinkView, LinkView, Find, LockEntry, Recheck,
      NameEntry, UnlinkBin, LinkBin

LEMMA GapStep == StoreInv /\ GapInv /\ [Next]_vars => GapInv'
<1> SUFFICES ASSUME StoreInv, GapInv, [Next]_vars PROVE GapInv'
  OBVIOUS
<1> USE DEF StoreInv
<1>1. CASE UNCHANGED vars
  BY <1>1 DEF vars, links, GapInv, Closed, Viewing
<1>2. ASSUME NEW p \in Proc, Moves(p), aborts' = 0
      PROVE  GapInv'
  <2>1. ~Abort(p) /\ aborts = 0
    <3>1. ~Abort(p)
      BY <1>2 DEF Abort, TypeOK
    <3>2. aborts' = aborts
      BY <1>2, <3>1 DEF Moves, Step, Apply, ProvisionBinary, Start, Look, OpenStage,
         Fill, Rename, UnlinkView, LinkView, Viewed, Find, LockEntry, Recheck, Build,
         Land, NameEntry, LookBin, UnlinkBin, LinkBin, Linked, Report, rest
    <3> QED
      BY <1>2, <3>1, <3>2
  <2>2. ASSUME NEW q \in Proc, NEW t \in Tool, job'[q].to \in Revision, Viewing(q, t)'
        PROVE  Closed(job[q].to, t)'
    <3>1. \/ job[q].to = job'[q].to /\ Viewing(q, t)
          \/ t \in view'[job'[q].to]
      <4>1. CASE q = p
        BY <1>2, <2>2, <4>1, ViewingStep
      <4>2. CASE q # p
        BY <1>2, <2>2, <4>2, OthersLeftAlone DEF SameJob, Viewing
      <4> QED
        BY <4>1, <4>2
    <3>2. CASE job[q].to = job'[q].to /\ Viewing(q, t)
      BY <1>2, <2>1, <2>2, <3>2, ClosedStays DEF GapInv
    <3>3. CASE t \in view'[job'[q].to]
      BY <3>3 DEF Closed
    <3> QED
      BY <3>1, <3>2, <3>3
  <2>3. ASSUME NEW w \in Workspace, NEW r \in Revision, NEW t \in Tool, bin'[w][t] = r
        PROVE  Closed(r, t)'
    <3>1. \/ bin[w][t] = r
          \/ job[p].to = r /\ job[p].phase = "bin"
      <4>1. bin \in [Workspace -> [Name -> Target]] /\ t \in Name /\ Fits(p)
        BY DEF TypeOK, Name, JobInv
      <4>2. CASE UnlinkBin(p)
        <5>1. bin'[w][t] \in {bin[w][t], NoRevision}
          BY <4>1, <4>2 DEF UnlinkBin
        <5> QED
          BY <2>3, <5>1, StoreAssumption
      <4>3. CASE LinkBin(p)
        <5>1. bin'[w][t] = bin[w][t] \/ bin'[w][t] = job[p].to
          BY <4>1, <4>3 DEF LinkBin
        <5>2. job[p].phase = "bin"
          BY <4>1, <4>3 DEF LinkBin, Fits
        <5> QED
          BY <2>3, <5>1, <5>2
      <4>4. CASE ~(UnlinkBin(p) \/ LinkBin(p))
        <5>1. bin' = bin
          BY <1>2, <4>4 DEF Moves, Step, Apply, ProvisionBinary, Start, Abort, Look,
             OpenStage, Fill, Rename, UnlinkView, LinkView, Viewed, Find, LockEntry,
             Recheck, Build, Land, NameEntry, LookBin, Linked, Report, links
        <5> QED
          BY <2>3, <5>1
      <4> QED
        BY <4>2, <4>3, <4>4
    <3>2. Closed(r, t)
      BY <2>1, <3>1 DEF GapInv, Viewing
    <3> QED
      BY <1>2, <2>1, <3>2, ClosedStays
  <2> QED
    BY <2>2, <2>3 DEF GapInv
<1>3. ASSUME NEW p \in Proc, Moves(p)
      PROVE  GapInv'
  BY <1>2, <1>3 DEF GapInv
<1> QED
  BY <1>1, <1>3 DEF Next, Moves

LEMMA GapInit == Init => GapInv
<1> SUFFICES ASSUME Init PROVE GapInv
  OBVIOUS
<1>1. Idle.to = NoRevision
  BY DEF Idle
<1> QED
  BY <1>1, StoreAssumption DEF Init, GapInv, Name

-----------------------------------------------------------------------------
(* The theorems. *)

\* The empty store satisfies the invariant.
LEMMA StoreInit == Init => StoreInv
<1> SUFFICES ASSUME Init PROVE StoreInv
  OBVIOUS
<1>1. \A p \in Proc : job[p] = Idle
  BY DEF Init
<1>2. /\ Idle.pc = "idle" /\ Idle.todo = {}
  BY DEF Idle
<1>3. TypeOK
  BY JobValues, StoreBounds DEF Init, TypeOK, State, Target
<1>4. JobInv /\ LockInv
  BY <1>1, <1>2 DEF JobInv, Fits, LockInv, Guards, Building
<1>5. LinkInv
  <2>1. \A p \in Proc : Backed(p)
    BY <1>1, <1>2 DEF Backed
  <2>2. LinksLeadToBlobs
    BY StoreAssumption DEF Init, LinksLeadToBlobs, Name
  <2> QED
    BY <2>1, <2>2 DEF LinkInv, Init
<1>6. StageInv
  BY <1>1, <1>2 DEF StageInv, Staging, Init
<1> QED
  BY <1>3, <1>4, <1>5, <1>6 DEF StoreInv

\* Every step keeps it.
LEMMA StoreStep == StoreInv /\ [Next]_vars => StoreInv'
<1> SUFFICES ASSUME StoreInv, [Next]_vars PROVE StoreInv'
  OBVIOUS
<1> USE DEF StoreInv
<1>1. TypeOK'
  BY TypeStep
<1>2. CASE UNCHANGED vars
  BY <1>1, <1>2 DEF vars, files, links, rest, JobInv, Fits, LockInv, Guards,
     Building, LinkInv, LinksLeadToBlobs, Backed, Built, StageInv, Staging
<1>3. ASSUME NEW p \in Proc, Moves(p)
      PROVE  StoreInv'
  <2>1. ASSUME NEW q \in Proc, q # p
        PROVE  Fits(q)' /\ Guards(q)' /\ Backed(q)'
    <3>1. /\ SameJob(job'[q], job[q])
          /\ \A e \in Entry : lock[e] = q => lock'[e] = q
      BY <1>3, <2>1, OthersLeftAlone
    <3>2. Fits(q) /\ Guards(q) /\ Backed(q)
      BY DEF JobInv, LockInv, LinkInv
    <3>3. Fits(q)'
      BY <3>1, <3>2 DEF Fits, SameJob
    <3>4. Guards(q)'
      <4>1. Building(q) => job[q].at \in Entry /\ lock[job[q].at] = q
        BY <3>2 DEF Fits, Guards, Building
      <4>2. Building(q) => entry'[job[q].at] = entry[job[q].at]
        BY <1>3, <2>1, <4>1, EntriesStay
      <4> QED
        BY <3>1, <3>2, <4>1, <4>2 DEF Guards, Building, SameJob
    <3>5. Backed(q)'
      <4>1. job[q].pc \in {"unlinkview", "linkview", "name"} =>
                job[q].digest \in Digest
        BY JobFields
      <4> QED
        BY <1>3, <3>1, <3>2, <4>1, BlobsStay, BuiltStays DEF Backed, SameJob
    <3> QED
      BY <3>3, <3>4, <3>5
  <2>2. Fits(p)' /\ Guards(p)' /\ Backed(p)'
    BY <1>3, FitsStep, GuardsStep, BackedStep
  <2>3. JobInv' /\ LockInv'
    BY <2>1, <2>2 DEF JobInv, LockInv
  <2>4. LinkInv'
    BY <1>3, <2>1, <2>2, LinksStep DEF LinkInv
  <2> QED
    BY <1>1, <1>3, <2>3, <2>4, StageStep
<1> QED
  BY <1>2, <1>3 DEF Next, Moves

LEMMA StoreInvariant == Spec => []StoreInv
  BY StoreInit, StoreStep, PTL DEF Spec

\* The store is well typed in every reachable state.
THEOREM StoreTypeCorrect == Spec => []TypeOK
<1>1. StoreInv => TypeOK
  BY DEF StoreInv
<1> QED
  BY <1>1, StoreInvariant, PTL

\* However many processes of an ordinary user stage one blob at once, and
\* whichever are killed, none is ever in place half written.
THEOREM BlobsOfUsersWhole == Spec => []UserBlobsWhole
<1>1. StoreInv => UserBlobsWhole
  BY DEF StoreInv, StageInv, UserBlobsWhole
<1> QED
  BY <1>1, StoreInvariant, PTL

\* No link of a view or of a workspace's built binaries dangles.
THEOREM NoLinkDangles == Spec => []LinksLeadToBlobs
<1>1. StoreInv => LinksLeadToBlobs
  BY DEF StoreInv, LinkInv
<1> QED
  BY <1>1, StoreInvariant, PTL

\* An entry is built once: no second build ever renames what the first named.
THEOREM EntriesAreBuiltOnce == Spec => EntriesBuiltOnce
<1>1. StoreInv /\ [Next]_vars =>
          [\A e \in Entry : entry[e] # NoDigest => entry'[e] = entry[e]]_vars
  <2> SUFFICES ASSUME StoreInv, Next, NEW e \in Entry, entry[e] # NoDigest
               PROVE  entry'[e] = entry[e]
    BY DEF vars
  <2>1. PICK p \in Proc : Moves(p)
    BY DEF Next, Moves
  <2> QED
    BY <2>1, EntriesStay DEF StoreInv
<1> QED
  BY <1>1, StoreInvariant, PTL DEF Spec, EntriesBuiltOnce
\* While nothing dies, no tool a workspace links to is missing but between the
\* two calls of a Symlink that is under way: Apply links the whole view before
\* it touches the workspace, and one revision's view always holds the same.
THEOREM GapsClose == Spec => []GapsAreClosed
<1>1. GapInv => GapsAreClosed
  BY DEF GapInv, GapsAreClosed, Closed
<1> QED
  BY <1>1, StoreInit, StoreStep, GapInit, GapStep, PTL DEF Spec
=============================================================================
