------------------------ MODULE RuntimeStore_proofs -------------------------
(***************************************************************************)
(* What holds of the runtime store for any number of processes, workspaces,*)
(* entries and descriptions, whatever is killed and whoever shares ids.    *)
(***************************************************************************)
EXTENDS RuntimeStore, TLAPS

-----------------------------------------------------------------------------
(* The inductive invariant. *)

\* What p remembers fits what it is about to do.
Fits(p) ==
    /\ Holding(p) \/ job[p].pc \in {"lock", "link"} => job[p].at \in Desc
    /\ job[p].pc \in {"check", "look", "lock", "recheck", "remove", "clear"} =>
          job[p].got = {}
    /\ job[p].pc \in {"fetch", "install"} =>
          /\ job[p].fetch \subseteq Artifacts[job[p].at]
          /\ job[p].got \subseteq Artifacts[job[p].at]

JobInv == \A p \in Proc : Fits(p)

\* p holds the lock of the entry it brings in, finds it stale until it has
\* removed it, and finds nothing from then on.
Guards(p) ==
    /\ Holding(p) => lock[At(p)] = p
    /\ job[p].pc = "remove" => ~Carries(job[p].at)
    /\ job[p].pc \in {"clear", "fetch", "install", "land"} => ~dir[At(p)]

LockInv == \A p \in Proc : Guards(p)

\* The files in g are what installing the artifacts of d lays out.
From(d, g) ==
    \A f \in File : g[f] # NoArtifact =>
        g[f] \in Artifacts[d] /\ f \in Lays[g[f]]

\* What p has staged since it cleared the place is for the runtime at hand.
StageInv ==
    \A p \in Proc : job[p].pc \in {"fetch", "install", "land"} =>
        From(job[p].at, staged[Pid[p]][At(p)])

StoreInv == TypeOK /\ JobInv /\ LockInv /\ StageInv /\ EntriesOfOneBuild

-----------------------------------------------------------------------------
(* Types. *)

LEMMA IdleIsJob == Idle \in Job
  BY DEF Idle, Job, Pc

\* The entry at hand is an entry.
LEMMA AtIsEntry ==
    ASSUME TypeOK, JobInv, NEW p \in Proc
    PROVE  /\ job[p] \in Job
           /\ Holding(p) \/ job[p].pc \in {"lock", "link"} =>
                 At(p) = EntryOf[job[p].at] /\ At(p) \in Entry
           /\ At(p) \in Entry \cup {NoEntry}
  BY RuntimeAssumption DEF TypeOK, JobInv, Fits, At, Job

\* A step of a process leaves the jobs of the others as they are.
Acts(p) == Provision(p) \/ Step(p) \/ FailInstall(p) \/ Kill(p)

LEMMA OthersStay ==
    ASSUME TypeOK, NEW p \in Proc, Acts(p), NEW q \in Proc, q # p
    PROVE  job'[q] = job[q]
<1> USE DEF TypeOK
<1>1. CASE Provision(p)
  BY <1>1 DEF Provision
<1>2. CASE FailInstall(p)
  BY <1>2 DEF FailInstall, Goto
<1>3. CASE Kill(p)
  BY <1>3 DEF Kill, Leave
<1>4. CASE Step(p)
  <2> USE DEF Goto
  <2>1. CASE CheckPrerequisites(p)
    BY <2>1 DEF CheckPrerequisites
  <2>2. CASE Look(p)
    BY <2>2 DEF Look
  <2>3. CASE LockEntry(p)
    BY <2>3 DEF LockEntry
  <2>4. CASE Recheck(p)
    BY <2>4 DEF Recheck, Have
  <2>5. CASE RemoveStale(p)
    BY <2>5 DEF RemoveStale
  <2>6. CASE Clear(p)
    BY <2>6 DEF Clear
  <2>7. CASE Fetch(p)
    BY <2>7 DEF Fetch
  <2>8. CASE Fetched(p)
    BY <2>8 DEF Fetched
  <2>9. CASE Install(p)
    BY <2>9 DEF Install
  <2>10. CASE Installed(p)
    BY <2>10 DEF Installed
  <2>11. CASE Land(p)
    BY <2>11 DEF Land, Have
  <2>12. CASE Report(p)
    BY <2>12 DEF Report, Leave
  <2>13. CASE Materialized(p)
    BY <2>13 DEF Materialized
  <2>14. CASE Unlink(p)
    BY <2>14 DEF Unlink
  <2>15. CASE Link(p)
    BY <2>15 DEF Link
  <2>16. CASE Linked(p)
    BY <2>16 DEF Linked
  <2>17. CASE WriteEnv(p)
    BY <2>17 DEF WriteEnv, Leave
  <2> QED
    BY <1>4, <2>1, <2>2, <2>3, <2>4, <2>5, <2>6, <2>7, <2>8, <2>9, <2>10,
       <2>11, <2>12, <2>13, <2>14, <2>15, <2>16, <2>17, Zenon DEF Step
<1> QED
  BY <1>1, <1>2, <1>3, <1>4, Zenon DEF Acts

\* Every action keeps the types.
LEMMA NextTypes ==
    ASSUME TypeOK, JobInv, NEW p \in Proc, Acts(p)
    PROVE  TypeOK'
<1>0. Idle \in Job
  BY IdleIsJob
<1>j. /\ job \in [Proc -> Job] /\ job[p] \in Job
      /\ Holding(p) \/ job[p].pc \in {"lock", "link"} =>
            job[p].at \in Desc /\ At(p) \in Entry
      /\ At(p) \in Entry \cup {NoEntry}
      /\ NoFiles \in Files
  BY AtIsEntry DEF TypeOK, JobInv, Fits, NoFiles, Files
<1>g. ASSUME NEW pc \in Pc, Goto(p, pc)
      PROVE  job' \in [Proc -> Job]
  <2>1. [job[p] EXCEPT !.pc = pc] \in Job
    BY <1>j DEF Job
  <2> QED
    BY <1>g, <1>j, <2>1 DEF Goto
<1>e. ASSUME NEW j \in Job, job' = [job EXCEPT ![p] = j]
      PROVE  job' \in [Proc -> Job]
  BY <1>e, <1>j
<1>r. ASSUME Release(p)
      PROVE  lock' \in [Entry -> Proc \cup {Nobody}]
  BY <1>r DEF Release, TypeOK
<1>l. ASSUME Leave(p)
      PROVE  job' \in [Proc -> Job] /\ lock' \in [Entry -> Proc \cup {Nobody}]
  BY <1>l, <1>0, <1>j, <1>r DEF Leave
<1>h. ASSUME Have(p)
      PROVE  job' \in [Proc -> Job] /\ lock' \in [Entry -> Proc \cup {Nobody}]
  <2>1. [job[p] EXCEPT !.todo = @ \ {job[p].at}, !.at = NoDesc, !.fetch = {},
                       !.got = {}, !.pc = "look"] \in Job
    BY <1>j DEF Job, Pc
  <2>2. job' = [job EXCEPT ![p] =
            [job[p] EXCEPT !.todo = @ \ {job[p].at}, !.at = NoDesc,
                           !.fetch = {}, !.got = {}, !.pc = "look"]]
    BY <1>h DEF Have
  <2> QED
    BY <1>h, <1>j, <1>r, <2>1, <2>2 DEF Have
<1>u. Unstaged(p) \in [{Pid[q] : q \in Proc} -> [Entry -> Files]]
  BY <1>j DEF Unstaged, TypeOK
<1> USE <1>j, RuntimeAssumption, RuntimeBounds
        DEF TypeOK, store, exposed, rest
<1>1. CASE Provision(p)
  <2>1. \A w \in Workspace, plan \in Plans :
            [Idle EXCEPT !.pc = "check", !.ws = w, !.plan = plan, !.todo = plan] \in Job
    BY <1>0 DEF Job, Pc
  <2>2. job' \in [Proc -> Job]
    <3>1. PICK w \in Workspace, plan \in Plans :
              job' = [job EXCEPT ![p] =
                  [Idle EXCEPT !.pc = "check", !.ws = w, !.plan = plan, !.todo = plan]]
      BY <1>1 DEF Provision
    <3> QED
      BY <2>1, <3>1, <1>e
  <2> QED
    BY <1>1, <2>2 DEF Provision
<1>2. CASE FailInstall(p)
  <2>1. job' \in [Proc -> Job]
    BY <1>2, <1>g DEF FailInstall, Pc
  <2> QED
    BY <1>2, <1>u, <2>1 DEF FailInstall
<1>3. CASE Kill(p)
  BY <1>3, <1>l DEF Kill
<1>4. CASE Step(p)
  <2>1. CASE CheckPrerequisites(p)
    <3>1. job' \in [Proc -> Job]
      BY <2>1, <1>g DEF CheckPrerequisites, Pc
    <3> QED
      BY <2>1, <3>1 DEF CheckPrerequisites
  <2>2. CASE Look(p)
    <3>1. \A d \in Desc :
            /\ [job[p] EXCEPT !.todo = @ \ {d}] \in Job
            /\ [job[p] EXCEPT !.at = d, !.pc = "lock"] \in Job
      BY DEF Job, Pc
    <3>2. job' \in [Proc -> Job]
      <4>1. PICK d \in Desc :
                job' = IF Carries(d) THEN [job EXCEPT ![p].todo = @ \ {d}]
                       ELSE [job EXCEPT ![p].at = d, ![p].pc = "lock"]
        BY <2>2 DEF Look
      <4>2. CASE Carries(d)
        <5>1. job' = [job EXCEPT ![p] = [job[p] EXCEPT !.todo = @ \ {d}]]
          BY <4>1, <4>2
        <5> QED
          BY <3>1, <5>1, <1>e
      <4>3. CASE ~Carries(d)
        <5>1. job' = [job EXCEPT ![p] = [job[p] EXCEPT !.at = d, !.pc = "lock"]]
          BY <4>1, <4>3
        <5> QED
          BY <3>1, <5>1, <1>e
      <4> QED
        BY <4>2, <4>3
    <3> QED
      BY <2>2, <3>2 DEF Look
  <2>3. CASE LockEntry(p)
    <3>1. job' \in [Proc -> Job]
      BY <2>3, <1>g DEF LockEntry, Pc
    <3> QED
      BY <2>3, <3>1 DEF LockEntry
  <2>4. CASE Recheck(p)
    <3>1. CASE Carries(job[p].at)
      BY <2>4, <3>1, <1>h DEF Recheck
    <3>2. CASE ~Carries(job[p].at)
      <4>1. job' \in [Proc -> Job]
        BY <2>4, <3>2, <1>g DEF Recheck, Pc
      <4> QED
        BY <2>4, <3>2, <4>1 DEF Recheck
    <3> QED
      BY <3>1, <3>2
  <2>5. CASE RemoveStale(p)
    <3>1. At(p) \in Entry
      BY <2>5 DEF RemoveStale, Holding
    <3>2. CASE has[At(p)] = NoFiles
      <4>1. job' \in [Proc -> Job]
        <5>1. Goto(p, "clear")
          BY <2>5, <3>2, Zenon DEF RemoveStale
        <5> QED
          BY <5>1, <1>g DEF Pc
      <4>2. dir' \in [Entry -> BOOLEAN]
        <5>1. dir' = [dir EXCEPT ![At(p)] = FALSE]
          BY <2>5, <3>2, Zenon DEF RemoveStale
        <5> QED
          BY <5>1
      <4> QED
        BY <2>5, <3>2, <4>1, <4>2 DEF RemoveStale
    <3>3. CASE has[At(p)] # NoFiles
      <4>1. PICK f \in File : has' = [has EXCEPT ![At(p)][f] = NoArtifact]
        BY <2>5, <3>3 DEF RemoveStale
      <4>2. [has[At(p)] EXCEPT ![f] = NoArtifact] \in Files
        BY <3>1 DEF Files
      <4>3. has' \in [Entry -> Files]
        BY <3>1, <4>1, <4>2
      <4> QED
        BY <2>5, <3>3, <4>3 DEF RemoveStale
    <3> QED
      BY <3>2, <3>3
  <2>6. CASE Clear(p)
    <3>1. [job[p] EXCEPT !.fetch = Artifacts[job[p].at], !.pc = "fetch"] \in Job
      BY <2>6 DEF Clear, Job, Pc, Holding
    <3>2. job' \in [Proc -> Job]
      BY <2>6, <3>1 DEF Clear
    <3> QED
      BY <2>6, <1>u, <3>2 DEF Clear
  <2>7. CASE Fetch(p)
    <3> PICK a \in job[p].fetch : \E b \in Served[a] \cup {a} :
            IF b = a
            THEN /\ job' = [job EXCEPT ![p].fetch = @ \ {a}, ![p].got = @ \cup {b}]
                 /\ UNCHANGED <<staged, aborts>>
            ELSE /\ aborts < MaxAborts
                 /\ aborts' = aborts + 1
                 /\ Goto(p, "refused")
                 /\ staged' = Unstaged(p)
      BY <2>7 DEF Fetch
    <3> PICK b \in Served[a] \cup {a} :
            IF b = a
            THEN /\ job' = [job EXCEPT ![p].fetch = @ \ {a}, ![p].got = @ \cup {b}]
                 /\ UNCHANGED <<staged, aborts>>
            ELSE /\ aborts < MaxAborts
                 /\ aborts' = aborts + 1
                 /\ Goto(p, "refused")
                 /\ staged' = Unstaged(p)
      OBVIOUS
    <3>1. a \in Bytes
      BY DEF Job, Bytes
    <3>2. CASE b = a
      <4>1. [job[p] EXCEPT !.fetch = @ \ {a}, !.got = @ \cup {b}] \in Job
        BY <3>1, <3>2, ZenonT(60) DEF Job
      <4>2. job' = [job EXCEPT ![p] =
                [job[p] EXCEPT !.fetch = @ \ {a}, !.got = @ \cup {b}]]
        <5>1. job' = [job EXCEPT ![p].fetch = @ \ {a}, ![p].got = @ \cup {b}]
          BY <3>2, Zenon
        <5>2. job \in [Proc -> Job]
          OBVIOUS
        <5> HIDE <1>j, RuntimeAssumption, RuntimeBounds DEF TypeOK, store, exposed, rest
        <5> QED
          BY <5>1, <5>2
      <4>3. job' \in [Proc -> Job]
        BY <4>1, <4>2, <1>e
      <4> QED
        BY <2>7, <3>2, <4>3 DEF Fetch
    <3>3. CASE b # a
      <4>1. job' \in [Proc -> Job]
        BY <3>3, <1>g DEF Pc
      <4> QED
        <5>1. /\ aborts' \in 0..MaxAborts
              /\ staged' \in [{Pid[q] : q \in Proc} -> [Entry -> Files]]
          BY <1>u, <3>3
        <5> QED
          BY <2>7, <4>1, <5>1 DEF Fetch
    <3> QED
      BY <3>2, <3>3
  <2>8. CASE Fetched(p)
    <3>1. job' \in [Proc -> Job]
      BY <2>8, <1>g DEF Fetched, Pc
    <3> QED
      BY <2>8, <3>1 DEF Fetched
  <2>9. CASE Install(p)
    <3> PICK b \in job[p].got :
            /\ staged' = [staged EXCEPT ![Pid[p]][At(p)] =
                   [f \in File |-> IF f \in Lays[b] THEN b ELSE @[f]]]
            /\ job' = [job EXCEPT ![p].got = @ \ {b}]
      BY <2>9 DEF Install
    <3>1. At(p) \in Entry /\ b \in Bytes
      BY <2>9 DEF Install, Holding, Job
    <3>2. [f \in File |-> IF f \in Lays[b] THEN b ELSE staged[Pid[p]][At(p)][f]]
              \in Files
      BY <3>1 DEF Files
    <3>3. staged' \in [{Pid[q] : q \in Proc} -> [Entry -> Files]]
      <4> HIDE DEF TypeOK
      <4>1. staged \in [{Pid[q] : q \in Proc} -> [Entry -> Files]]
        BY DEF TypeOK
      <4> QED
        BY <3>1, <3>2, <4>1
    <3>4. [job[p] EXCEPT !.got = @ \ {b}] \in Job
      BY DEF Job
    <3>5. job' \in [Proc -> Job]
      BY <3>4
    <3> QED
      BY <2>9, <3>3, <3>5 DEF Install
  <2>10. CASE Installed(p)
    <3>1. job' \in [Proc -> Job]
      BY <2>10, <1>g DEF Installed, Pc
    <3> QED
      BY <2>10, <3>1 DEF Installed
  <2>11. CASE Land(p)
    <3>1. At(p) \in Entry
      BY <2>11 DEF Land, Holding
    <3>2. CASE dir[At(p)] /\ has[At(p)] # NoFiles
      <4>1. job' \in [Proc -> Job]
        BY <2>11, <3>2, <1>g DEF Land, Pc
      <4> QED
        BY <2>11, <1>u, <3>2, <4>1 DEF Land
    <3>3. CASE ~(dir[At(p)] /\ has[At(p)] # NoFiles)
      <4>1. staged[Pid[p]][At(p)] \in Files
        BY <3>1
      <4>2. /\ has' = [has EXCEPT ![At(p)] = staged[Pid[p]][At(p)]]
            /\ dir' = [dir EXCEPT ![At(p)] = TRUE]
            /\ Have(p)
        BY <2>11, <3>3 DEF Land
      <4>3. has' \in [Entry -> Files] /\ dir' \in [Entry -> BOOLEAN]
        BY <4>1, <4>2
      <4> QED
        BY <2>11, <1>u, <1>h, <4>2, <4>3 DEF Land
    <3> QED
      BY <3>2, <3>3
  <2>12. CASE Report(p)
    BY <2>12, <1>l DEF Report
  <2>13. CASE Materialized(p)
    <3>1. [job[p] EXCEPT !.pc = "expose", !.links = Programs(job[p].plan)] \in Job
      BY DEF Job, Pc, Programs
    <3>2. job' \in [Proc -> Job]
      BY <2>13, <3>1 DEF Materialized
    <3> QED
      BY <2>13, <3>2 DEF Materialized
  <2>14. CASE Unlink(p)
    <3> PICK l \in NextLink(p) :
            /\ bin' = [bin EXCEPT ![job[p].ws][l[2]] = NoEntry]
            /\ job' = [job EXCEPT ![p].links = @ \ {l}, ![p].at = l[1],
                                  ![p].hand = {l[2]}, ![p].pc = "link"]
      BY <2>14 DEF Unlink
    <3>1. l \in Desc \X File
      BY DEF NextLink, Job
    <3>2. [job[p] EXCEPT !.links = @ \ {l}, !.at = l[1],
                         !.hand = {l[2]}, !.pc = "link"] \in Job
      <4>1. /\ job[p].links \ {l} \in SUBSET (Desc \X File)
            /\ l[1] \in Desc \cup {NoDesc}
            /\ {l[2]} \in SUBSET File
            /\ "link" \in Pc
        BY <3>1 DEF Job, Pc
      <4> HIDE <1>j, RuntimeAssumption, RuntimeBounds DEF TypeOK, store, exposed, rest
      <4> QED
        BY <1>j, <4>1 DEF Job
    <3>3. job' \in [Proc -> Job]
      <4>1. job' = [job EXCEPT ![p] = [job[p] EXCEPT !.links = @ \ {l}, !.at = l[1],
                                          !.hand = {l[2]}, !.pc = "link"]]
        OBVIOUS
      <4> QED
        BY <3>2, <4>1, <1>e
    <3>4. bin' \in [Workspace -> [File -> Entry \cup {NoEntry}]]
      OBVIOUS
    <3> QED
      BY <2>14, <3>3, <3>4 DEF Unlink
  <2>15. CASE Link(p)
    <3> PICK f \in job[p].hand :
            IF bin[job[p].ws][f] # NoEntry
            THEN Goto(p, "refused") /\ UNCHANGED bin
            ELSE /\ bin' = [bin EXCEPT ![job[p].ws][f] = At(p)]
                 /\ job' = [job EXCEPT ![p].at = NoDesc, ![p].hand = {},
                                       ![p].pc = "expose"]
      BY <2>15 DEF Link
    <3>1. [job[p] EXCEPT !.at = NoDesc, !.hand = {}, !.pc = "expose"] \in Job
      BY DEF Job, Pc
    <3>2. CASE bin[job[p].ws][f] # NoEntry
      <4>1. job' \in [Proc -> Job]
        BY <3>2, <1>g DEF Pc
      <4> QED
        BY <2>15, <3>2, <4>1 DEF Link
    <3>3. CASE bin[job[p].ws][f] = NoEntry
      <4>1. job' = [job EXCEPT ![p] =
                [job[p] EXCEPT !.at = NoDesc, !.hand = {}, !.pc = "expose"]]
        <5>1. job' = [job EXCEPT ![p].at = NoDesc, ![p].hand = {},
                                 ![p].pc = "expose"]
          BY <3>3, Zenon
        <5>2. job \in [Proc -> Job]
          OBVIOUS
        <5> HIDE <1>j, RuntimeAssumption, RuntimeBounds DEF TypeOK, store, exposed, rest
        <5> QED
          BY <5>1, <5>2
      <4>2. job' \in [Proc -> Job]
        BY <3>1, <4>1, <1>e
      <4>3. bin' = [bin EXCEPT ![job[p].ws][f] = At(p)]
        BY <3>3
      <4>4. bin' \in [Workspace -> [File -> Entry \cup {NoEntry}]]
        <5>1. /\ bin \in [Workspace -> [File -> Entry \cup {NoEntry}]]
              /\ At(p) \in Entry \cup {NoEntry}
          OBVIOUS
        <5> HIDE <1>j, RuntimeAssumption, RuntimeBounds DEF TypeOK, store, exposed, rest
        <5> QED
          BY <4>3, <5>1
      <4> QED
        BY <2>15, <4>2, <4>4 DEF Link
    <3> QED
      BY <3>2, <3>3
  <2>16. CASE Linked(p)
    <3>1. job' \in [Proc -> Job]
      BY <2>16, <1>g DEF Linked, Pc
    <3> QED
      BY <2>16, <3>1 DEF Linked
  <2>17. CASE WriteEnv(p)
    <3>1. {d \in job[p].plan : Env[d]} \subseteq Desc
      BY DEF Job
    <3> QED
      BY <2>17, <1>l, <3>1 DEF WriteEnv
  <2> QED
    BY <1>4, <2>1, <2>2, <2>3, <2>4, <2>5, <2>6, <2>7, <2>8, <2>9, <2>10,
       <2>11, <2>12, <2>13, <2>14, <2>15, <2>16, <2>17, Zenon DEF Step
<1> QED
  BY <1>1, <1>2, <1>3, <1>4, Zenon DEF Acts

-----------------------------------------------------------------------------
(* A step disturbs no entry that another process has locked. *)

LEMMA LocksStay ==
    ASSUME TypeOK, NEW p \in Proc, Acts(p),
           NEW e \in Entry, NEW q \in Proc, q # p, lock[e] = q
    PROVE  lock'[e] = q
<1> USE RuntimeAssumption DEF TypeOK, Leave, Release, Have
<1>1. CASE Provision(p) \/ FailInstall(p)
  BY <1>1 DEF Provision, FailInstall
<1>2. CASE Kill(p)
  BY <1>2 DEF Kill
<1>3. CASE Step(p)
  <2>1. CASE LockEntry(p)
    BY <2>1 DEF LockEntry
  <2>2. CASE Recheck(p)
    BY <2>2 DEF Recheck
  <2>3. CASE Land(p)
    BY <2>3 DEF Land
  <2>4. CASE Report(p) \/ WriteEnv(p)
    BY <2>4 DEF Report, WriteEnv
  <2>5. CASE CheckPrerequisites(p) \/ Look(p) \/ RemoveStale(p) \/ Clear(p)
    BY <2>5 DEF CheckPrerequisites, Look, RemoveStale, Clear
  <2>6. CASE Fetch(p) \/ Fetched(p) \/ Install(p) \/ Installed(p)
    BY <2>6 DEF Fetch, Fetched, Install, Installed
  <2>7. CASE Materialized(p) \/ Unlink(p) \/ Link(p) \/ Linked(p)
    BY <2>7 DEF Materialized, Unlink, Link, Linked
  <2> QED
    BY <1>3, <2>1, <2>2, <2>3, <2>4, <2>5, <2>6, <2>7, Zenon DEF Step
<1> QED
  BY <1>1, <1>2, <1>3, Zenon DEF Acts

\* The files of entry e and what is staged for it.
Kept(e) ==
    /\ has'[e] = has[e]
    /\ dir'[e] = dir[e]
    /\ \A q \in Proc : staged'[Pid[q]][e] = staged[Pid[q]][e]

LEMMA EntriesStay ==
    ASSUME TypeOK, NEW p \in Proc, Acts(p),
           NEW e \in Entry, ~(Holding(p) /\ At(p) = e)
    PROVE  Kept(e)
<1> USE DEF TypeOK, store, exposed, Kept, Holding
<1>1. CASE Provision(p) \/ Kill(p)
  BY <1>1 DEF Provision, Kill
<1>2. CASE FailInstall(p)
  BY <1>2 DEF FailInstall, Unstaged
<1>3. CASE Step(p)
  <2>1. CASE RemoveStale(p)
    BY <2>1 DEF RemoveStale
  <2>2. CASE Clear(p)
    BY <2>2 DEF Clear, Unstaged
  <2>3. CASE Fetch(p)
    <3>1. \/ UNCHANGED staged
          \/ staged' = Unstaged(p)
      BY <2>3 DEF Fetch
    <3> QED
      BY <2>3, <3>1 DEF Fetch, Unstaged
  <2>4. CASE Install(p)
    <3>1. PICK b \in job[p].got :
              staged' = [staged EXCEPT ![Pid[p]][At(p)] =
                  [f \in File |-> IF f \in Lays[b] THEN b ELSE @[f]]]
      BY <2>4 DEF Install
    <3>2. UNCHANGED store /\ At(p) # e
      BY <2>4 DEF Install
    <3> QED
      BY <3>1, <3>2
  <2>5. CASE Land(p)
    <3>1. staged' = Unstaged(p) /\ At(p) # e
      BY <2>5 DEF Land
    <3>2. \A q \in Proc : staged'[Pid[q]][e] = staged[Pid[q]][e]
      BY <3>1 DEF Unstaged
    <3>3. has'[e] = has[e] /\ dir'[e] = dir[e]
      BY <2>5, <3>1 DEF Land
    <3> QED
      BY <3>2, <3>3
  <2>6. CASE CheckPrerequisites(p) \/ Look(p) \/ LockEntry(p) \/ Recheck(p)
    BY <2>6 DEF CheckPrerequisites, Look, LockEntry, Recheck
  <2>7. CASE Fetched(p) \/ Installed(p) \/ Report(p) \/ WriteEnv(p)
    BY <2>7 DEF Fetched, Installed, Report, WriteEnv
  <2>8. CASE Materialized(p) \/ Unlink(p) \/ Link(p) \/ Linked(p)
    BY <2>8 DEF Materialized, Unlink, Link, Linked
  <2> QED
    BY <1>3, <2>1, <2>2, <2>3, <2>4, <2>5, <2>6, <2>7, <2>8, Zenon DEF Step
<1> QED
  BY <1>1, <1>2, <1>3, Zenon DEF Acts

\* So what holds of another process still does.
LEMMA OthersHold ==
    ASSUME StoreInv, NEW p \in Proc, Acts(p), NEW q \in Proc, q # p
    PROVE  /\ Fits(q)'
           /\ Guards(q)'
           /\ job'[q].pc \in {"fetch", "install", "land"} =>
                  From(job'[q].at, staged'[Pid[q]][At(q)'])
<1> USE DEF StoreInv
<1>1. job'[q] = job[q]
  BY OthersStay
<1>2. Fits(q)'
  BY <1>1 DEF JobInv, Fits, Holding
<1>3. CASE ~Holding(q)
  BY <1>1, <1>2, <1>3 DEF Guards, Holding
<1>4. CASE Holding(q)
  <2>1. /\ At(q) = EntryOf[job[q].at] /\ At(q) \in Entry
        /\ lock[At(q)] = q
    BY <1>4, AtIsEntry DEF LockInv, Guards
  <2>2. ~(Holding(p) /\ At(p) = At(q))
    BY <2>1 DEF LockInv, Guards
  <2>3. Kept(At(q)) /\ lock'[At(q)] = q
    BY <2>1, <2>2, EntriesStay, LocksStay
  <2>4. At(q)' = At(q) /\ (Carries(job[q].at)' <=> Carries(job[q].at))
    BY <1>1, <2>1, <2>3 DEF At, Carries, Kept
  <2>5. Guards(q)'
    BY <1>1, <2>1, <2>3, <2>4 DEF LockInv, Guards, Kept, Holding, Carries
  <2>6. job'[q].pc \in {"fetch", "install", "land"} =>
            From(job'[q].at, staged'[Pid[q]][At(q)'])
    BY <1>1, <2>3, <2>4 DEF StageInv, Kept
  <2> QED
    BY <1>2, <2>5, <2>6
<1> QED
  BY <1>3, <1>4

-----------------------------------------------------------------------------
(* A process keeps its own promises. *)

\* What holds of p outside the entries.
Outside(p) ==
    /\ ~Holding(p) /\ job[p].pc \notin {"lock", "link"}
    /\ job[p].pc \in {"check", "look"} => job[p].got = {}

\* Away from the entries there is nothing to keep; on the way in, a description.
LEMMA OutsideHolds ==
    ASSUME NEW p \in Proc,
           \/ Outside(p)'
           \/ /\ job'[p].pc \in {"lock", "link"} /\ job'[p].at \in Desc
              /\ job'[p].pc = "lock" => job'[p].got = {}
    PROVE  /\ Fits(p)'
           /\ Guards(p)'
           /\ job'[p].pc \in {"fetch", "install", "land"} =>
                  From(job'[p].at, staged'[Pid[p]][At(p)'])
  BY DEF Outside, Fits, Guards, Holding

LEMMA OwnHolds ==
    ASSUME StoreInv, NEW p \in Proc, Acts(p)
    PROVE  /\ Fits(p)'
           /\ Guards(p)'
           /\ job'[p].pc \in {"fetch", "install", "land"} =>
                  From(job'[p].at, staged'[Pid[p]][At(p)'])
<1> USE DEF StoreInv
<1>j. /\ job \in [Proc -> Job] /\ job[p] \in Job
      /\ Fits(p) /\ Guards(p)
      /\ job[p].pc \in {"fetch", "install", "land"} =>
             From(job[p].at, staged[Pid[p]][At(p)])
      /\ Holding(p) \/ job[p].pc \in {"lock", "link"} =>
             At(p) = EntryOf[job[p].at] /\ At(p) \in Entry
  BY AtIsEntry DEF TypeOK, JobInv, LockInv, StageInv
<1>l. ASSUME Leave(p)
      PROVE  Outside(p)'
  BY <1>l, <1>j DEF Leave, Outside, Holding, Idle
<1>g. ASSUME NEW pc \in Pc, Goto(p, pc)
      PROVE  /\ job'[p] = [job[p] EXCEPT !.pc = pc]
             /\ job'[p].pc = pc
             /\ job'[p].at = job[p].at
             /\ job'[p].got = job[p].got
             /\ job'[p].fetch = job[p].fetch
             /\ At(p)' = At(p)
  <2>1. job'[p] = [job[p] EXCEPT !.pc = pc]
    BY <1>g, <1>j DEF Goto
  <2>2. /\ job'[p].pc = pc
        /\ job'[p].at = job[p].at
        /\ job'[p].got = job[p].got
        /\ job'[p].fetch = job[p].fetch
    BY <2>1, <1>j DEF Job
  <2> QED
    BY <2>1, <2>2 DEF At
<1>r. ASSUME Goto(p, "refused")
      PROVE  Outside(p)'
  BY <1>r, <1>g DEF Outside, Holding, Pc
<1>h. ASSUME Have(p)
      PROVE  Outside(p)'
  BY <1>h, <1>j DEF Have, Outside, Holding, Job
<1>1. CASE Provision(p)
  <2>1. Outside(p)'
    BY <1>1, <1>j DEF Provision, Outside, Holding, Idle
  <2> QED
    BY <2>1, OutsideHolds
<1>2. CASE FailInstall(p)
  BY <1>2, <1>r, OutsideHolds DEF FailInstall
<1>3. CASE Kill(p)
  BY <1>3, <1>l, OutsideHolds DEF Kill
<1>4. CASE Step(p)
  <2>1. CASE CheckPrerequisites(p)
    <3>1. Goto(p, "look") \/ Goto(p, "refused")
      BY <2>1 DEF CheckPrerequisites
    <3>2. Outside(p)'
      BY <2>1, <3>1, <1>j, <1>g DEF Outside, Holding, Pc, CheckPrerequisites, Fits
    <3> QED
      BY <3>2, OutsideHolds
  <2>2. CASE Look(p)
    <3>1. PICK d \in Desc :
              job' = IF Carries(d) THEN [job EXCEPT ![p].todo = @ \ {d}]
                     ELSE [job EXCEPT ![p].at = d, ![p].pc = "lock"]
      BY <2>2 DEF Look
    <3>2. \/ job'[p].pc = "look"
          \/ job'[p].pc = "lock" /\ job'[p].at = d
      BY <2>2, <3>1, <1>j DEF Look, Job
    <3>3. job'[p].got = {}
      BY <2>2, <3>1, <1>j DEF Look, Job, Fits
    <3> QED
      BY <3>2, <3>3, OutsideHolds DEF Outside, Holding
  <2>3. CASE LockEntry(p)
    <3>1. /\ job'[p].pc = "recheck" /\ job'[p].at = job[p].at
          /\ At(p)' = At(p) /\ job'[p].got = job[p].got
      BY <2>3, <1>g DEF LockEntry, Pc
    <3>2. lock'[At(p)] = p
      BY <2>3, <1>j DEF LockEntry, TypeOK
    <3> QED
      BY <2>3, <3>1, <3>2, <1>j DEF LockEntry, Fits, Guards
  <2>4. CASE Recheck(p)
    <3>1. CASE Carries(job[p].at)
      BY <2>4, <3>1, <1>h, OutsideHolds DEF Recheck
    <3>2. CASE ~Carries(job[p].at)
      <4>1. Goto(p, IF dir[At(p)] THEN "remove" ELSE "clear")
        BY <2>4, <3>2, Zenon DEF Recheck
      <4>2. /\ job'[p].pc = IF dir[At(p)] THEN "remove" ELSE "clear"
            /\ job'[p].at = job[p].at /\ job'[p].got = job[p].got
            /\ At(p)' = At(p)
        BY <4>1, <1>g DEF Pc
      <4>3. UNCHANGED <<store, lock>> /\ Holding(p) /\ job[p].got = {}
        BY <2>4, <3>2, <1>j DEF Recheck, Holding, Fits
      <4>4. ~Carries(job[p].at)'
        BY <3>2, <4>2, <4>3 DEF Carries, store
      <4> QED
        BY <4>2, <4>3, <4>4, <1>j DEF Fits, Guards, store
    <3> QED
      BY <3>1, <3>2
  <2>5. CASE RemoveStale(p)
    <3>1. /\ Holding(p) /\ lock' = lock /\ ~Carries(job[p].at)
          /\ job[p].got = {}
      BY <2>5, <1>j DEF RemoveStale, Holding, Guards, Fits
    <3>2. CASE has[At(p)] = NoFiles
      <4>1. Goto(p, "clear") /\ dir' = [dir EXCEPT ![At(p)] = FALSE]
        BY <2>5, <3>2, Zenon DEF RemoveStale
      <4>2. /\ job'[p].pc = "clear" /\ job'[p].at = job[p].at
            /\ At(p)' = At(p) /\ job'[p].got = job[p].got
        BY <4>1, <1>g DEF Pc
      <4>3. ~dir'[At(p)]
        BY <3>1, <4>1, <1>j DEF TypeOK
      <4> QED
        BY <3>1, <4>2, <4>3, <1>j DEF Fits, Guards
    <3>3. CASE has[At(p)] # NoFiles
      <4>1. PICK f \in File : has' = [has EXCEPT ![At(p)][f] = NoArtifact]
        BY <2>5, <3>3 DEF RemoveStale
      <4>2. UNCHANGED <<dir, job>>
        BY <2>5, <3>3 DEF RemoveStale
      <4>3. \A g \in File :
                has[At(p)][g] = NoArtifact => has'[At(p)][g] = NoArtifact
        BY <3>1, <4>1, <1>j DEF TypeOK, Files
      <4>4. ~Carries(job[p].at)'
        <5>1. Bins[job[p].at] \subseteq File
          BY <3>1, <1>j, RuntimeAssumption DEF Fits
        <5> QED
          BY <3>1, <4>2, <4>3, <5>1, <1>j DEF Carries
      <4>5. At(p)' = At(p) /\ job[p].pc = "remove"
        BY <2>5, <4>2 DEF At, RemoveStale
      <4> QED
        BY <3>1, <4>2, <4>4, <4>5, <1>j DEF Fits, Guards, Carries
    <3> QED
      BY <3>2, <3>3
  <2>6. CASE Clear(p)
    <3>1. /\ job'[p].pc = "fetch" /\ job'[p].at = job[p].at
          /\ job'[p].fetch = Artifacts[job[p].at] /\ job'[p].got = job[p].got
      BY <2>6, <1>j DEF Clear, Job
    <3>2. At(p)' = At(p)
      BY <3>1 DEF At
    <3>3. staged'[Pid[p]][At(p)] = NoFiles
      BY <2>6, <1>j DEF Clear, Unstaged, TypeOK, Holding
    <3>4. UNCHANGED <<store, lock>> /\ Holding(p)
      BY <2>6 DEF Clear, Holding
    <3>5. Guards(p)'
      BY <2>6, <3>1, <3>2, <3>4, <1>j DEF Guards, store, Clear
    <3>6. From(job[p].at, NoFiles)
      BY DEF From, NoFiles
    <3>7. job[p].got = {}
      BY <2>6, <1>j DEF Clear, Fits
    <3> QED
      BY <3>1, <3>2, <3>3, <3>4, <3>5, <3>6, <3>7, <1>j DEF Fits
  <2>7. CASE Fetch(p)
    <3>1. PICK a \in job[p].fetch : \E b \in Served[a] \cup {a} :
              \/ /\ b = a
                 /\ job' = [job EXCEPT ![p].fetch = @ \ {a}, ![p].got = @ \cup {b}]
                 /\ UNCHANGED staged
              \/ Goto(p, "refused")
      BY <2>7 DEF Fetch
    <3>2. CASE Goto(p, "refused")
      BY <3>2, <1>r, OutsideHolds
    <3>3. CASE /\ job' = [job EXCEPT ![p].fetch = @ \ {a}, ![p].got = @ \cup {a}]
               /\ UNCHANGED staged
      <4>1. /\ job'[p].pc = "fetch" /\ job'[p].at = job[p].at
            /\ job'[p].fetch = job[p].fetch \ {a}
            /\ job'[p].got = job[p].got \cup {a}
        BY <2>7, <3>3, <1>j DEF Fetch, Job
      <4>2. At(p)' = At(p)
        BY <4>1 DEF At
      <4>3. Holding(p) /\ UNCHANGED <<store, lock>> /\ job[p].pc = "fetch"
        BY <2>7 DEF Fetch, Holding
      <4>4. Fits(p)'
        BY <4>1, <4>3, <1>j DEF Fits
      <4>5. Guards(p)'
        BY <4>1, <4>2, <4>3, <1>j DEF Guards, store
      <4>6. From(job'[p].at, staged'[Pid[p]][At(p)'])
        BY <3>3, <4>1, <4>2, <4>3, <1>j
      <4> QED
        BY <4>4, <4>5, <4>6
    <3> QED
      BY <3>1, <3>2, <3>3
  <2>8. CASE Fetched(p) \/ Installed(p)
    <3>1. \/ Goto(p, "install") /\ job[p].pc = "fetch"
          \/ Goto(p, "land") /\ job[p].pc = "install"
      BY <2>8 DEF Fetched, Installed
    <3>2. /\ job'[p].at = job[p].at /\ At(p)' = At(p)
          /\ job'[p].got = job[p].got /\ job'[p].fetch = job[p].fetch
          /\ \/ job'[p].pc = "install" /\ job[p].pc = "fetch"
             \/ job'[p].pc = "land" /\ job[p].pc = "install"
      BY <3>1, <1>g DEF Pc
    <3>3. Holding(p) /\ UNCHANGED <<store, lock, staged>>
      BY <2>8 DEF Fetched, Installed, Holding
    <3>4. Fits(p)'
      BY <3>2, <3>3, <1>j DEF Fits
    <3>5. Guards(p)'
      BY <3>2, <3>3, <1>j DEF Guards, store
    <3> QED
      BY <3>2, <3>3, <3>4, <3>5, <1>j
  <2>9. CASE Install(p)
    <3>1. PICK b \in job[p].got :
            /\ staged' = [staged EXCEPT ![Pid[p]][At(p)] =
                   [f \in File |-> IF f \in Lays[b] THEN b ELSE @[f]]]
            /\ job' = [job EXCEPT ![p].got = @ \ {b}]
      BY <2>9 DEF Install
    <3>2. /\ job'[p].pc = "install" /\ job'[p].at = job[p].at
          /\ job'[p].got = job[p].got \ {b} /\ job'[p].fetch = job[p].fetch
      BY <2>9, <3>1, <1>j DEF Install, Job
    <3>3. At(p)' = At(p)
      BY <3>2 DEF At
    <3>4. Holding(p) /\ UNCHANGED <<store, lock>> /\ job[p].pc = "install"
      BY <2>9 DEF Install, Holding
    <3>5. staged'[Pid[p]][At(p)] =
              [f \in File |-> IF f \in Lays[b] THEN b ELSE staged[Pid[p]][At(p)][f]]
      BY <3>1, <3>4, <1>j DEF TypeOK
    <3>6. b \in Artifacts[job[p].at]
      BY <3>4, <1>j DEF Fits
    <3>7. From(job[p].at, staged'[Pid[p]][At(p)])
      BY <3>4, <3>5, <3>6, <1>j DEF From
    <3>8. Fits(p)'
      BY <3>2, <3>4, <1>j DEF Fits
    <3>9. Guards(p)'
      BY <3>2, <3>3, <3>4, <1>j DEF Guards, store
    <3> QED
      BY <3>2, <3>3, <3>7, <3>8, <3>9
  <2>10. CASE Land(p)
    <3>1. Goto(p, "refused") \/ Have(p)
      BY <2>10 DEF Land
    <3> QED
      BY <3>1, <1>r, <1>h, OutsideHolds
  <2>11. CASE Report(p) \/ WriteEnv(p)
    BY <2>11, <1>l, OutsideHolds DEF Report, WriteEnv
  <2>12. CASE Materialized(p) \/ Linked(p)
    <3>1. job'[p].pc \in {"expose", "env"}
      BY <2>12, <1>j DEF Materialized, Linked, Goto, Job
    <3> QED
      BY <3>1, OutsideHolds DEF Outside, Holding
  <2>13. CASE Unlink(p)
    <3>1. PICK l \in NextLink(p) :
              job' = [job EXCEPT ![p].links = @ \ {l}, ![p].at = l[1],
                                 ![p].hand = {l[2]}, ![p].pc = "link"]
      BY <2>13 DEF Unlink
    <3>2. l[1] \in Desc
      BY <1>j DEF NextLink, Job
    <3>3. job'[p].pc = "link" /\ job'[p].at = l[1]
      BY <3>1, <1>j DEF Job
    <3> QED
      BY <3>2, <3>3, OutsideHolds
  <2>14. CASE Link(p)
    <3>1. \/ Goto(p, "refused")
          \/ job' = [job EXCEPT ![p].at = NoDesc, ![p].hand = {}, ![p].pc = "expose"]
      BY <2>14 DEF Link
    <3>2. job'[p].pc \in {"refused", "expose"}
      BY <3>1, <1>j, <1>g DEF Job, Pc
    <3> QED
      BY <3>2, OutsideHolds DEF Outside, Holding
  <2> QED
    BY <1>4, <2>1, <2>2, <2>3, <2>4, <2>5, <2>6, <2>7, <2>8, <2>9, <2>10,
       <2>11, <2>12, <2>13, <2>14, Zenon DEF Step
<1> QED
  BY <1>1, <1>2, <1>3, <1>4, Zenon DEF Acts

-----------------------------------------------------------------------------
(* What stands in the store. *)

\* The entry e has the files of one description of it, or none.
OneBuild(e) ==
    has[e] # NoFiles => \E d \in Desc : EntryOf[d] = e /\ From(d, has[e])

LEMMA BuildsAreOne == EntriesOfOneBuild <=> \A e \in Entry : OneBuild(e)
  BY DEF EntriesOfOneBuild, OneBuild, From

LEMMA OneBuildStays ==
    ASSUME StoreInv, NEW p \in Proc, Acts(p), NEW e \in Entry
    PROVE  OneBuild(e)'
<1> USE DEF StoreInv
<1>0. OneBuild(e)
  BY BuildsAreOne
<1>1. CASE ~(Holding(p) /\ At(p) = e)
  <2>1. has'[e] = has[e]
    BY <1>1, EntriesStay DEF Kept
  <2> QED
    BY <1>0, <2>1 DEF OneBuild
<1>2. CASE has' = has
  BY <1>0, <1>2 DEF OneBuild
<1>3. CASE Holding(p) /\ At(p) = e /\ has' # has
  <2>0. At(p) = EntryOf[job[p].at] /\ job[p].at \in Desc
    BY <1>3, AtIsEntry DEF JobInv, Fits
  <2>1. RemoveStale(p) \/ Land(p)
    BY <1>3 DEF Acts, Step, Provision, FailInstall, Kill, CheckPrerequisites,
           Look, LockEntry, Recheck, Clear, Fetch, Fetched, Install, Installed,
           Report, Materialized, Unlink, Link, Linked, WriteEnv, store
  <2>2. CASE RemoveStale(p)
    <3>1. PICK f \in File : has' = [has EXCEPT ![e][f] = NoArtifact]
      BY <1>3, <2>2 DEF RemoveStale
    <3>2. /\ has[e] \in Files
          /\ has'[e] = [has[e] EXCEPT ![f] = NoArtifact]
      BY <3>1 DEF TypeOK
    <3>3. has[e] # NoFiles
      BY <1>3, <2>2 DEF RemoveStale
    <3>4. PICK d \in Desc : EntryOf[d] = e /\ From(d, has[e])
      BY <1>0, <3>3 DEF OneBuild
    <3>5. From(d, has'[e])
      BY <3>2, <3>4 DEF From, Files
    <3> QED
      BY <3>4, <3>5 DEF OneBuild
  <2>3. CASE Land(p)
    <3>1. has' = [has EXCEPT ![e] = staged[Pid[p]][e]]
      BY <1>3, <2>3 DEF Land, store
    <3>2. has'[e] = staged[Pid[p]][e]
      BY <3>1 DEF TypeOK
    <3>3. From(job[p].at, staged[Pid[p]][e])
      BY <1>3, <2>3 DEF StageInv, Land
    <3> QED
      BY <1>3, <2>0, <3>2, <3>3 DEF OneBuild
  <2> QED
    BY <2>1, <2>2, <2>3
<1> QED
  BY <1>1, <1>2, <1>3

-----------------------------------------------------------------------------
(* The invariant and what follows from it. *)

LEMMA InitStore == Init => StoreInv
<1> SUFFICES ASSUME Init
             PROVE  StoreInv
  OBVIOUS
<1>1. TypeOK
  BY IdleIsJob, RuntimeAssumption, RuntimeBounds DEF Init, TypeOK, NoFiles, Files
<1>2. \A p \in Proc : job[p].pc = "idle"
  BY DEF Init, Idle
<1>3. JobInv /\ LockInv /\ StageInv
  BY <1>2 DEF JobInv, Fits, LockInv, Guards, StageInv, Holding
<1>4. EntriesOfOneBuild
  BY DEF Init, EntriesOfOneBuild
<1> QED
  BY <1>1, <1>3, <1>4 DEF StoreInv

LEMMA NextStore == StoreInv /\ [Next]_vars => StoreInv'
<1> SUFFICES ASSUME StoreInv, [Next]_vars
             PROVE  StoreInv'
  OBVIOUS
<1>1. CASE UNCHANGED vars
  BY <1>1 DEF vars, StoreInv, TypeOK, JobInv, Fits, LockInv, Guards, StageInv,
         EntriesOfOneBuild, Holding, At, Carries, From
<1>2. ASSUME NEW p \in Proc, Acts(p)
      PROVE  StoreInv'
  <2>1. TypeOK'
    BY <1>2, NextTypes DEF StoreInv
  <2>2. \A q \in Proc :
            /\ Fits(q)'
            /\ Guards(q)'
            /\ job'[q].pc \in {"fetch", "install", "land"} =>
                   From(job'[q].at, staged'[Pid[q]][At(q)'])
    BY <1>2, OthersHold, OwnHolds
  <2>3. JobInv' /\ LockInv' /\ StageInv'
    BY <2>2 DEF JobInv, LockInv, StageInv, From
  <2>4. EntriesOfOneBuild'
    <3>1. \A e \in Entry : OneBuild(e)'
      BY <1>2, OneBuildStays
    <3> QED
      BY <3>1 DEF EntriesOfOneBuild, OneBuild, From
  <2> QED
    BY <2>1, <2>3, <2>4 DEF StoreInv
<1> QED
  BY <1>1, <1>2 DEF Next, Acts

THEOREM StoreInvariant == Spec => []StoreInv
  BY InitStore, NextStore, PTL DEF Spec

\* Every variable keeps its type.
THEOREM TypeCorrect == Spec => []TypeOK
  BY StoreInvariant, PTL DEF StoreInv

\* A prefix holds what one description of it pins, whatever servers answer,
\* whoever shares process ids and whatever killed processes left staged.
THEOREM PrefixesOfOneBuild == Spec => []EntriesOfOneBuild
  BY StoreInvariant, PTL DEF StoreInv

\* Whoever renames a prefix into place holds its lock and finds the place free.
THEOREM PrefixesLandOnNothing == Spec => []LandsOnNothing
<1>1. StoreInv => LandsOnNothing
  BY DEF StoreInv, LockInv, Guards, LandsOnNothing, Holding
<1> QED
  BY <1>1, StoreInvariant, PTL

\* An entry that carries all that is described for it is never touched again:
\* only a process that holds its lock, and found it lacking, replaces it.
THEOREM FullPrefixesStay == Spec => FullEntriesStay
<1>1. ASSUME StoreInv, [Next]_vars,
             NEW e \in Entry, \A d \in Desc : EntryOf[d] = e => Carries(d)
      PROVE  has'[e] = has[e] /\ dir'[e] = dir[e]
  <2>1. CASE UNCHANGED vars
    BY <2>1 DEF vars
  <2>2. ASSUME NEW p \in Proc, Acts(p)
        PROVE  has'[e] = has[e] /\ dir'[e] = dir[e]
    <3>1. CASE ~(Holding(p) /\ At(p) = e)
      BY <1>1, <2>2, <3>1, EntriesStay DEF StoreInv, Kept
    <3>2. CASE Holding(p) /\ At(p) = e
      <4>1. At(p) = EntryOf[job[p].at] /\ job[p].at \in Desc
        BY <1>1, <3>2, AtIsEntry DEF StoreInv, JobInv, Fits
      <4>2. Carries(job[p].at)
        BY <1>1, <3>2, <4>1
      <4>3. job[p].pc = "recheck"
        BY <1>1, <3>2, <4>1, <4>2 DEF StoreInv, LockInv, Guards, Carries, Holding
      <4>4. UNCHANGED store
        BY <2>2, <4>3 DEF Acts, Step, Provision, FailInstall, Kill,
               CheckPrerequisites, Look, LockEntry, Recheck, RemoveStale, Clear,
               Fetch, Fetched, Install, Installed, Land, Report, Materialized,
               Unlink, Link, Linked, WriteEnv
      <4> QED
        BY <4>4 DEF store
    <3> QED
      BY <3>1, <3>2
  <2> QED
    BY <1>1, <2>1, <2>2 DEF Next, Acts
<1>2. StoreInv /\ [Next]_vars =>
          \A e \in Entry : (\A d \in Desc : EntryOf[d] = e => Carries(d)) =>
              has'[e] = has[e] /\ dir'[e] = dir[e]
  BY <1>1
<1> QED
  BY <1>2, StoreInvariant, PTL DEF Spec, FullEntriesStay

-----------------------------------------------------------------------------
(* What a workspace's runtimes need is there. *)

\* The name f of w leads to an entry, or a process is between the two calls
\* that renew it, or something died there.
Reaches(w, f) ==
    \/ bin[w][f] # NoEntry
    \/ aborts > 0
    \/ \E p \in Proc : job[p].pc = "link" /\ job[p].ws = w /\ f \in job[p].hand

\* What d needs is on the host, or provided by programs that w reaches.
Met(w, d) ==
    \A c \in Needs[d] :
        c \in Host \/ \E e \in Desc :
            c \in Provides[e] /\ \A f \in Bins[e] : Reaches(w, f)

Checked(p) == job[p].pc \notin {"idle", "check", "refused"}

\* p has checked the needs of its plan, and the programs it no longer has to
\* link are reached.
Promises(p) ==
    /\ Checked(p) =>
          /\ job[p].ws \in Workspace
          /\ \A d \in job[p].plan : \A c \in Needs[d] :
                 Satisfied(job[p].ws, job[p].plan, c)
    /\ job[p].pc = "check" => job[p].ws \in Workspace
    /\ job[p].pc = "link" => \E f \in File : job[p].hand = {f}
    /\ job[p].pc = "env" => job[p].links = {}
    /\ job[p].pc \in {"expose", "link", "env"} =>
          \A d \in job[p].plan : \A f \in Bins[d] :
              <<d, f>> \in job[p].links \/ Reaches(job[p].ws, f)

NeedInv ==
    /\ \A p \in Proc : Promises(p)
    /\ \A w \in Workspace : \A d \in env[w] : Met(w, d)

\* Nothing stops reaching a name but an abort, which Reaches allows.
LEMMA ReachesStays ==
    ASSUME StoreInv, NeedInv, NEW p \in Proc, Acts(p),
           NEW w \in Workspace, NEW f \in File, Reaches(w, f)
    PROVE  Reaches(w, f)'
<1> USE DEF StoreInv
<1>j. /\ job[p] \in Job /\ aborts \in Nat
      /\ bin \in [Workspace -> [File -> Entry \cup {NoEntry}]]
  BY RuntimeBounds DEF TypeOK
<1>q. \A q \in Proc : q # p => job'[q] = job[q]
  BY OthersStay
<1>1. CASE aborts' > 0
  BY <1>1 DEF Reaches
<1>2. CASE Unlink(p)
  <2>1. PICK l \in NextLink(p) :
          /\ bin' = [bin EXCEPT ![job[p].ws][l[2]] = NoEntry]
          /\ job' = [job EXCEPT ![p].links = @ \ {l}, ![p].at = l[1],
                                ![p].hand = {l[2]}, ![p].pc = "link"]
    BY <1>2 DEF Unlink
  <2>2. /\ job'[p].pc = "link" /\ job'[p].hand = {l[2]}
        /\ job'[p].ws = job[p].ws
    BY <2>1, <1>j DEF TypeOK, Job
  <2>3. aborts' = aborts /\ job[p].pc = "expose"
    BY <1>2 DEF Unlink, rest
  <2>4. CASE w = job[p].ws /\ f = l[2]
    BY <2>2, <2>4 DEF Reaches
  <2>5. CASE ~(w = job[p].ws /\ f = l[2])
    <3>1. bin'[w][f] = bin[w][f]
      BY <2>1, <2>5, <1>j
    <3> QED
      BY <3>1, <2>3, <1>q DEF Reaches
  <2> QED
    BY <2>4, <2>5
<1>3. CASE Link(p)
  <2>1. job[p].pc = "link" /\ aborts' = aborts
    BY <1>3 DEF Link, rest
  <2>2. PICK g \in File : job[p].hand = {g}
    BY <2>1 DEF NeedInv, Promises
  <2>3. job[p].ws \in Workspace
    BY <2>1 DEF NeedInv, Promises, Checked
  <2>4. CASE bin[job[p].ws][g] # NoEntry
    <3>1. bin' = bin
      BY <1>3, <2>2, <2>4 DEF Link
    <3> QED
      BY <2>1, <2>2, <2>4, <3>1, <1>q DEF Reaches
  <2>5. CASE bin[job[p].ws][g] = NoEntry
    <3>1. bin' = [bin EXCEPT ![job[p].ws][g] = At(p)]
      BY <1>3, <2>2, <2>5 DEF Link
    <3>2. At(p) # NoEntry
      BY <2>1, AtIsEntry, RuntimeAssumption
    <3>3. bin'[job[p].ws][g] # NoEntry
      BY <2>3, <3>1, <3>2, <1>j
    <3>4. ~(w = job[p].ws /\ f = g) => bin'[w][f] = bin[w][f]
      BY <3>1, <1>j
    <3> QED
      BY <2>1, <2>2, <3>3, <3>4, <1>q DEF Reaches
  <2> QED
    BY <2>4, <2>5
<1>4. CASE bin' = bin /\ aborts' = aborts /\ job[p].pc # "link"
  BY <1>4, <1>q DEF Reaches
<1>5. \/ aborts' > 0 \/ Unlink(p) \/ Link(p)
      \/ bin' = bin /\ aborts' = aborts /\ job[p].pc # "link"
  <2>1. CASE FailInstall(p) \/ Kill(p)
    BY <2>1, <1>j DEF FailInstall, Kill
  <2>2. CASE Fetch(p)
    <3>1. aborts' = aborts \/ aborts' = aborts + 1
      BY <2>2 DEF Fetch
    <3> QED
      BY <2>2, <3>1, <1>j DEF Fetch, exposed
  <2>3. CASE Provision(p)
    BY <2>3 DEF Provision, exposed
  <2>4. CASE Step(p) /\ ~Fetch(p) /\ ~Unlink(p) /\ ~Link(p)
    BY <2>4 DEF Step, CheckPrerequisites, Look, LockEntry, Recheck, RemoveStale,
           Clear, Fetched, Install, Installed, Land, Report, Materialized,
           Linked, WriteEnv, exposed, rest
  <2> QED
    BY <2>1, <2>2, <2>3, <2>4 DEF Acts
<1> QED
  BY <1>1, <1>2, <1>3, <1>4, <1>5

\* What the jobs have promised outlasts the steps of others.
LEMMA OthersPromise ==
    ASSUME StoreInv, NeedInv, NEW p \in Proc, Acts(p), NEW q \in Proc, q # p
    PROVE  Promises(q)'
<1>1. job'[q] = job[q]
  BY OthersStay DEF StoreInv
<1>2. Promises(q)
  BY DEF NeedInv
<1>3. job[q] \in Job
  BY DEF StoreInv, TypeOK
<1>4. \A w \in Workspace, f \in File : Reaches(w, f) => Reaches(w, f)'
  BY ReachesStays
<1>5. \A d \in job[q].plan : Bins[d] \subseteq File
  BY <1>3, RuntimeAssumption DEF Job
<1>6. job[q].pc \in {"expose", "link", "env"} => job[q].ws \in Workspace
  BY <1>2 DEF Promises, Checked
<1> QED
  BY <1>1, <1>2, <1>4, <1>5, <1>6 DEF Promises, Checked, Reaches

\* A process that has neither links left to make nor one in hand keeps its
\* plan, its workspace and so its word.
LEMMA PlanStays ==
    ASSUME NEW p \in Proc, Promises(p), Checked(p) \/ ~Checked(p)',
           job'[p].plan = job[p].plan, job'[p].ws = job[p].ws,
           job'[p].pc \notin {"check", "expose", "link", "env"}
    PROVE  Promises(p)'
  BY DEF Promises, Checked

LEMMA OwnPromises ==
    ASSUME StoreInv, NeedInv, NEW p \in Proc, Acts(p)
    PROVE  Promises(p)'
<1> USE DEF StoreInv
<1>j. /\ job \in [Proc -> Job] /\ job[p] \in Job /\ Promises(p)
  BY DEF TypeOK, NeedInv
<1>l. ASSUME Leave(p)
      PROVE  Promises(p)'
  <2>1. job'[p].pc = "idle"
    BY <1>l, <1>j DEF Leave, Idle
  <2> QED
    BY <2>1 DEF Promises, Checked
<1>g. ASSUME NEW pc \in Pc, Goto(p, pc)
      PROVE  /\ job'[p].pc = pc
             /\ job'[p].ws = job[p].ws
             /\ job'[p].plan = job[p].plan
             /\ job'[p].links = job[p].links
  <2>1. job'[p] = [job[p] EXCEPT !.pc = pc]
    BY <1>g, <1>j DEF Goto
  <2> QED
    BY <2>1, <1>j DEF Job
<1>k. ASSUME \/ Goto(p, "refused")
             \/ /\ Checked(p)
                /\ \E pc \in Pc \ {"check", "expose", "link", "env"} : Goto(p, pc)
      PROVE  Promises(p)'
  <2>1. /\ job'[p].ws = job[p].ws
        /\ job'[p].plan = job[p].plan
        /\ job'[p].pc \notin {"check", "expose", "link", "env"}
        /\ Checked(p) \/ job'[p].pc = "refused"
    BY <1>k, <1>g DEF Pc
  <2> QED
    BY <2>1, <1>j, PlanStays DEF Checked
<1>h. ASSUME Have(p), Checked(p)
      PROVE  Promises(p)'
  <2>1. /\ job'[p].ws = job[p].ws
        /\ job'[p].plan = job[p].plan
        /\ job'[p].pc = "look"
    BY <1>h, <1>j DEF Have, Job
  <2> QED
    BY <1>h, <2>1, <1>j, PlanStays
<1>w. \A w \in Workspace, f \in File : Reaches(w, f) => Reaches(w, f)'
  BY ReachesStays
<1>b. \A d \in job[p].plan : d \in Desc /\ Bins[d] \subseteq File
  BY <1>j, RuntimeAssumption DEF Job
<1>1. CASE Provision(p)
  <2>1. job'[p].pc = "check" /\ job'[p].ws \in Workspace
    BY <1>1, <1>j DEF Provision, Idle
  <2> QED
    BY <2>1 DEF Promises, Checked
<1>2. CASE FailInstall(p)
  BY <1>2, <1>k DEF FailInstall
<1>3. CASE Kill(p)
  BY <1>3, <1>l DEF Kill
<1>4. CASE Step(p)
  <2>1. CASE CheckPrerequisites(p)
    <3>1. CASE Goto(p, "refused")
      BY <3>1, <1>k
    <3>2. CASE /\ \A d \in job[p].plan : \A c \in Needs[d] :
                      Satisfied(job[p].ws, job[p].plan, c)
               /\ Goto(p, "look")
      <4>1. /\ job'[p].pc = "look"
            /\ job'[p].ws = job[p].ws /\ job'[p].plan = job[p].plan
        BY <3>2, <1>g DEF Pc
      <4>2. job[p].ws \in Workspace
        BY <2>1, <1>j DEF CheckPrerequisites, Promises
      <4> QED
        BY <3>2, <4>1, <4>2 DEF Promises
    <3> QED
      BY <2>1, <3>1, <3>2 DEF CheckPrerequisites
  <2>2. CASE Look(p)
    <3>1. PICK d \in Desc :
              job' = IF Carries(d) THEN [job EXCEPT ![p].todo = @ \ {d}]
                     ELSE [job EXCEPT ![p].at = d, ![p].pc = "lock"]
      BY <2>2 DEF Look
    <3>2. /\ job'[p].ws = job[p].ws /\ job'[p].plan = job[p].plan
          /\ job'[p].pc \in {"look", "lock"}
      BY <2>2, <3>1, <1>j DEF Look, Job
    <3>3. Checked(p)
      BY <2>2 DEF Look, Checked
    <3> QED
      BY <3>2, <3>3, <1>j, PlanStays
  <2>3. CASE LockEntry(p) \/ Fetched(p) \/ Installed(p)
    BY <2>3, <1>k DEF LockEntry, Fetched, Installed, Checked, Pc
  <2>4. CASE Recheck(p)
    <3>1. \/ Have(p)
          \/ Goto(p, IF dir[At(p)] THEN "remove" ELSE "clear")
      BY <2>4 DEF Recheck
    <3>2. Have(p) \/ Goto(p, "remove") \/ Goto(p, "clear")
      BY <3>1
    <3> QED
      BY <2>4, <3>2, <1>k, <1>h DEF Recheck, Checked, Pc
  <2>5. CASE RemoveStale(p)
    <3>1. Goto(p, "clear") \/ UNCHANGED job
      BY <2>5, Zenon DEF RemoveStale
    <3>2. Checked(p) /\ job[p].pc = "remove"
      BY <2>5 DEF RemoveStale, Checked
    <3>3. CASE UNCHANGED job
      BY <3>2, <3>3, <1>j, PlanStays
    <3> QED
      BY <3>1, <3>2, <3>3, <1>k DEF Pc
  <2>6. CASE Clear(p) \/ Install(p)
    <3>1. /\ job'[p].ws = job[p].ws /\ job'[p].plan = job[p].plan
          /\ job'[p].pc \in {"fetch", "install"}
      BY <2>6, <1>j, ZenonT(60) DEF Clear, Install, Job
    <3> QED
      BY <2>6, <3>1, <1>j, PlanStays DEF Clear, Install, Checked
  <2>7. CASE Fetch(p)
    <3>1. PICK a \in job[p].fetch : \E b \in Served[a] \cup {a} :
              \/ job' = [job EXCEPT ![p].fetch = @ \ {a}, ![p].got = @ \cup {b}]
              \/ Goto(p, "refused")
      BY <2>7 DEF Fetch
    <3>2. CASE Goto(p, "refused")
      BY <3>2, <1>k
    <3>3. CASE ~Goto(p, "refused")
      <4>1. /\ job'[p].ws = job[p].ws /\ job'[p].plan = job[p].plan
            /\ job'[p].pc = "fetch"
        BY <2>7, <3>1, <3>3, <1>j DEF Fetch, Job
      <4> QED
        BY <2>7, <4>1, <1>j, PlanStays DEF Fetch, Checked
    <3> QED
      BY <3>2, <3>3
  <2>8. CASE Land(p)
    <3>1. Goto(p, "refused") \/ Have(p)
      BY <2>8 DEF Land
    <3> QED
      BY <2>8, <3>1, <1>k, <1>h DEF Land, Checked
  <2>9. CASE Report(p) \/ WriteEnv(p)
    BY <2>9, <1>l DEF Report, WriteEnv
  <2>10. CASE Materialized(p)
    <3>1. /\ job'[p].pc = "expose"
          /\ job'[p].ws = job[p].ws /\ job'[p].plan = job[p].plan
          /\ job'[p].links = Programs(job[p].plan)
      BY <2>10, <1>j DEF Materialized, Job
    <3>2. \A d \in job[p].plan : \A f \in Bins[d] :
              <<d, f>> \in Programs(job[p].plan)
      BY <1>b DEF Programs
    <3>3. Checked(p)
      BY <2>10 DEF Materialized, Checked
    <3> QED
      BY <3>1, <3>2, <3>3, <1>j DEF Promises, Checked
  <2>11. CASE Unlink(p)
    <3>1. PICK l \in NextLink(p) :
              job' = [job EXCEPT ![p].links = @ \ {l}, ![p].at = l[1],
                                 ![p].hand = {l[2]}, ![p].pc = "link"]
      BY <2>11 DEF Unlink
    <3>2. /\ job'[p].pc = "link" /\ job'[p].hand = {l[2]}
          /\ job'[p].ws = job[p].ws /\ job'[p].plan = job[p].plan
          /\ job'[p].links = job[p].links \ {l}
      BY <3>1, <1>j DEF Job
    <3>3. l[2] \in File
      BY <1>j DEF NextLink, Job
    <3>4. Checked(p) /\ job[p].pc = "expose" /\ job[p].ws \in Workspace
      BY <2>11, <1>j DEF Unlink, Checked, Promises
    <3>5. ASSUME NEW w \in Workspace, w = job[p].ws,
                 NEW d \in job[p].plan, NEW f \in Bins[d]
          PROVE  <<d, f>> \in job'[p].links \/ Reaches(w, f)'
      <4>1. CASE <<d, f>> = l
        BY <3>2, <3>5, <4>1 DEF Reaches
      <4>2. CASE <<d, f>> # l /\ <<d, f>> \in job[p].links
        BY <3>2, <4>2
      <4>3. CASE Reaches(job[p].ws, f)
        BY <1>b, <1>w, <3>5, <4>3
      <4> QED
        BY <4>1, <4>2, <4>3, <1>j, <3>4 DEF Promises
    <3>6. \A d \in job'[p].plan : \A f \in Bins[d] :
              (<<d, f>> \in job[p].links)' \/ Reaches(job[p].ws, f)'
      BY <3>2, <3>4, <3>5 DEF Reaches
    <3> QED
      BY <3>2, <3>3, <3>4, <3>6, <1>j DEF Promises, Checked
  <2>12. CASE Link(p) \/ Linked(p)
    <3>1. Checked(p) /\ job[p].pc \in {"link", "expose"}
      BY <2>12 DEF Link, Linked, Checked
    <3>2. \/ Goto(p, "refused")
          \/ /\ job' = [job EXCEPT ![p].at = NoDesc, ![p].hand = {}, ![p].pc = "expose"]
          \/ Goto(p, "env") /\ job[p].links = {}
      BY <2>12 DEF Link, Linked
    <3>3. CASE Goto(p, "refused")
      BY <3>3, <1>k
    <3>4. CASE ~Goto(p, "refused")
      <4>1. /\ job'[p].ws = job[p].ws /\ job'[p].plan = job[p].plan
            /\ job'[p].links = job[p].links
            /\ job'[p].pc \in {"expose", "env"}
            /\ job'[p].pc = "env" => job[p].links = {}
        <5>1. CASE Goto(p, "env") /\ job[p].links = {}
          BY <5>1, <1>g DEF Pc
        <5>2. CASE job' = [job EXCEPT ![p].at = NoDesc, ![p].hand = {},
                                      ![p].pc = "expose"]
          BY <5>2, <1>j DEF Job
        <5> QED
          BY <3>2, <3>4, <5>1, <5>2
      <4>2. job[p].ws \in Workspace
        BY <3>1, <1>j DEF Promises
      <4>3. \A d \in job'[p].plan : \A f \in Bins[d] :
                (<<d, f>> \in job[p].links)' \/ Reaches(job[p].ws, f)'
        <5>1. \A d \in job[p].plan : \A f \in Bins[d] :
                  <<d, f>> \in job[p].links \/ Reaches(job[p].ws, f)
          BY <1>j, <3>1 DEF Promises
        <5>2. ASSUME NEW w \in Workspace, w = job[p].ws,
                     NEW d \in job[p].plan, NEW f \in Bins[d]
              PROVE  <<d, f>> \in job[p].links \/ Reaches(w, f)'
          BY <1>b, <1>w, <5>1, <5>2
        <5> QED
          BY <4>1, <4>2, <5>2 DEF Reaches
      <4> QED
        BY <3>1, <4>1, <4>3, <1>j DEF Promises, Checked
    <3> QED
      BY <3>3, <3>4
  <2> QED
    BY <1>4, <2>1, <2>2, <2>3, <2>4, <2>5, <2>6, <2>7, <2>8, <2>9, <2>10,
       <2>11, <2>12, Zenon DEF Step
<1> QED
  BY <1>1, <1>2, <1>3, <1>4, Zenon DEF Acts

\* A plan that was checked and linked meets what its runtimes need.
LEMMA PlanMeets ==
    ASSUME StoreInv, NeedInv, NEW p \in Proc, job[p].pc = "env",
           NEW d \in job[p].plan
    PROVE  Met(job[p].ws, d)
<1> DEFINE w == job[p].ws
           plan == job[p].plan
<1>1. /\ w \in Workspace /\ plan \subseteq Desc
      /\ \A c \in Needs[d] : Satisfied(w, plan, c)
      /\ \A e \in plan : \A f \in Bins[e] : Reaches(w, f)
  BY DEF StoreInv, TypeOK, Job, NeedInv, Promises, Checked
<1>2. ASSUME NEW c \in Needs[d], c \notin Host
      PROVE  \E e \in plan : c \in Provides[e]
  <2>1. Satisfied(w, plan, c)
    BY <1>1
  <2>2. Providers(plan, c) # {}
    BY <1>2, <2>1 DEF Satisfied
  <2> QED
    BY <2>2 DEF Providers
<1> HIDE DEF w, plan
<1>3. Met(w, d)
  BY <1>1, <1>2 DEF Met
<1> QED
  BY <1>3 DEF w

LEMMA InitNeeds == Init => NeedInv
  BY DEF Init, Idle, NeedInv, Promises, Checked

LEMMA NextNeeds == StoreInv /\ NeedInv /\ [Next]_vars => NeedInv'
<1> SUFFICES ASSUME StoreInv, NeedInv, [Next]_vars
             PROVE  NeedInv'
  OBVIOUS
<1>1. CASE UNCHANGED vars
  BY <1>1 DEF vars, NeedInv, Promises, Checked, Reaches, Met
<1>2. ASSUME NEW p \in Proc, Acts(p)
      PROVE  NeedInv'
  <2>1. \A q \in Proc : Promises(q)'
    BY <1>2, OthersPromise, OwnPromises
  <2>2. \A w \in Workspace, f \in File : Reaches(w, f) => Reaches(w, f)'
    BY <1>2, ReachesStays
  <2>3. ASSUME NEW w \in Workspace, NEW d \in env'[w]
        PROVE  Met(w, d)
    <3>1. CASE d \in env[w]
      BY <3>1 DEF NeedInv
    <3>2. CASE d \notin env[w]
      <4>1. env' # env
        BY <2>3, <3>2
      <4>2. WriteEnv(p)
        BY <1>2, <4>1 DEF Acts, Step, Provision, FailInstall, Kill,
               CheckPrerequisites, Look, LockEntry, Recheck, RemoveStale, Clear,
               Fetch, Fetched, Install, Installed, Land, Report, Materialized,
               Unlink, Link, Linked, exposed
      <4>3. /\ job[p].pc = "env"
            /\ env' = [env EXCEPT ![job[p].ws] = {e \in job[p].plan : Env[e]}]
        BY <4>2 DEF WriteEnv
      <4>4. w = job[p].ws /\ d \in job[p].plan
        BY <3>2, <4>3 DEF StoreInv, TypeOK
      <4> QED
        BY <4>3, <4>4, PlanMeets
    <3> QED
      BY <3>1, <3>2
  <2>4. \A e \in Desc : Bins[e] \subseteq File
    BY RuntimeAssumption
  <2>5. ASSUME NEW w \in Workspace, NEW d \in env'[w]
        PROVE  Met(w, d)'
    BY <2>2, <2>3, <2>4, <2>5 DEF Met
  <2> QED
    BY <2>1, <2>5 DEF NeedInv
<1> QED
  BY <1>1, <1>2 DEF Next, Acts

\* A runtime whose environment a workspace sets finds what it needs there or on
\* the host, unless a link to it is just being renewed or something died.
THEOREM EnvironmentsHaveTheirNeeds == Spec => []NeedsAreMet
<1>1. NeedInv => NeedsAreMet
  BY DEF NeedInv, Met, Reaches, NeedsAreMet
<1> QED
  BY <1>1, InitStore, NextStore, InitNeeds, NextNeeds, PTL DEF Spec

-----------------------------------------------------------------------------
(* A prefix lacks a file only while its files are removed. *)

\* The artifacts whose files p has yet to lay out.
Pending(p) ==
    (IF job[p].pc = "fetch" THEN job[p].fetch ELSE {})
        \cup (IF job[p].pc = "land" THEN {} ELSE job[p].got)

\* Every file of artifact a is among g.
LaidOut(a, g) == \A f \in Lays[a] : g[f] # NoArtifact

LaidInv ==
    \A p \in Proc : job[p].pc \in {"fetch", "install", "land"} =>
        \A a \in Artifacts[job[p].at] :
            a \in Pending(p) \/ LaidOut(a, staged[Pid[p]][At(p)])

WholeInv == LaidInv /\ PartialOnlyByRemoval

\* The work of a process is undisturbed by the others' and by its own steps.
LEMMA LaidStays ==
    ASSUME StoreInv, LaidInv, NEW p \in Proc, Acts(p)
    PROVE  LaidInv'
<1> USE DEF StoreInv
<1>a. \A d \in Desc : \A a \in Artifacts[d] : a \in Bytes /\ Lays[a] \subseteq File
  BY RuntimeAssumption DEF Bytes
<1>1. ASSUME NEW q \in Proc, q # p, job'[q].pc \in {"fetch", "install", "land"},
             NEW a \in Artifacts[job'[q].at]
      PROVE  a \in Pending(q)' \/ LaidOut(a, staged'[Pid[q]][At(q)'])
  <2>1. job'[q] = job[q]
    BY <1>1, OthersStay
  <2>2. At(q)' = At(q) /\ Pending(q)' = Pending(q)
    BY <2>1 DEF At, Pending
  <2>3. /\ At(q) \in Entry /\ lock[At(q)] = q /\ Holding(q)
    BY <1>1, <2>1, AtIsEntry DEF LockInv, Guards, Holding
  <2>4. ~(Holding(p) /\ At(p) = At(q))
    BY <1>1, <2>3 DEF LockInv, Guards
  <2>5. Kept(At(q))
    BY <2>3, <2>4, EntriesStay
  <2> QED
    BY <1>1, <2>1, <2>2, <2>5 DEF LaidInv, Kept
<1>2. ASSUME job'[p].pc \in {"fetch", "install", "land"},
             NEW a \in Artifacts[job'[p].at]
      PROVE  a \in Pending(p)' \/ LaidOut(a, staged'[Pid[p]][At(p)'])
  <2>j. job \in [Proc -> Job] /\ job[p] \in Job
    BY DEF TypeOK
  <2>1. Clear(p) \/ Fetch(p) \/ Fetched(p) \/ Install(p) \/ Installed(p)
    <3>1. ~(Provision(p) \/ FailInstall(p) \/ Kill(p) \/ Report(p) \/ WriteEnv(p))
      <4>1. ~Provision(p)
        BY <1>2, <2>j DEF Provision, Idle
      <4>2. ~FailInstall(p)
        BY <1>2, <2>j DEF FailInstall, Goto, Job
      <4>3. ~Leave(p)
        BY <1>2, <2>j DEF Leave, Idle
      <4> QED
        BY <4>1, <4>2, <4>3 DEF Kill, Report, WriteEnv
    <3>2. ~(CheckPrerequisites(p) \/ Look(p) \/ LockEntry(p) \/ Recheck(p))
      <4>1. ~CheckPrerequisites(p)
        BY <1>2, <2>j DEF CheckPrerequisites, Goto, Job
      <4>2. ~Look(p)
        BY <1>2, <2>j, ZenonT(60) DEF Look, Job
      <4>3. ~LockEntry(p)
        BY <1>2, <2>j DEF LockEntry, Goto, Job
      <4>4. ~Recheck(p)
        BY <1>2, <2>j DEF Recheck, Have, Goto, Job
      <4> QED
        BY <4>1, <4>2, <4>3, <4>4
    <3>3. ~(RemoveStale(p) \/ Land(p) \/ Materialized(p) \/ Unlink(p) \/ Link(p) \/ Linked(p))
      <4>1. ~RemoveStale(p)
        BY <1>2, <2>j DEF RemoveStale, Goto, Job
      <4>2. ~Land(p)
        BY <1>2, <2>j DEF Land, Have, Goto, Job
      <4>3. ~(Materialized(p) \/ Linked(p))
        <5>1. ASSUME Materialized(p)
              PROVE  job'[p].pc = "expose"
          BY <5>1, <2>j DEF Materialized, Job
        <5>2. ASSUME Linked(p)
              PROVE  job'[p].pc = "env"
          BY <5>2, <2>j DEF Linked, Goto, Job
        <5> QED
          BY <1>2, <5>1, <5>2
      <4>4. ~Unlink(p)
        <5>1. ASSUME Unlink(p)
              PROVE  job'[p].pc = "link"
          <6>1. PICK l \in NextLink(p) :
                    job' = [job EXCEPT ![p].links = @ \ {l}, ![p].at = l[1],
                                       ![p].hand = {l[2]}, ![p].pc = "link"]
            BY <5>1 DEF Unlink
          <6> QED
            BY <6>1, <2>j DEF Job
        <5> QED
          BY <1>2, <5>1
      <4>5. ~Link(p)
        BY <1>2, <2>j DEF Link, Goto, Job
      <4> QED
        BY <4>1, <4>2, <4>3, <4>4, <4>5
    <3> QED
      BY <3>1, <3>2, <3>3 DEF Acts, Step
  <2>2. job[p].at \in Desc /\ At(p) = EntryOf[job[p].at] /\ At(p) \in Entry
    <3>1. Holding(p)
      BY <2>1 DEF Clear, Fetch, Fetched, Install, Installed, Holding
    <3> QED
      BY <3>1, AtIsEntry DEF JobInv, Fits
  <2>3. CASE Clear(p)
    <3>1. job'[p].pc = "fetch" /\ job'[p].fetch = Artifacts[job'[p].at]
      BY <2>3, <2>j DEF Clear, Job
    <3> QED
      BY <1>2, <3>1 DEF Pending
  <2>4. CASE Fetch(p)
    <3>0. ~Goto(p, "refused")
      BY <1>2, <2>j DEF Goto, Job
    <3>1. PICK b \in job[p].fetch :
              /\ job' = [job EXCEPT ![p].fetch = @ \ {b}, ![p].got = @ \cup {b}]
              /\ UNCHANGED staged
      BY <2>4, <3>0, Zenon DEF Fetch
    <3>2. /\ job'[p].pc = "fetch" /\ job[p].pc = "fetch"
          /\ job'[p].at = job[p].at /\ At(p)' = At(p)
          /\ job'[p].fetch \cup job'[p].got = job[p].fetch \cup job[p].got
      BY <2>4, <3>1, <2>j DEF Fetch, Job, At
    <3> QED
      BY <1>2, <3>1, <3>2 DEF LaidInv, Pending
  <2>5. CASE Fetched(p) \/ Installed(p)
    <3>1. /\ job'[p].at = job[p].at /\ At(p)' = At(p)
          /\ job'[p].got = job[p].got /\ UNCHANGED staged
          /\ \/ job[p].pc = "fetch" /\ job[p].fetch = {} /\ job'[p].pc = "install"
             \/ job[p].pc = "install" /\ job[p].got = {} /\ job'[p].pc = "land"
      BY <2>5, <2>j DEF Fetched, Installed, Goto, Job, At
    <3> QED
      BY <1>2, <3>1 DEF LaidInv, Pending
  <2>6. CASE Install(p)
    <3>1. PICK b \in job[p].got :
            /\ staged' = [staged EXCEPT ![Pid[p]][At(p)] =
                   [f \in File |-> IF f \in Lays[b] THEN b ELSE @[f]]]
            /\ job' = [job EXCEPT ![p].got = @ \ {b}]
      BY <2>6 DEF Install
    <3>2. /\ job'[p].pc = "install" /\ job[p].pc = "install"
          /\ job'[p].at = job[p].at /\ At(p)' = At(p)
          /\ job'[p].got = job[p].got \ {b}
      BY <2>6, <3>1, <2>j DEF Install, Job, At
    <3>3. staged'[Pid[p]][At(p)] =
              [f \in File |-> IF f \in Lays[b] THEN b ELSE staged[Pid[p]][At(p)][f]]
      BY <2>2, <3>1 DEF TypeOK
    <3>4. b \in Bytes /\ NoArtifact \notin Bytes
      BY <2>j, RuntimeAssumption DEF Job
    <3>5. a \in Bytes /\ Lays[a] \subseteq File
      BY <1>2, <1>a, <2>2, <3>2
    <3>6. CASE a = b
      BY <3>2, <3>3, <3>4, <3>5, <3>6 DEF LaidOut
    <3>7. CASE a # b /\ a \in Pending(p)
      BY <3>2, <3>7 DEF Pending
    <3>8. CASE LaidOut(a, staged[Pid[p]][At(p)])
      BY <3>2, <3>3, <3>4, <3>5, <3>8 DEF LaidOut
    <3> QED
      BY <1>2, <3>2, <3>6, <3>7, <3>8 DEF LaidInv
  <2> QED
    BY <2>1, <2>3, <2>4, <2>5, <2>6
<1>3. ASSUME NEW q \in Proc, job'[q].pc \in {"fetch", "install", "land"},
             NEW a \in Artifacts[job'[q].at]
      PROVE  a \in Pending(q)' \/ LaidOut(a, staged'[Pid[q]][At(q)'])
  BY <1>1, <1>2, <1>3
<1> QED
  BY <1>3 DEF LaidInv, LaidOut

\* While nothing dies no engine fails, and what was fetched is what was pinned.
LEMMA NothingDies ==
    ASSUME StoreInv, NEW p \in Proc, Acts(p), aborts' = 0
    PROVE  /\ aborts = 0 /\ ~Kill(p) /\ ~FailInstall(p)
           /\ Fetch(p) => \E b \in job[p].fetch :
                  /\ job' = [job EXCEPT ![p].fetch = @ \ {b}, ![p].got = @ \cup {b}]
                  /\ UNCHANGED staged
<1>j. aborts \in Nat
  BY RuntimeBounds DEF StoreInv, TypeOK
<1>1. ~(FailInstall(p) \/ Kill(p))
  BY <1>j DEF FailInstall, Kill
<1>2. CASE Fetch(p)
  <2>1. aborts' = aborts \/ aborts' = aborts + 1
    BY <1>2 DEF Fetch
  <2>2. aborts' # aborts + 1
    BY <1>j
  <2>3. PICK a \in job[p].fetch : \E b \in Served[a] \cup {a} :
            IF b = a
            THEN /\ job' = [job EXCEPT ![p].fetch = @ \ {a}, ![p].got = @ \cup {b}]
                 /\ UNCHANGED <<staged, aborts>>
            ELSE aborts' = aborts + 1
    BY <1>2, Zenon DEF Fetch
  <2>4. /\ job' = [job EXCEPT ![p].fetch = @ \ {a}, ![p].got = @ \cup {a}]
        /\ UNCHANGED staged
    BY <2>2, <2>3
  <2> QED
    BY <1>1, <2>1, <2>2, <2>4
<1>3. CASE Provision(p)
  BY <1>1, <1>3 DEF Provision, Fetch
<1>4. CASE Step(p) /\ ~Fetch(p)
  BY <1>1, <1>4 DEF Step, CheckPrerequisites, Look, LockEntry, Recheck,
         RemoveStale, Clear, Fetched, Install, Installed, Land, Report,
         Materialized, Unlink, Link, Linked, WriteEnv, rest
<1> QED
  BY <1>1, <1>2, <1>3, <1>4 DEF Acts

\* Somebody that holds the lock of e removes its files.
Removed(e) == \E p \in Proc : job[p].pc = "remove" /\ At(p) = e /\ lock[e] = p

LEMMA PartialStays ==
    ASSUME StoreInv, WholeInv, NEW p \in Proc, Acts(p),
           NEW e \in Entry, aborts' = 0, dir'[e]
    PROVE  Whole(e)' \/ Removed(e)'
<1> USE DEF StoreInv
<1>j. /\ job \in [Proc -> Job] /\ job[p] \in Job /\ aborts \in Nat
  BY RuntimeBounds DEF TypeOK
<1>0. aborts = 0 /\ ~Kill(p)
  BY NothingDies
<1>1. CASE ~(Holding(p) /\ At(p) = e)
  <2>1. Kept(e)
    BY <1>1, EntriesStay
  <2>2. Whole(e) \/ Removed(e)
    BY <1>0, <2>1 DEF WholeInv, PartialOnlyByRemoval, Kept, Removed
  <2>3. CASE Whole(e)
    BY <2>1, <2>3 DEF Whole, Kept
  <2>4. CASE Removed(e)
    <3>1. PICK q \in Proc : job[q].pc = "remove" /\ At(q) = e /\ lock[e] = q
      BY <2>4 DEF Removed
    <3>2. q # p
      BY <1>1, <3>1 DEF Holding
    <3>3. job'[q] = job[q] /\ lock'[e] = q
      BY <3>1, <3>2, OthersStay, LocksStay
    <3> QED
      BY <3>1, <3>3 DEF Removed, At
  <2> QED
    BY <2>2, <2>3, <2>4
<1>2. CASE Holding(p) /\ At(p) = e
  <2>0. lock[e] = p
    BY <1>2 DEF LockInv, Guards
  <2>1. CASE RemoveStale(p)
    <3>1. has[e] # NoFiles
      <4>1. ASSUME has[e] = NoFiles
            PROVE  FALSE
        <5>1. dir' = [dir EXCEPT ![e] = FALSE]
          BY <1>2, <2>1, <4>1, Zenon DEF RemoveStale
        <5> QED
          BY <5>1 DEF TypeOK
      <4> QED
        BY <4>1
    <3>2. UNCHANGED <<job, lock>> /\ job[p].pc = "remove"
      BY <1>2, <2>1, <3>1 DEF RemoveStale
    <3> QED
      BY <1>2, <2>0, <3>2 DEF Removed, At
  <2>2. CASE Land(p)
    <3>1. job[p].pc = "land" /\ ~dir[e]
      BY <1>2, <2>2 DEF Land, LockInv, Guards
    <3>2. has' = [has EXCEPT ![e] = staged[Pid[p]][e]]
      BY <1>2, <2>2, <3>1 DEF Land
    <3>3. has'[e] = staged[Pid[p]][e]
      BY <3>2 DEF TypeOK
    <3>4. \A a \in Artifacts[job[p].at] : LaidOut(a, has'[e])
      BY <1>2, <3>1, <3>3 DEF WholeInv, LaidInv, Pending
    <3>5. job[p].at \in Desc /\ EntryOf[job[p].at] = e
      BY <1>2, AtIsEntry DEF JobInv, Fits
    <3> QED
      BY <3>4, <3>5 DEF Whole, LaidOut
  <2>3. CASE ~RemoveStale(p) /\ ~Land(p)
    <3>1. UNCHANGED store /\ job[p].pc # "remove"
      BY <1>0, <1>2, <2>3 DEF Acts, Step, Provision, FailInstall, CheckPrerequisites,
             Look, LockEntry, Recheck, Clear, Fetch, Fetched, Install, Installed,
             Report, Materialized, Unlink, Link, Linked, WriteEnv, Holding
    <3>2. ~Removed(e)
      BY <2>0, <3>1 DEF Removed
    <3>3. Whole(e)
      BY <1>0, <3>1, <3>2 DEF WholeInv, PartialOnlyByRemoval, Removed, store
    <3> QED
      BY <3>1, <3>3 DEF Whole, store
  <2> QED
    BY <2>1, <2>2, <2>3
<1> QED
  BY <1>1, <1>2

LEMMA WorkIsWhole == Spec => []WholeInv
<1>1. Init => WholeInv
  <2> SUFFICES ASSUME Init
               PROVE  WholeInv
    OBVIOUS
  <2>1. LaidInv
    BY DEF Init, Idle, LaidInv
  <2>2. PartialOnlyByRemoval
    BY DEF Init, PartialOnlyByRemoval
  <2> QED
    BY <2>1, <2>2 DEF WholeInv
<1>2. StoreInv /\ WholeInv /\ [Next]_vars => WholeInv'
  <2> SUFFICES ASSUME StoreInv, WholeInv, [Next]_vars
               PROVE  WholeInv'
    OBVIOUS
  <2>1. CASE UNCHANGED vars
    BY <2>1 DEF vars, WholeInv, LaidInv, LaidOut, Pending, At, Whole,
           PartialOnlyByRemoval
  <2>2. ASSUME NEW p \in Proc, Acts(p)
        PROVE  WholeInv'
    <3>1. LaidInv'
      BY <2>2, LaidStays DEF WholeInv
    <3>2. \A e \in Entry : aborts' = 0 /\ dir'[e] => Whole(e)' \/ Removed(e)'
      BY <2>2, PartialStays
    <3>3. PartialOnlyByRemoval'
      BY <3>2 DEF PartialOnlyByRemoval, Removed
    <3> QED
      BY <3>1, <3>3 DEF WholeInv
  <2> QED
    BY <2>1, <2>2 DEF Next, Acts
<1> QED
  BY <1>1, <1>2, StoreInvariant, PTL DEF Spec

\* While nothing dies, a prefix lacks a file of the description it was built
\* from only while the process that holds its lock removes it.
THEOREM PrefixesAreWhole == Spec => []PartialOnlyByRemoval
  BY WorkIsWhole, PTL DEF WholeInv

-----------------------------------------------------------------------------
(* A name in .forge/bin leads to a file. *)

\* The programs of d are in its entry, or on their way into it.
Assured(d) ==
    \/ Carries(d)
    \/ \E q \in Proc : /\ Replacing(q) /\ At(q) = EntryOf[d]
                       /\ Bins[d] \subseteq Bins[job[q].at]

\* The name of f in entry e is one of a description that is assured.
Leads(e, f) == \E d \in Desc : EntryOf[d] = e /\ f \in Bins[d] /\ Assured(d)

\* Whatever p no longer has to bring in is assured, and it links nothing else.
Brings(p) ==
    /\ \A d \in job[p].plan \ job[p].todo : Assured(d)
    /\ job[p].pc \in {"expose", "link", "env"} => job[p].todo = {}
    /\ job[p].links \subseteq Programs(job[p].plan)
    /\ job[p].pc = "link" =>
          job[p].at \in job[p].plan /\ job[p].hand \subseteq Bins[job[p].at]

LinkInv ==
    aborts = 0 => /\ \A p \in Proc : Brings(p)
                  /\ \A w \in Workspace, f \in File :
                         bin[w][f] # NoEntry => Leads(bin[w][f], f)

\* While nothing dies, whoever replaces an entry goes on until it lands.
LEMMA ReplacingStays ==
    ASSUME StoreInv, NEW p \in Proc, Acts(p), aborts' = 0, Replacing(p), ~Land(p)
    PROVE  Replacing(p)' /\ At(p)' = At(p) /\ job'[p].at = job[p].at
<1>j. job \in [Proc -> Job] /\ job[p] \in Job
  BY DEF StoreInv, TypeOK
<1>0. aborts = 0 /\ ~Kill(p) /\ ~FailInstall(p)
  BY NothingDies
<1>p. job[p].pc \in {"remove", "clear", "fetch", "install", "land"}
  BY DEF Replacing, Holding
<1>g. ASSUME NEW pc \in Pc, Goto(p, pc)
      PROVE  job'[p].pc = pc /\ job'[p].at = job[p].at
  BY <1>g, <1>j DEF Goto, Job
<1>s. SUFFICES /\ job'[p].pc \in {"remove", "clear", "fetch", "install", "land"}
               /\ job'[p].at = job[p].at
  BY <1>s DEF Replacing, Holding, At
<1>1. CASE RemoveStale(p)
  <2>1. UNCHANGED job \/ Goto(p, "clear")
    BY <1>1, Zenon DEF RemoveStale
  <2> QED
    BY <2>1, <1>g, <1>p DEF Pc
<1>2. CASE Clear(p)
  BY <1>2, <1>j DEF Clear, Job
<1>3. CASE Fetch(p)
  <2>1. PICK b \in job[p].fetch :
            job' = [job EXCEPT ![p].fetch = @ \ {b}, ![p].got = @ \cup {b}]
    BY <1>3, NothingDies
  <2>2. job[p].pc = "fetch"
    BY <1>3 DEF Fetch
  <2> QED
    BY <2>1, <2>2, <1>j DEF Job
<1>4. CASE Install(p)
  <2>1. PICK b \in job[p].got : job' = [job EXCEPT ![p].got = @ \ {b}]
    BY <1>4 DEF Install
  <2>2. job[p].pc = "install"
    BY <1>4 DEF Install
  <2> QED
    BY <2>1, <2>2, <1>j DEF Job
<1>5. CASE Fetched(p) \/ Installed(p)
  BY <1>5, <1>g DEF Fetched, Installed, Pc
<1>6. RemoveStale(p) \/ Clear(p) \/ Fetch(p) \/ Fetched(p) \/ Install(p) \/ Installed(p)
  BY <1>0, <1>p DEF Acts, Step, Provision, CheckPrerequisites, Look, LockEntry,
         Recheck, Land, Report, Materialized, Unlink, Link, Linked, WriteEnv
<1> QED
  BY <1>1, <1>2, <1>3, <1>4, <1>5, <1>6

\* What lands carries every program of the description it was staged for.
LEMMA LandsWhole ==
    ASSUME StoreInv, LaidInv, ProgramsLaidOut, NEW p \in Proc, Land(p)
    PROVE  /\ Have(p)
           /\ job[p].at \in Desc
           /\ dir'[At(p)]
           /\ \A f \in Bins[job[p].at] : has'[At(p)][f] # NoArtifact
<1>1. /\ job[p].at \in Desc /\ At(p) \in Entry /\ Holding(p)
      /\ job[p].pc = "land" /\ ~dir[At(p)]
  <2>1. Holding(p) /\ job[p].pc = "land"
    BY DEF Land, Holding
  <2> QED
    BY <2>1, AtIsEntry DEF StoreInv, JobInv, Fits, LockInv, Guards
<1>2. /\ dir' = [dir EXCEPT ![At(p)] = TRUE]
      /\ has' = [has EXCEPT ![At(p)] = staged[Pid[p]][At(p)]]
      /\ Have(p)
  BY <1>1 DEF Land
<1>3. dir'[At(p)] /\ has'[At(p)] = staged[Pid[p]][At(p)]
  BY <1>1, <1>2 DEF StoreInv, TypeOK
<1>4. \A a \in Artifacts[job[p].at] : LaidOut(a, has'[At(p)])
  BY <1>1, <1>3 DEF LaidInv, Pending
<1> QED
  BY <1>1, <1>2, <1>3, <1>4 DEF ProgramsLaidOut, LaidOut

LEMMA AssuredStays ==
    ASSUME StoreInv, LaidInv, Growing, ProgramsLaidOut,
           NEW p \in Proc, Acts(p), aborts' = 0, NEW d \in Desc, Assured(d)
    PROVE  Assured(d)'
<1>a. /\ Holding(p) => At(p) = EntryOf[job[p].at] /\ job[p].at \in Desc
      /\ EntryOf[d] \in Entry
  BY AtIsEntry, RuntimeAssumption DEF StoreInv, JobInv, Fits
<1>1. CASE Land(p) /\ At(p) = EntryOf[d]
  <2>1. ~Carries(d)
    BY <1>1 DEF StoreInv, LockInv, Guards, Land, Carries
  <2>2. PICK q \in Proc : /\ Replacing(q) /\ At(q) = EntryOf[d]
                          /\ Bins[d] \subseteq Bins[job[q].at]
    BY <2>1 DEF Assured
  <2>3. Holding(p)
    BY <1>1 DEF Land, Holding
  <2>4. q = p
    BY <1>1, <2>2, <2>3 DEF Replacing, StoreInv, LockInv, Guards
  <2>5. /\ dir'[EntryOf[d]]
        /\ \A f \in Bins[d] : has'[EntryOf[d]][f] # NoArtifact
    BY <1>1, <2>2, <2>4, LandsWhole
  <2> QED
    BY <2>5 DEF Assured, Carries
<1>2. CASE Replacing(p) /\ At(p) = EntryOf[d] /\ ~Land(p)
  <2>1. Replacing(p)' /\ At(p)' = EntryOf[d] /\ job'[p].at = job[p].at
    BY <1>2, ReplacingStays
  <2>2. CASE Bins[d] \subseteq Bins[job[p].at]
    BY <2>1, <2>2 DEF Assured
  <2>3. CASE ~(Bins[d] \subseteq Bins[job[p].at])
    <3>1. /\ job[p].at \in Desc /\ EntryOf[job[p].at] = EntryOf[d]
          /\ Bins[job[p].at] \subseteq Bins[d]
      BY <1>2, <1>a, <2>3 DEF Growing, Replacing
    <3>2. CASE Carries(d)
      <4>1. Carries(job[p].at)
        BY <3>1, <3>2 DEF Carries
      <4> QED
        BY <1>2, <3>1, <4>1 DEF StoreInv, LockInv, Guards, Carries, Replacing,
               Holding, At
    <3>3. CASE ~Carries(d)
      <4>1. PICK q \in Proc : /\ Replacing(q) /\ At(q) = EntryOf[d]
                              /\ Bins[d] \subseteq Bins[job[q].at]
        BY <3>3 DEF Assured
      <4>2. q = p
        BY <1>2, <4>1 DEF Replacing, StoreInv, LockInv, Guards
      <4> QED
        BY <2>3, <4>1, <4>2
    <3> QED
      BY <3>2, <3>3
  <2> QED
    BY <2>2, <2>3
<1>3. CASE ~(Replacing(p) /\ At(p) = EntryOf[d])
  <2>1. ~Land(p) \/ At(p) # EntryOf[d]
    BY <1>3 DEF Land, Replacing, Holding
  <2>2. CASE Carries(d)
    <3>1. has'[EntryOf[d]] = has[EntryOf[d]] /\ dir'[EntryOf[d]] = dir[EntryOf[d]]
      <4>1. CASE ~(Holding(p) /\ At(p) = EntryOf[d])
        BY <1>a, <4>1, EntriesStay DEF Kept, StoreInv
      <4>2. CASE job[p].pc = "recheck"
        BY <4>2 DEF Acts, Step, Provision, FailInstall, Kill, CheckPrerequisites,
               Look, LockEntry, Recheck, RemoveStale, Clear, Fetch, Fetched, Install,
               Installed, Land, Report, Materialized, Unlink, Link, Linked, WriteEnv, store
      <4> QED
        BY <1>3, <4>1, <4>2 DEF Replacing
    <3> QED
      BY <2>2, <3>1 DEF Assured, Carries
  <2>3. CASE ~Carries(d)
    <3>1. PICK q \in Proc : /\ Replacing(q) /\ At(q) = EntryOf[d]
                            /\ Bins[d] \subseteq Bins[job[q].at]
      BY <2>3 DEF Assured
    <3>2. q # p
      BY <1>3, <3>1
    <3>3. job'[q] = job[q]
      BY <3>2, OthersStay DEF StoreInv
    <3> QED
      BY <3>1, <3>3 DEF Assured, Replacing, Holding, At
  <2> QED
    BY <2>2, <2>3
<1> QED
  BY <1>1, <1>2, <1>3 DEF Land, Replacing, Holding

\* A step that goes on with the plan keeps what p brings.
GoesOn(p) ==
    /\ job'[p].plan = job[p].plan
    /\ job'[p].todo = job[p].todo
    /\ job'[p].links = job[p].links
    /\ job'[p].pc # "link"
    /\ job'[p].pc \in {"expose", "env"} => job[p].pc \in {"expose", "link", "env"}

LEMMA OwnBrings ==
    ASSUME StoreInv, LaidInv, Growing, ProgramsLaidOut,
           NEW p \in Proc, Acts(p), aborts' = 0, Brings(p)
    PROVE  Brings(p)'
<1>j. /\ job \in [Proc -> Job] /\ job[p] \in Job
      /\ job[p].plan \subseteq Desc
  BY DEF StoreInv, TypeOK, Job
<1>0. aborts = 0 /\ ~Kill(p) /\ ~FailInstall(p)
  BY NothingDies
<1>a. \A d \in Desc : Assured(d) => Assured(d)'
  BY AssuredStays
<1>o. ASSUME GoesOn(p)
      PROVE  Brings(p)'
  <2>1. \A d \in job'[p].plan \ job'[p].todo : Assured(d)'
    BY <1>o, <1>a, <1>j DEF Brings, GoesOn
  <2>2. /\ job'[p].pc \in {"expose", "link", "env"} => job'[p].todo = {}
        /\ job'[p].links \subseteq Programs(job'[p].plan)
        /\ job'[p].pc # "link"
    BY <1>o DEF Brings, GoesOn
  <2> QED
    BY <2>1, <2>2 DEF Brings, Programs
<1>g. ASSUME NEW pc \in Pc, Goto(p, pc), pc # "link",
             pc \in {"expose", "env"} => job[p].pc \in {"expose", "link", "env"}
      PROVE  Brings(p)'
  <2>1. GoesOn(p)
    BY <1>g, <1>j DEF Goto, Job, GoesOn
  <2> QED
    BY <2>1, <1>o
<1>l. ASSUME Leave(p)
      PROVE  Brings(p)'
  <2>1. job'[p] = Idle
    BY <1>l, <1>j DEF Leave
  <2> QED
    BY <2>1 DEF Brings, Idle, Programs
<1>h. ASSUME Have(p), \A d \in Desc : d = job[p].at => Assured(d)'
      PROVE  Brings(p)'
  <2>1. /\ job'[p].plan = job[p].plan /\ job'[p].links = job[p].links
        /\ job'[p].todo = job[p].todo \ {job[p].at}
        /\ job'[p].pc = "look"
    BY <1>h, <1>j DEF Have, Job
  <2>2. ASSUME NEW d \in job'[p].plan \ job'[p].todo
        PROVE  Assured(d)'
    <3>1. CASE d = job[p].at
      BY <1>h, <1>j, <2>1, <2>2, <3>1
    <3>2. CASE d # job[p].at
      BY <1>a, <1>j, <2>1, <2>2, <3>2 DEF Brings
    <3> QED
      BY <3>1, <3>2
  <2>3. job'[p].links \subseteq Programs(job'[p].plan)
    BY <2>1 DEF Brings
  <2> QED
    BY <2>1, <2>2, <2>3 DEF Brings, Programs
<1>1. CASE Provision(p)
  <2>1. PICK w \in Workspace, plan \in Plans :
            job' = [job EXCEPT ![p] =
                [Idle EXCEPT !.pc = "check", !.ws = w, !.plan = plan, !.todo = plan]]
    BY <1>1 DEF Provision
  <2>2. job'[p] = [Idle EXCEPT !.pc = "check", !.ws = w, !.plan = plan, !.todo = plan]
    BY <2>1, <1>j
  <2>3. /\ job'[p].plan = job'[p].todo /\ job'[p].links = {}
        /\ job'[p].pc = "check"
    BY <2>2 DEF Idle
  <2> QED
    BY <2>3 DEF Brings
<1>2. CASE CheckPrerequisites(p) \/ LockEntry(p) \/ Fetched(p) \/ Installed(p) \/ Linked(p)
  <2>1. \/ \E pc \in {"look", "refused", "recheck", "install", "land"} : Goto(p, pc)
        \/ Goto(p, "env") /\ job[p].pc = "expose"
    BY <1>2 DEF CheckPrerequisites, LockEntry, Fetched, Installed, Linked
  <2> QED
    BY <2>1, <1>g DEF Pc
<1>3. CASE Report(p) \/ WriteEnv(p)
  BY <1>3, <1>l DEF Report, WriteEnv
<1>4. CASE Look(p)
  <2>1. PICK d \in Desc :
            job' = IF Carries(d) THEN [job EXCEPT ![p].todo = @ \ {d}]
                   ELSE [job EXCEPT ![p].at = d, ![p].pc = "lock"]
    BY <1>4 DEF Look
  <2>2. CASE Carries(d)
    <3>1. /\ job'[p].plan = job[p].plan /\ job'[p].links = job[p].links
          /\ job'[p].todo = job[p].todo \ {d}
          /\ job'[p].pc = "look"
      BY <1>4, <2>1, <2>2, <1>j DEF Look, Job
    <3>2. Assured(d)'
      BY <1>a, <2>2 DEF Assured
    <3>3. \A c \in job'[p].plan \ job'[p].todo : Assured(c)'
      BY <1>a, <1>j, <3>1, <3>2 DEF Brings
    <3>4. job'[p].links \subseteq Programs(job'[p].plan)
      BY <3>1 DEF Brings
    <3> QED
      BY <3>1, <3>3, <3>4 DEF Brings, Programs
  <2>3. CASE ~Carries(d)
    <3>1. GoesOn(p)
      BY <2>1, <2>3, <1>j DEF Job, GoesOn
    <3> QED
      BY <3>1, <1>o
  <2> QED
    BY <2>2, <2>3
<1>5. CASE Recheck(p)
  <2>1. CASE Carries(job[p].at)
    <3>1. \A d \in Desc : d = job[p].at => Assured(d)'
      BY <2>1, <1>a DEF Assured
    <3> QED
      BY <1>5, <2>1, <3>1, <1>h DEF Recheck
  <2>2. CASE ~Carries(job[p].at)
    BY <1>5, <2>2, <1>g DEF Recheck, Pc
  <2> QED
    BY <2>1, <2>2
<1>6. CASE RemoveStale(p)
  <2>1. UNCHANGED job \/ Goto(p, "clear")
    BY <1>6, Zenon DEF RemoveStale
  <2>2. CASE UNCHANGED job
    <3>1. GoesOn(p)
      BY <1>6, <2>2 DEF GoesOn, RemoveStale
    <3> QED
      BY <3>1, <1>o
  <2> QED
    BY <2>1, <2>2, <1>g DEF Pc
<1>7. CASE Clear(p) \/ Install(p)
  <2>1. GoesOn(p)
    <3>1. CASE Clear(p)
      BY <3>1, <1>j DEF Clear, GoesOn, Job
    <3>2. CASE Install(p)
      BY <3>2, <1>j DEF Install, GoesOn, Job
    <3> QED
      BY <1>7, <3>1, <3>2
  <2> QED
    BY <2>1, <1>o
<1>8. CASE Fetch(p)
  <2>1. PICK b \in job[p].fetch :
            job' = [job EXCEPT ![p].fetch = @ \ {b}, ![p].got = @ \cup {b}]
    BY <1>8, NothingDies
  <2>2. job[p].pc = "fetch"
    BY <1>8 DEF Fetch
  <2>3. GoesOn(p)
    BY <2>1, <2>2, <1>j DEF GoesOn, Job
  <2> QED
    BY <2>3, <1>o
<1>9. CASE Land(p)
  <2>1. /\ Have(p) /\ job[p].at \in Desc
        /\ dir'[At(p)] /\ \A f \in Bins[job[p].at] : has'[At(p)][f] # NoArtifact
    BY <1>9, LandsWhole
  <2>2. At(p) = EntryOf[job[p].at]
    BY <1>9, AtIsEntry DEF StoreInv, Land, Holding
  <2>3. \A d \in Desc : d = job[p].at => Assured(d)'
    BY <2>1, <2>2 DEF Assured, Carries
  <2> QED
    BY <2>1, <2>3, <1>h
<1>10. CASE Materialized(p)
  <2>1. /\ job'[p].plan = job[p].plan /\ job'[p].todo = {} /\ job[p].todo = {}
        /\ job'[p].links = Programs(job[p].plan)
        /\ job'[p].pc = "expose"
    BY <1>10, <1>j DEF Materialized, Job
  <2>2. \A d \in job'[p].plan \ job'[p].todo : Assured(d)'
    BY <2>1, <1>a, <1>j DEF Brings
  <2> QED
    BY <2>1, <2>2 DEF Brings, Programs
<1>11. CASE Unlink(p)
  <2>1. PICK l \in NextLink(p) :
            job' = [job EXCEPT ![p].links = @ \ {l}, ![p].at = l[1],
                               ![p].hand = {l[2]}, ![p].pc = "link"]
    BY <1>11 DEF Unlink
  <2>2. /\ job'[p].plan = job[p].plan /\ job'[p].todo = job[p].todo
        /\ job'[p].links = job[p].links \ {l}
        /\ job'[p].at = l[1] /\ job'[p].hand = {l[2]}
        /\ job'[p].pc = "link" /\ job[p].pc = "expose"
    BY <1>11, <2>1, <1>j DEF Unlink, Job
  <2>3. l[1] \in job[p].plan /\ l[2] \in Bins[l[1]]
    BY DEF NextLink, Brings, Programs
  <2>4. \A d \in job'[p].plan \ job'[p].todo : Assured(d)'
    BY <2>2, <1>a, <1>j DEF Brings
  <2>5. /\ job'[p].todo = {}
        /\ job'[p].links \subseteq Programs(job'[p].plan)
        /\ job'[p].at \in job'[p].plan /\ job'[p].hand \subseteq Bins[job'[p].at]
    BY <2>2, <2>3 DEF Brings
  <2> QED
    BY <2>4, <2>5 DEF Brings, Programs
<1>12. CASE Link(p)
  <2>1. \/ Goto(p, "refused")
        \/ job' = [job EXCEPT ![p].at = NoDesc, ![p].hand = {}, ![p].pc = "expose"]
    BY <1>12 DEF Link
  <2>2. CASE job' = [job EXCEPT ![p].at = NoDesc, ![p].hand = {}, ![p].pc = "expose"]
    <3>1. GoesOn(p)
      BY <1>12, <2>2, <1>j DEF Link, GoesOn, Job
    <3> QED
      BY <3>1, <1>o
  <2> QED
    BY <2>1, <2>2, <1>g DEF Pc
<1>13. Provision(p) \/ Step(p)
  BY <1>0 DEF Acts
<1> QED
  BY <1>1, <1>2, <1>3, <1>4, <1>5, <1>6, <1>7, <1>8, <1>9, <1>10, <1>11, <1>12,
     <1>13, Zenon DEF Step

\* What a workspace's names lead to stays assured, and a new link is as well.
LEMMA LinkStays ==
    ASSUME StoreInv, LaidInv, Growing, ProgramsLaidOut, LinkInv,
           NEW p \in Proc, Acts(p), aborts' = 0,
           NEW w \in Workspace, NEW f \in File, bin'[w][f] # NoEntry
    PROVE  \E d \in Desc : EntryOf[d] = bin'[w][f] /\ f \in Bins[d] /\ Assured(d)'
<1>0. aborts = 0
  BY NothingDies
<1>a. \A d \in Desc : Assured(d) => Assured(d)'
  BY AssuredStays
<1>b. bin \in [Workspace -> [File -> Entry \cup {NoEntry}]] /\ job[p] \in Job
  BY DEF StoreInv, TypeOK
<1>1. CASE bin'[w][f] = bin[w][f]
  BY <1>0, <1>1, <1>a DEF LinkInv, Leads
<1>2. CASE bin'[w][f] # bin[w][f]
  <2>1. Unlink(p) \/ Link(p)
    BY <1>2 DEF Acts, Step, Provision, FailInstall, Kill, CheckPrerequisites,
           Look, LockEntry, Recheck, RemoveStale, Clear, Fetch, Fetched, Install,
           Installed, Land, Report, Materialized, Linked, WriteEnv, exposed
  <2>2. ~Unlink(p)
    <3>1. ASSUME Unlink(p)
          PROVE  FALSE
      <4>1. PICK l \in NextLink(p) : bin' = [bin EXCEPT ![job[p].ws][l[2]] = NoEntry]
        BY <3>1 DEF Unlink
      <4> QED
        BY <1>2, <1>b, <4>1
    <3> QED
      BY <3>1
  <2>3. PICK g \in job[p].hand : bin' = [bin EXCEPT ![job[p].ws][g] = At(p)]
    BY <1>2, <2>1, <2>2 DEF Link
  <2>4. f = g /\ bin'[w][f] = At(p)
    BY <1>2, <1>b, <2>3
  <2>5. /\ job[p].pc = "link" /\ At(p) = EntryOf[job[p].at] /\ job[p].at \in Desc
    BY <2>1, <2>2, AtIsEntry DEF Link, StoreInv, JobInv, Fits
  <2>6. job[p].at \in job[p].plan \ job[p].todo /\ f \in Bins[job[p].at]
    BY <1>0, <2>3, <2>4, <2>5 DEF LinkInv, Brings
  <2>7. Assured(job[p].at)
    BY <1>0, <2>6 DEF LinkInv, Brings
  <2>8. \A d \in Desc : d = job[p].at => Assured(d)'
    BY <1>a, <2>7
  <2> QED
    BY <2>4, <2>5, <2>6, <2>8
<1> QED
  BY <1>1, <1>2

LEMMA NextLinks ==
    ASSUME Growing, ProgramsLaidOut
    PROVE  StoreInv /\ LaidInv /\ LinkInv /\ [Next]_vars => LinkInv'
<1> SUFFICES ASSUME StoreInv, LaidInv, LinkInv, [Next]_vars
             PROVE  LinkInv'
  OBVIOUS
<1>1. CASE UNCHANGED vars
  <2>1. UNCHANGED <<job, has, dir, bin, lock, aborts>>
    BY <1>1 DEF vars
  <2>2. \A p : Replacing(p)' = Replacing(p) /\ At(p)' = At(p)
    BY <2>1 DEF Replacing, Holding, At
  <2>3. \A d : Assured(d)' = Assured(d)
    BY <2>1, <2>2 DEF Assured, Carries
  <2>4. \A p : Brings(p)' = Brings(p)
    BY <2>1, <2>3 DEF Brings
  <2>5. \A e, f : Leads(e, f)' = Leads(e, f)
    BY <2>3 DEF Leads
  <2> QED
    BY <2>1, <2>4, <2>5 DEF LinkInv
<1>2. ASSUME NEW p \in Proc, Acts(p), aborts' = 0
      PROVE  LinkInv'
  <2>1. ASSUME NEW q \in Proc
        PROVE  Brings(q)'
    <3>0. Brings(q)
      BY <1>2, NothingDies DEF LinkInv
    <3>1. CASE q = p
      BY <1>2, <3>0, <3>1, OwnBrings
    <3>2. CASE q # p
      <4>1. job'[q] = job[q]
        BY <1>2, <3>2, OthersStay DEF StoreInv
      <4>2. \A d \in Desc : Assured(d) => Assured(d)'
        BY <1>2, AssuredStays
      <4>3. job[q].plan \subseteq Desc
        BY DEF StoreInv, TypeOK, Job
      <4>4. \A d \in job'[q].plan \ job'[q].todo : Assured(d)'
        BY <3>0, <4>1, <4>2, <4>3 DEF Brings
      <4> QED
        BY <3>0, <4>1, <4>4 DEF Brings, Programs
    <3> QED
      BY <3>1, <3>2
  <2>2. \A w \in Workspace, f \in File : bin'[w][f] # NoEntry =>
            \E d \in Desc : EntryOf[d] = bin'[w][f] /\ f \in Bins[d] /\ Assured(d)'
    BY <1>2, LinkStays
  <2> QED
    BY <2>1, <2>2 DEF LinkInv, Leads
<1>3. CASE aborts' # 0
  BY <1>3 DEF LinkInv
<1> QED
  BY <1>1, <1>2, <1>3 DEF Next, Acts

\* While nothing dies, a name in .forge/bin leads to a file or to an entry that
\* somebody replaces: of two engines the one that knows fewer programs never
\* takes an entry from the other, and what lands has every program.  It needs
\* engines of which one knows all that the other does: two that each know a
\* program of their own would replace the entry in turn.
THEOREM NamesLeadToFiles ==
    ASSUME Growing, ProgramsLaidOut
    PROVE  Spec => []LinksLeadToFiles
<1>1. Init => LinkInv
  BY DEF Init, Idle, LinkInv, Brings
<1>2. StoreInv /\ LaidInv /\ LinkInv /\ [Next]_vars => LinkInv'
  BY NextLinks
<1>3. StoreInv /\ LinkInv => LinksLeadToFiles
  <2> SUFFICES ASSUME StoreInv, LinkInv, aborts = 0,
                      NEW w \in Workspace, NEW f \in File, bin[w][f] # NoEntry
               PROVE  \/ has[bin[w][f]][f] # NoArtifact
                      \/ \E p \in Proc : At(p) = bin[w][f] /\ Replacing(p)
    BY DEF LinksLeadToFiles
  <2>1. PICK d \in Desc : EntryOf[d] = bin[w][f] /\ f \in Bins[d] /\ Assured(d)
    BY DEF LinkInv, Leads
  <2> QED
    BY <2>1 DEF Assured, Carries
<1> QED
  BY <1>1, <1>2, <1>3, StoreInvariant, WorkIsWhole, PTL DEF Spec, WholeInv
=============================================================================
