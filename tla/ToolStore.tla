----------------------------- MODULE ToolStore ------------------------------
(***************************************************************************)
(* The store of tool binaries that every workspace and job of a user       *)
(* shares, ~/.cache/forge/store (internal/controller/toolingcontroller).   *)
(* Apply takes the tools of a published revision: each binary is verified, *)
(* staged under tmp/ and renamed to the blob of its digest, a view of the  *)
(* revision links to the blobs, and the workspace's .forge/bin to the      *)
(* view.  ProvisionBinaries builds a pinned binary under the lock of its   *)
(* store entry and links it.                                               *)
(*                                                                         *)
(* A blob is known by its digest alone, so equal digests are equal bytes.  *)
(* The tools of an index are visited in any order.  A failed fetch, a      *)
(* mismatching digest and a failed build change nothing and count as       *)
(* aborts.  A builder's staging names carry its process id, so what it     *)
(* stages is its own until the rename.  index.json and tooling.json are    *)
(* written last and read by nothing here: they are left out.               *)
(***************************************************************************)
EXTENDS Naturals

CONSTANTS
    Proc,       \* forge-factory processes
    Nobody,     \* "no process"
    Workspace,  \* workspaces of the user
    Nowhere,    \* "no workspace"
    Revision,   \* published revisions of the distribution
    NoRevision, \* "no revision"
    Tool,       \* names of distributed tools
    Digest,     \* digests of binaries
    NoDigest,   \* "no digest"
    Index,      \* Index[r][t]: the digest revision r pins for t
    Entry,      \* store entries of built binaries, <module>@<version>/<platform>
    NoName,     \* "neither a tool nor an entry"
    Builds,     \* Builds[e]: the digests a build of e may have
    MaxJobs,    \* bound: jobs started
    MaxAborts   \* bound: jobs killed or failing on their own

Name == Tool \cup Entry

ASSUME StoreAssumption ==
    /\ Nobody \notin Proc
    /\ Nowhere \notin Workspace
    /\ NoRevision \notin Revision
    /\ "entry" \notin Revision \cup {NoRevision}
    /\ NoDigest \notin Digest
    /\ NoName \notin Name
    /\ Tool \cap Entry = {}
    /\ Index \in [Revision -> [Tool -> Digest]]
    /\ Builds \in [Entry -> SUBSET Digest]

ASSUME StoreBounds == MaxJobs \in Nat /\ MaxAborts \in Nat

VARIABLES
    superuser,  \* whether the processes run as root, as in most containers
    stage,      \* stage[d]: the file tmp/<d>
    blob,       \* blob[d]: the file blobs/sha256/<d>
    view,       \* view[r]: the tools linked in the view of revision r
    entry,      \* entry[e]: the blob the link of e names, or NoDigest
    bin,        \* bin[w]: what the names in .forge/bin of w link to
    lock,       \* lock[e]: who holds the file lock of e
    job,        \* job[p]: what process p is doing
    started,    \* how many jobs were started
    aborts      \* how many of them were cut short

vars == <<superuser, stage, blob, view, entry, bin, lock, job, started, aborts>>
files == <<stage, blob>>
links == <<view, entry, bin>>
rest == <<superuser, started, aborts>>

-----------------------------------------------------------------------------
State == {"absent", "partial", "whole"}

\* The view of a revision, an entry of the store, or no link.
Target == Revision \cup {NoRevision, "entry"}

Pc == {"idle", "look", "stage", "fill", "rename", "unlinkview", "linkview",
       "find", "lock", "recheck", "build", "land", "name",
       "unlinkbin", "linkbin", "refused"}

\* phase: what Apply is linking; hand: where the file p is writing is by now.
Job == [pc : Pc, phase : {"view", "bin"}, ws : Workspace \cup {Nowhere},
        to : Target, todo : SUBSET Name, at : Name \cup {NoName},
        digest : Digest \cup {NoDigest}, hand : {"stage", "blob", "lost"}]

Idle == [pc |-> "idle", phase |-> "view", ws |-> Nowhere, to |-> NoRevision,
         todo |-> {}, at |-> NoName, digest |-> NoDigest, hand |-> "stage"]

\* The type of every variable, and the bounds of the counters.
TypeOK ==
    /\ superuser \in BOOLEAN
    /\ stage \in [Digest -> State]
    /\ blob \in [Digest -> State]
    /\ view \in [Revision -> SUBSET Tool]
    /\ entry \in [Entry -> Digest \cup {NoDigest}]
    /\ bin \in [Workspace -> [Name -> Target]]
    /\ lock \in [Entry -> Proc \cup {Nobody}]
    /\ job \in [Proc -> Job]
    /\ started \in 0..MaxJobs
    /\ aborts \in 0..MaxAborts

Init ==
    /\ superuser \in BOOLEAN
    /\ stage = [d \in Digest |-> "absent"]
    /\ blob = [d \in Digest |-> "absent"]
    /\ view = [r \in Revision |-> {}]
    /\ entry = [e \in Entry |-> NoDigest]
    /\ bin = [w \in Workspace |-> [n \in Name |-> NoRevision]]
    /\ lock = [e \in Entry |-> Nobody]
    /\ job = [p \in Proc |-> Idle]
    /\ started = 0
    /\ aborts = 0

Goto(p, pc) == job' = [job EXCEPT ![p].pc = pc]

\* The section of buildBinary between Lock and its release.
Building(p) == job[p].pc \in {"recheck", "build", "land", "name"}

-----------------------------------------------------------------------------
(* Jobs start and end. *)

Start(p, j) ==
    /\ job[p].pc = "idle"
    /\ started < MaxJobs
    /\ started' = started + 1
    /\ job' = [job EXCEPT ![p] = j]
    /\ UNCHANGED <<superuser, files, links, lock, aborts>>

Apply(p) ==
    \E w \in Workspace, r \in Revision :
        Start(p, [Idle EXCEPT !.pc = "look", !.ws = w, !.to = r, !.todo = Tool])

ProvisionBinary(p) ==
    \E w \in Workspace, e \in Entry :
        Start(p, [Idle EXCEPT !.pc = "find", !.ws = w, !.to = "entry",
                              !.at = e, !.phase = "bin"])

\* The lock p holds is released, by its deferred call or by the kernel.
Leave(p) ==
    /\ job' = [job EXCEPT ![p] = Idle]
    /\ lock' = [e \in Entry |-> IF lock[e] = p THEN Nobody ELSE lock[e]]

\* p is killed, or its mirror, its disk or its build fails.
Abort(p) ==
    /\ job[p].pc \notin {"idle", "refused"}
    /\ aborts < MaxAborts
    /\ aborts' = aborts + 1
    /\ Leave(p)
    /\ UNCHANGED <<superuser, files, links, started>>

\* A call of p failed on what another process did; p reports it and exits.
Report(p) ==
    /\ job[p].pc = "refused"
    /\ Leave(p)
    /\ UNCHANGED <<files, links, rest>>

-----------------------------------------------------------------------------
(* Apply: the blobs and the view. *)

\* Faulty: a tool whose blob stands needs no link either.
LookSkipping(p) ==
    /\ job[p].pc = "look" /\ job[p].phase = "view"
    /\ \E t \in job[p].todo :
           LET d == Index[job[p].to][t]
           IN job' = IF blob[d] # "absent" THEN [job EXCEPT ![p].todo = @ \ {t}]
                     ELSE [job EXCEPT ![p].at = t, ![p].digest = d,
                                      ![p].pc = "stage"]
    /\ UNCHANGED <<files, links, lock, rest>>

\* A digest that has a blob needs no fetch.
Look(p) ==
    /\ job[p].pc = "look" /\ job[p].phase = "view"
    /\ \E t \in job[p].todo :
           LET d == Index[job[p].to][t]
           IN job' = [job EXCEPT ![p].at = t, ![p].digest = d,
                         ![p].pc = IF blob[d] # "absent"
                                   THEN "unlinkview" ELSE "stage"]
    /\ UNCHANGED <<files, links, lock, rest>>

\* Faulty: the staging file is left writable by its owner.
OpenStageWritable(p) ==
    /\ job[p].pc = "stage"
    /\ stage' = [stage EXCEPT ![job[p].digest] = "partial"]
    /\ job' = [job EXCEPT ![p].pc = "fill", ![p].hand = "stage"]
    /\ UNCHANGED <<blob, links, lock, rest>>

\* os.WriteFile opens the staging file with mode 0555, truncating it: a file
\* that stands can be opened again by root alone.
OpenStage(p) ==
    /\ job[p].pc = "stage"
    /\ IF superuser \/ stage[job[p].digest] = "absent"
       THEN /\ stage' = [stage EXCEPT ![job[p].digest] = "partial"]
            /\ job' = [job EXCEPT ![p].pc = "fill", ![p].hand = "stage"]
       ELSE /\ Goto(p, "refused")
            /\ UNCHANGED stage
    /\ UNCHANGED <<blob, links, lock, rest>>

\* The bytes go to the file that was opened, wherever it has been moved.
Fill(p) ==
    /\ job[p].pc = "fill"
    /\ stage' = IF job[p].hand = "stage"
                THEN [stage EXCEPT ![job[p].digest] = "whole"] ELSE stage
    /\ blob' = IF job[p].hand = "blob"
               THEN [blob EXCEPT ![job[p].digest] = "whole"] ELSE blob
    /\ Goto(p, "rename")
    /\ UNCHANGED <<links, lock, rest>>

\* Where a file another process writes is after a rename of the staging file.
Moved(hand) == IF hand = "stage" THEN "blob" ELSE "lost"

Rename(p) ==
    LET d == job[p].digest
    IN  /\ job[p].pc = "rename"
        /\ IF stage[d] = "absent"
           THEN /\ Goto(p, "refused")
                /\ UNCHANGED files
           ELSE /\ blob' = [blob EXCEPT ![d] = stage[d]]
                /\ stage' = [stage EXCEPT ![d] = "absent"]
                /\ job' = [q \in Proc |->
                       IF q = p THEN [job[p] EXCEPT !.pc = "unlinkview"]
                       ELSE IF job[q].pc = "fill" /\ job[q].digest = d
                       THEN [job[q] EXCEPT !.hand = Moved(@)]
                       ELSE job[q]]
        /\ UNCHANGED <<links, lock, rest>>

\* Symlink removes the link and makes it again; a link that came back
\* meanwhile is an error.
UnlinkView(p) ==
    /\ job[p].pc = "unlinkview"
    /\ view' = [view EXCEPT ![job[p].to] = @ \ {job[p].at}]
    /\ Goto(p, "linkview")
    /\ UNCHANGED <<files, entry, bin, lock, rest>>

LinkView(p) ==
    LET t == job[p].at
        r == job[p].to
    IN  /\ job[p].pc = "linkview"
        /\ IF t \in view[r]
           THEN /\ Goto(p, "refused")
                /\ UNCHANGED view
           ELSE /\ view' = [view EXCEPT ![r] = @ \cup {t}]
                /\ job' = [job EXCEPT ![p].todo = @ \ {t}, ![p].pc = "look"]
        /\ UNCHANGED <<files, entry, bin, lock, rest>>

\* The whole view is linked: the workspace is next.
Viewed(p) ==
    /\ job[p].pc = "look" /\ job[p].phase = "view"
    /\ job[p].todo = {}
    /\ job' = [job EXCEPT ![p].phase = "bin", ![p].todo = Tool]
    /\ UNCHANGED <<files, links, lock, rest>>

-----------------------------------------------------------------------------
(* ProvisionBinaries: one entry, built at most once. *)

\* Whether the link of e resolves.
Built(e) == entry[e] # NoDigest /\ blob[entry[e]] # "absent"

Find(p) ==
    /\ job[p].pc = "find"
    /\ Goto(p, IF Built(job[p].at) THEN "unlinkbin" ELSE "lock")
    /\ UNCHANGED <<files, links, lock, rest>>

LockEntry(p) ==
    /\ job[p].pc = "lock"
    /\ lock[job[p].at] = Nobody
    /\ lock' = [lock EXCEPT ![job[p].at] = p]
    /\ Goto(p, "recheck")
    /\ UNCHANGED <<files, links, rest>>

Unlock(p) == lock' = [lock EXCEPT ![job[p].at] = Nobody]

\* Faulty: the entry is not looked for again under the lock.
RecheckNothing(p) ==
    /\ job[p].pc = "recheck"
    /\ Goto(p, "build")
    /\ UNCHANGED <<files, links, lock, rest>>

\* The loser of a race finds the winner's build.
Recheck(p) ==
    /\ job[p].pc = "recheck"
    /\ IF Built(job[p].at)
       THEN Goto(p, "unlinkbin") /\ Unlock(p)
       ELSE Goto(p, "build") /\ UNCHANGED lock
    /\ UNCHANGED <<files, links, rest>>

\* Faulty: the binary is named and never landed.
BuildNaming(p) ==
    /\ job[p].pc = "build"
    /\ \E d \in Builds[job[p].at] :
           job' = [job EXCEPT ![p].digest = d, ![p].pc = "name"]
    /\ UNCHANGED <<files, links, lock, rest>>

\* go install leaves one binary; its digest is known only now.
Build(p) ==
    /\ job[p].pc = "build"
    /\ \E d \in Builds[job[p].at] :
           job' = [job EXCEPT ![p].digest = d,
                      ![p].pc = IF blob[d] # "absent" THEN "name" ELSE "land"]
    /\ UNCHANGED <<files, links, lock, rest>>

\* The staged copy is p's own and whole when it is renamed.
Land(p) ==
    LET d == job[p].digest
    IN  /\ job[p].pc = "land"
        /\ blob' = [blob EXCEPT ![d] = "whole"]
        /\ job' = [q \in Proc |->
               IF q = p THEN [job[p] EXCEPT !.pc = "name"]
               ELSE IF job[q].pc = "fill" /\ job[q].digest = d /\ job[q].hand = "blob"
               THEN [job[q] EXCEPT !.hand = "lost"]
               ELSE job[q]]
        /\ UNCHANGED <<stage, links, lock, rest>>

NameEntry(p) ==
    /\ job[p].pc = "name"
    /\ entry' = [entry EXCEPT ![job[p].at] = job[p].digest]
    /\ Unlock(p)
    /\ Goto(p, "unlinkbin")
    /\ UNCHANGED <<files, view, bin, rest>>

-----------------------------------------------------------------------------
(* The workspace's .forge/bin. *)

LookBin(p) ==
    /\ job[p].pc = "look" /\ job[p].phase = "bin"
    /\ \E t \in job[p].todo :
           job' = [job EXCEPT ![p].at = t, ![p].pc = "unlinkbin"]
    /\ UNCHANGED <<files, links, lock, rest>>

UnlinkBin(p) ==
    /\ job[p].pc = "unlinkbin"
    /\ bin' = [bin EXCEPT ![job[p].ws][job[p].at] = NoRevision]
    /\ Goto(p, "linkbin")
    /\ UNCHANGED <<files, view, entry, lock, rest>>

\* Faulty: the workspace links to the blob itself.
LinkBinBlob(p) ==
    /\ job[p].pc = "linkbin"
    /\ bin' = [bin EXCEPT ![job[p].ws][job[p].at] = job[p].digest]
    /\ job' = [job EXCEPT ![p].todo = @ \ {job[p].at}, ![p].pc = "look"]
    /\ UNCHANGED <<files, view, entry, lock, rest>>

LinkBin(p) ==
    LET n == job[p].at
        w == job[p].ws
    IN  /\ job[p].pc = "linkbin"
        /\ IF bin[w][n] # NoRevision
           THEN /\ Goto(p, "refused")
                /\ UNCHANGED bin
           ELSE /\ bin' = [bin EXCEPT ![w][n] = job[p].to]
                /\ job' = [job EXCEPT ![p].todo = @ \ {n}, ![p].pc = "look"]
        /\ UNCHANGED <<files, view, entry, lock, rest>>

Linked(p) ==
    /\ job[p].pc = "look" /\ job[p].phase = "bin"
    /\ job[p].todo = {}
    /\ Leave(p)
    /\ UNCHANGED <<files, links, rest>>

-----------------------------------------------------------------------------

Step(p) ==
    \/ Look(p) \/ OpenStage(p) \/ Fill(p) \/ Rename(p)
    \/ UnlinkView(p) \/ LinkView(p) \/ Viewed(p)
    \/ Find(p) \/ LockEntry(p) \/ Recheck(p) \/ Build(p) \/ Land(p)
    \/ NameEntry(p)
    \/ LookBin(p) \/ UnlinkBin(p) \/ LinkBin(p) \/ Linked(p) \/ Report(p)

Next == \E p \in Proc : Apply(p) \/ ProvisionBinary(p) \/ Step(p) \/ Abort(p)

Spec == Init /\ [][Next]_vars

-----------------------------------------------------------------------------
(* Properties. *)

\* Under an ordinary user no blob is ever half written, whoever stages it at
\* the same time and whoever dies: the exclusive open that mode 0555 amounts
\* to stands in for the lock Apply does not take.
UserBlobsWhole == ~superuser => \A d \in Digest : blob[d] # "partial"

\* No link of .forge/bin to a built binary, and no link of a view to a blob,
\* ever dangles, whatever overlapped or was cut short before; for an ordinary
\* user the blob is then whole, by UserBlobsWhole.
LinksLeadToBlobs ==
    /\ \A w \in Workspace, e \in Entry : bin[w][e] = "entry" => Built(e)
    /\ \A r \in Revision : \A t \in view[r] : blob[Index[r][t]] # "absent"

\* Two builds of one entry never overlap, and its link never changes once it
\* is there: "instead of both building and the last symlink silently winning".
EntriesBuiltOnce ==
    [][\A e \in Entry : entry[e] # NoDigest => entry'[e] = entry[e]]_vars

\* While nothing dies, a tool that a workspace links to is missing from the
\* view only between the two calls of some process's Symlink.
GapsAreClosed ==
    aborts = 0 =>
        \A w \in Workspace, r \in Revision, t \in Tool :
            bin[w][t] = r /\ t \notin view[r] =>
                \E p \in Proc : /\ job[p].pc = "linkview"
                                /\ job[p].to = r /\ job[p].at = t
=============================================================================
