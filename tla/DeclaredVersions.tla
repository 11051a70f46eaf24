-------------------------- MODULE DeclaredVersions --------------------------
(***************************************************************************)
(* The merged files of a workspace: each Go member's go.mod, in which      *)
(* forge-factory owns the versions of the modules it declares and a person *)
(* owns the rest (synccontroller's guardDeclaredVersions and entryOf, the  *)
(* Go engine of rendercontroller, internal/util/gomod).  A sync renders    *)
(* each go.mod from what is on disk, writes it under a guard that compares *)
(* versions, tidies and records the versions the tidy left; a lock only    *)
(* guards, tidies and records.                                             *)
(*                                                                         *)
(* A go.mod is the versions it requires, 0 for a module it does not; one   *)
(* that is missing requires nothing, and keeps the versions the record had *)
(* of it until it is there again.  Versions are numbers in their order.    *)
(* One job runs at a time: RenderRecord has the overlaps.  A go.mod that   *)
(* cannot be read or edited is a failed job.                               *)
(***************************************************************************)
EXTENDS Naturals

CONSTANTS
    File,       \* the go.mod of each member that does not keep its own
    NoFile,     \* "no file"
    Root,       \* the workspace root, where go work sync runs
    Module,     \* modules a go.mod may require
    Internal,   \* those the register's internal track pins
    Version,    \* versions, from 1
    MaxEdits,   \* bound: changes a person makes to files and to the factory
    MaxAborts   \* bound: jobs killed or failing on their own

ASSUME VersionAssumption ==
    /\ NoFile \notin File
    /\ Root \notin File
    /\ Internal \subseteq Module
    /\ Version \subseteq Nat \ {0}

ASSUME VersionBounds == MaxEdits \in Nat /\ MaxAborts \in Nat

Require == Version \cup {0}
Requires == [Module -> Require]

VARIABLES
    declared,  \* declared[m]: the version the factory, or the register, gives m
    disk,      \* disk[f]: what the go.mod on disk requires
    missing,   \* the go.mods that are not on disk
    record,    \* record[f]: the declared versions the render record holds
    job,       \* what forge-factory is doing
    edits,     \* how many changes a person has made
    aborts,    \* how many jobs were cut short
    mine,      \* history: mine[f]: versions a person put there and may count on
    touched,   \* history: what a person changed in f since it was recorded
    loose      \* history: files a job changed and has not recorded

vars == <<declared, disk, missing, record, job, edits, aborts, mine, touched, loose>>
files == <<disk, missing>>
history == <<mine, touched, loose>>

-----------------------------------------------------------------------------
Nothing == [m \in Module |-> 0]
NoRequires == [f \in File |-> Nothing]

Job == [op : {"none", "sync", "lock"},
        pc : {"idle", "render", "write", "put", "check", "settle", "record", "refused"},
        deps : Requires, text : [File -> Requires],
        todo : SUBSET File, settle : SUBSET (File \cup {Root}),
        at : File \cup {NoFile}]

Idle == [op |-> "none", pc |-> "idle", deps |-> Nothing, text |-> NoRequires,
         todo |-> {}, settle |-> {}, at |-> NoFile]

\* The type of every variable, and the bounds of the counters.
TypeOK ==
    /\ declared \in Requires
    /\ disk \in [File -> Requires]
    /\ missing \subseteq {f \in File : disk[f] = Nothing}
    /\ record \in [File -> Requires]
    /\ job \in Job
    /\ edits \in 0..MaxEdits
    /\ aborts \in 0..MaxAborts
    /\ mine \in [File -> Requires]
    /\ touched \in [File -> SUBSET Module]
    /\ loose \subseteq File

Init ==
    /\ declared \in Requires
    /\ disk = NoRequires
    /\ missing \in SUBSET File
    /\ record = NoRequires
    /\ job = Idle
    /\ edits = 0
    /\ aborts = 0
    /\ mine = NoRequires
    /\ touched = [f \in File |-> {}]
    /\ loose = {}

-----------------------------------------------------------------------------
(* A person. *)

\* Whether a version v of m that a person puts into f now is one a job has to
\* respect: one the guard will see, or one that nobody declares and that no
\* engine has read past.
Respected(f, m, v) ==
    LET theirs == declared[m] = 0
    IN  /\ v # 0
        /\ ~theirs => declared[m] # v /\ record[f][m] \notin {0, v}
        /\ CASE job.pc \in {"idle", "refused"} -> TRUE
             [] job.pc \in {"render", "check"} ->
                    IF theirs THEN job.deps[m] = 0 ELSE job.deps[m] \notin {0, v}
             [] job.pc \in {"write", "put"} /\ f \in job.todo \ {job.at} ->
                    ~theirs /\ job.deps[m] \notin {0, v}
             [] OTHER -> theirs /\ f # job.at

\* A require of f is added, changed or dropped; f is made if it is missing.
Edit ==
    \E f \in File, m \in Module, v \in Require :
        /\ edits < MaxEdits
        /\ v # disk[f][m]
        /\ disk' = [disk EXCEPT ![f][m] = v]
        /\ missing' = missing \ {f}
        /\ mine' = [mine EXCEPT ![f][m] = IF Respected(f, m, v) THEN v ELSE 0]
        /\ touched' = [touched EXCEPT ![f] = @ \cup {m}]
        /\ edits' = edits + 1
        /\ UNCHANGED <<declared, record, job, aborts, loose>>

\* f is removed, and with it all a person had in it.
Remove ==
    \E f \in File \ missing :
        /\ edits < MaxEdits
        /\ disk' = [disk EXCEPT ![f] = Nothing]
        /\ missing' = missing \cup {f}
        /\ mine' = [mine EXCEPT ![f] = Nothing]
        /\ touched' = [touched EXCEPT ![f] = Module]
        /\ edits' = edits + 1
        /\ UNCHANGED <<declared, record, job, aborts, loose>>

\* The factory declares another version, or the register publishes one.  A
\* person's version of m that is declared now, or of which the record stops or
\* starts speaking, is no longer theirs.
Declare ==
    \E m \in Module, v \in Require :
        /\ edits < MaxEdits
        /\ v # declared[m]
        /\ declared' = [declared EXCEPT ![m] = v]
        /\ mine' = [f \in File |->
               [mine[f] EXCEPT ![m] = IF declared[m] = 0 \/ v \in {0, @} THEN 0 ELSE @]]
        /\ edits' = edits + 1
        /\ UNCHANGED <<files, record, job, aborts, touched, loose>>

\* Faulty: the entry goes, and what is left is not a record of every file.
TakeEntry ==
    \E f \in File :
        /\ job.pc = "idle"
        /\ record[f] # Nothing
        /\ record' = [g \in File \ {f} |-> record[g]]
        /\ mine' = [mine EXCEPT ![f] = Nothing]
        /\ UNCHANGED <<declared, files, job, edits, aborts, touched, loose>>

\* take gives a go.mod back, one that is there: the record forgets its versions.
Take ==
    \E f \in File \ missing :
        /\ job.pc = "idle"
        /\ record[f] # Nothing
        /\ record' = [record EXCEPT ![f] = Nothing]
        /\ mine' = [mine EXCEPT ![f] = Nothing]
        /\ UNCHANGED <<declared, files, job, edits, aborts, touched, loose>>

-----------------------------------------------------------------------------
(* A job. *)

\* The versions a job renders: those declared, and those of the register for
\* internal modules that some member requires.
Deps ==
    [m \in Module |->
        IF m \in Internal /\ \A f \in File : disk[f][m] = 0 THEN 0 ELSE declared[m]]

Begin ==
    /\ job.pc = "idle"
    /\ \E op \in {"sync", "lock"} :
           job' = [Idle EXCEPT !.op = op, !.pc = "render", !.deps = Deps]
    /\ UNCHANGED <<declared, files, record, edits, aborts, history>>

\* gomod.Edit: the versions of declared modules the file requires are replaced.
Rendered(f) ==
    [m \in Module |-> IF disk[f][m] # 0 /\ job.deps[m] # 0
                      THEN job.deps[m] ELSE disk[f][m]]

\* The engine reads and renders every go.mod before the first is written.  go
\* work sync will run when go.work changes, with the members and their go lines.
Render ==
    /\ job.pc = "render"
    /\ \E root \in SUBSET {Root} :
           job' = [job EXCEPT !.text = [f \in File |-> Rendered(f)],
                              !.todo = File,
                              !.settle = IF job.op = "lock" THEN File \cup {Root} ELSE root,
                              !.pc = IF job.op = "lock" THEN "check" ELSE "write"]
    /\ UNCHANGED <<declared, files, record, edits, aborts, history>>

\* Faulty: the version on disk is compared with the declared one alone.
MovedUnrecorded(f) == {m \in Module :
    /\ record[f][m] # 0
    /\ job.deps[m] # 0 /\ job.text[f][m] \notin {0, record[f][m], job.deps[m]}}

\* guardDeclaredVersions: recorded modules, still declared and required, whose
\* version on disk is neither the recorded nor the declared one.
Moved(f) == {m \in Module :
    /\ record[f][m] # 0
    /\ job.deps[m] # 0 /\ disk[f][m] \notin {0, record[f][m], job.deps[m]}}

Refuse(f) ==
    /\ job' = [job EXCEPT !.pc = "refused", !.at = f]
    /\ UNCHANGED <<declared, files, record, edits, aborts, history>>

\* A file to be written is looked at: one that will change is tidied later, and
\* one a person moved a version in is refused.
Guard ==
    /\ job.pc = "write"
    /\ \E f \in job.todo :
           IF Moved(f) # {} THEN Refuse(f)
           ELSE LET changes == f \in missing \/ disk[f] # job.text[f]
                IN  /\ job' = [job EXCEPT !.pc = "put", !.at = f,
                                          !.settle = @ \cup (IF changes THEN {f} ELSE {})]
                    /\ UNCHANGED <<declared, files, record, edits, aborts, history>>

\* The render replaces whatever the file requires by now.
Put ==
    /\ job.pc = "put"
    /\ disk' = [disk EXCEPT ![job.at] = job.text[job.at]]
    /\ missing' = missing \ {job.at}
    /\ loose' = loose \cup {job.at}
    /\ job' = [job EXCEPT !.pc = "write", !.at = NoFile,
                          !.todo = @ \ {job.at}, !.text[job.at] = Nothing]
    /\ UNCHANGED <<declared, record, edits, aborts, mine, touched>>

Written ==
    /\ job.pc = "write" /\ job.todo = {}
    /\ job' = [job EXCEPT !.pc = "settle"]
    /\ UNCHANGED <<declared, files, record, edits, aborts, history>>

\* guardRendered: lock checks every file before its first command.
GuardRendered ==
    /\ job.pc = "check"
    /\ IF \A f \in File : Moved(f) = {}
       THEN /\ job' = [job EXCEPT !.pc = "settle", !.text = NoRequires]
            /\ UNCHANGED <<declared, files, record, edits, aborts, history>>
       ELSE \E f \in File : Moved(f) # {} /\ Refuse(f)

\* What go mod tidy, or go work sync, may make of the requires r: it never
\* lowers a version, and adds and drops requires.
Tidied(r, s) == \A m \in Module : s[m] = 0 \/ s[m] >= r[m]

Tidies(c) == (IF c = Root THEN File ELSE {c}) \ missing

\* The versions of modules nobody declares are the tidy's to change.
Settle ==
    /\ job.pc = "settle"
    /\ \E c \in job.settle :
           /\ \E after \in [Tidies(c) -> Requires] :
                  /\ \A f \in Tidies(c) : Tidied(disk[f], after[f])
                  /\ disk' = [f \in File |-> IF f \in Tidies(c) THEN after[f] ELSE disk[f]]
           /\ loose' = loose \cup Tidies(c)
           /\ job' = [job EXCEPT !.settle = @ \ {c}]
    /\ mine' = [f \in File |-> [m \in Module |->
           IF declared[m] = 0 THEN 0 ELSE mine[f][m]]]
    /\ UNCHANGED <<declared, missing, record, edits, aborts, touched>>

\* The commands have run, or one that is not optional has failed.
Settled ==
    /\ job.pc = "settle"
    /\ job' = [job EXCEPT !.pc = "record"]
    /\ UNCHANGED <<declared, files, record, edits, aborts, history>>

\* Faulty: what was rendered is recorded, not what the tidy left.
EntryRendered(f) == [m \in Module |->
    IF job.deps[m] # 0 /\ disk[f][m] # 0 THEN job.deps[m] ELSE 0]

\* entryOf: the versions of the declared modules the file requires by now.
EntryOf(f) == [m \in Module |-> IF job.deps[m] # 0 THEN disk[f][m] ELSE 0]

\* A go.mod that is missing keeps the entry it had.
Record ==
    /\ job.pc = "record"
    /\ record' = [f \in File |-> IF f \in missing THEN record[f] ELSE EntryOf(f)]
    /\ touched' = [f \in File |-> IF f \in missing THEN touched[f] ELSE {}]
    /\ loose' = loose \cap missing
    /\ job' = Idle
    /\ UNCHANGED <<declared, files, edits, aborts, mine>>

-----------------------------------------------------------------------------
(* Ends. *)

Report ==
    /\ job.pc = "refused"
    /\ job' = Idle
    /\ UNCHANGED <<declared, files, record, edits, aborts, history>>

\* Nothing resolves, a go.mod cannot be read, a write fails, or a kill.
Abort ==
    /\ job.pc \notin {"idle", "refused"}
    /\ aborts < MaxAborts
    /\ aborts' = aborts + 1
    /\ job' = Idle
    /\ UNCHANGED <<declared, files, record, edits, history>>

\* Dying inside WriteFile leaves a go.mod that requires nothing.
TearFile ==
    /\ job.pc = "put"
    /\ aborts < MaxAborts
    /\ aborts' = aborts + 1
    /\ LET f == job.at
       IN  /\ disk' = [disk EXCEPT ![f] = Nothing]
           /\ missing' = missing \ {f}
           /\ loose' = loose \cup {f}
           /\ mine' = [mine EXCEPT ![f] = [m \in Module |->
                  IF declared[m] = 0 THEN 0 ELSE mine[f][m]]]
    /\ job' = Idle
    /\ UNCHANGED <<declared, record, edits, touched>>

Next ==
    \/ Edit \/ Remove \/ Declare \/ Take
    \/ Begin \/ Render \/ Guard \/ Put \/ Written \/ GuardRendered
    \/ Settle \/ Settled \/ Record \/ Report \/ Abort \/ TearFile

Spec == Init /\ [][Next]_vars

-----------------------------------------------------------------------------
(* Properties. *)

\* A version a person put into a go.mod stays there until the factory declares
\* it, the person changes it, or, if nobody declares the module, a tidy does.
EditsKept ==
    \A f \in File, m \in Module : mine[f][m] # 0 => disk[f][m] = mine[f][m]

\* Between jobs a recorded version is the one on disk, unless a person changed
\* it, or the whole file, since; or a job that was refused or cut short left the
\* file unrecorded: what the guard takes for an edit is one.
RecordTellsDisk ==
    job.pc = "idle" => \A f \in File \ loose : \A m \in Module \ touched[f] :
        record[f][m] \in {0, disk[f][m]}

\* A job raises requires and never adds one of its own: a module appears in a
\* go.mod by a person's hand or a tidy's.
RenderAddsNothing ==
    [][job.pc = "put" /\ job'.pc = "write" => \A m \in Module \ touched[job.at] :
        disk[job.at][m] = 0 => disk'[job.at][m] = 0]_vars
=============================================================================
