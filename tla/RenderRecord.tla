---------------------------- MODULE RenderRecord ----------------------------
(***************************************************************************)
(* The render record of one workspace: .forge/factory-generated.json and   *)
(* the whole files forge-factory renders beside it.  A process runs one    *)
(* of sync, lock, take or bootstrap (internal/controller/synccontroller    *)
(* and runcontroller's Bootstrap); nothing locks the workspace, so two     *)
(* processes interleave step by step, and a person edits files meanwhile.  *)
(*                                                                         *)
(* A file's text is abstracted to where it came from: the render of a      *)
(* factory revision, that render as a lock command settled it, a person's  *)
(* edit, or the torn text an interrupted write leaves.  sha256 is taken as *)
(* collision free, so a digest is the text it was computed from.           *)
(* Languages, files and commands are visited in any order, of which the    *)
(* sorted or engine-given order of the code is one.  Files an engine marks *)
(* as merged are guarded by declared versions instead and are left out.    *)
(***************************************************************************)
EXTENDS Integers, Sequences, FiniteSets

CONSTANTS
    Proc,         \* forge-factory processes
    Lang,         \* languages a factory may declare
    File,         \* files forge-factory writes or records
    NoFile,       \* "no file"
    Cmd,          \* dependency lock commands, each in a directory of its own
    FilesOf,      \* FilesOf[l]: the whole files l's engine may render
    LockfilesOf,  \* LockfilesOf[l]: the lockfiles l's engine may name
    CmdsOf,       \* CmdsOf[l]: the lock commands l's engine may declare
    Factories,    \* the sets of files a factory's members and languages ask for
    Under,        \* Under[c]: the files under the directory of c
    Placed,       \* the workspace files bootstrap places
    MaxRev,       \* bound: factory revisions
    MaxEdits,     \* bound: changes a person makes by hand
    MaxJobs       \* bound: jobs started

Rendered == UNION {FilesOf[l] : l \in Lang}

ASSUME FileAssumption ==
    /\ NoFile \notin File
    /\ FilesOf \in [Lang -> SUBSET File]
    /\ LockfilesOf \in [Lang -> SUBSET File]
    /\ CmdsOf \in [Lang -> SUBSET Cmd]
    /\ Under \in [Cmd -> SUBSET File]
    /\ Placed \subseteq File
    /\ Factories \subseteq SUBSET File
    /\ Factories # {}
    /\ \A l \in Lang : (Placed \cup LockfilesOf[l]) \cap Rendered = {}

ASSUME BoundAssumption == MaxRev \in Nat /\ MaxEdits \in Nat /\ MaxJobs \in Nat

VARIABLES
    factory,    \* forge-factory.yaml: its revision, and the files it asks for
    disk,       \* disk[f]: the text of f, or Absent
    backups,    \* backups[f]: the texts of f.bak, f.bak.2, ...
    record,     \* record[f]: the digest the record holds, Undigested or Unlisted
    readable,   \* whether the record on disk parses
    manifest,   \* the digests in .forge/dependency-locks.json, Unlisted for none
    job,        \* job[p]: what process p is doing
    started,    \* how many jobs were started
    edits,      \* how many changes a person has made
    edit,       \* history: the last edit of f made while no process ran
    disturbed   \* history: processes whose run overlapped another's or an edit

vars == <<factory, disk, backups, record, readable, manifest, job,
          started, edits, edit, disturbed>>
workspace == <<factory, disk, backups, record, readable, manifest>>
person == <<edits, edit>>

-----------------------------------------------------------------------------
(* Texts, record entries and jobs. *)

Text == [kind : {"rendered", "settled", "edited", "torn"}, n : Nat]
Absent == [kind |-> "absent", n |-> 0]
Unlisted == [kind |-> "unlisted", n |-> 0]
Undigested == [kind |-> "undigested", n |-> 0]
Entry == Text \cup {Unlisted, Undigested}

Render(r) == [kind |-> "rendered", n |-> r]
Torn == [kind |-> "torn", n |-> 0]

\* A lock command rewrites what was rendered and leaves a person's text be.
Settle(t) == IF t.kind = "rendered" THEN [t EXCEPT !.kind = "settled"] ELSE t

NoEdit == [text |-> Absent, recorded |-> FALSE]

NoEntries == [f \in File |-> Unlisted]

Listed(rec) == {f \in File : rec[f] # Unlisted}

Op == {"none", "sync", "lock", "take", "bootstrap"}
Pc == {"idle", "resolve", "guard", "write", "check", "run", "record",
       "lockfiles", "backup", "unlist", "refused"}

Idle == [op |-> "none", pc |-> "idle", rev |-> 0, files |-> {},
         snap |-> NoEntries, langs |-> {}, todo |-> {}, at |-> NoFile, gen |-> {}, locks |-> {},
         kept |-> {}, settling |-> {}, toRun |-> {}, entries |-> NoEntries,
         failed |-> FALSE, held |-> Absent, slot |-> 0]

Job == [op : Op, pc : Pc, rev : Nat, files : SUBSET File,
        snap : [File -> Entry], langs : SUBSET Lang, todo : SUBSET File, at : File \cup {NoFile},
        gen : SUBSET File, locks : SUBSET File, kept : SUBSET File,
        settling : SUBSET Cmd, toRun : SUBSET Cmd, entries : [File -> Entry],
        failed : BOOLEAN, held : Text \cup {Absent}, slot : Nat]

\* The type of every variable, and the bounds of the counters.
TypeOK ==
    /\ factory \in [rev : 0..MaxRev, files : SUBSET File]
    /\ disk \in [File -> Text \cup {Absent}]
    /\ backups \in [File -> Seq(Text)]
    /\ record \in [File -> Entry]
    /\ readable \in BOOLEAN
    /\ manifest \in [File -> Entry]
    /\ job \in [Proc -> Job]
    /\ started \in 0..MaxJobs
    /\ edits \in 0..MaxEdits
    /\ edit \in [File -> [text : Text \cup {Absent}, recorded : BOOLEAN]]
    /\ disturbed \subseteq Proc

Init ==
    /\ factory \in [rev : {0}, files : Factories]
    /\ disk = [f \in File |-> Absent]
    /\ backups = [f \in File |-> <<>>]
    /\ record = NoEntries
    /\ readable = TRUE
    /\ manifest = NoEntries
    /\ job = [p \in Proc |-> Idle]
    /\ started = 0
    /\ edits = 0
    /\ edit = [f \in File |-> NoEdit]
    /\ disturbed = {}

Running == {p \in Proc : job[p].pc # "idle"}

-----------------------------------------------------------------------------
(* Starting, ending and dying. *)

\* p starts with job j; every run it overlaps with is disturbed from now on.
Start(p, j) ==
    /\ job[p].pc = "idle"
    /\ readable
    /\ started < MaxJobs
    /\ started' = started + 1
    /\ job' = [job EXCEPT ![p] = j]
    /\ disturbed' = IF Running = {} THEN disturbed ELSE Running \cup {p}

End(p) ==
    /\ job' = [job EXCEPT ![p] = Idle]
    /\ disturbed' = disturbed \ {p}
    /\ UNCHANGED started

Continue(p, j) ==
    /\ job' = [job EXCEPT ![p] = j]
    /\ UNCHANGED <<started, disturbed>>

\* Any call may return an error, on which the handler returns at once and
\* undoes nothing; a killed process leaves the same behind.
Abort(p) ==
    /\ job[p].pc # "idle"
    /\ End(p)
    /\ UNCHANGED <<workspace, person>>

\* os.WriteFile truncates before it writes: dying between leaves a torn file.
TearFile(p) ==
    /\ job[p].pc = "write"
    /\ disk' = [disk EXCEPT ![job[p].at] = Torn]
    /\ End(p)
    /\ UNCHANGED <<factory, backups, record, readable, manifest, person>>

-----------------------------------------------------------------------------
(* The guard on a whole file. *)

\* Faulty: no guard.
AcceptsAll(rec, f) == TRUE

\* guardWholeFile: a file with no recorded digest, or not on disk, may be
\* written; any other must still be what the record says was last written.
Accepts(rec, f) ==
    \/ rec[f] \in {Unlisted, Undigested}
    \/ disk[f] \in {Absent, rec[f]}

\* The handler returns ErrDiffersFromLastRender, naming f, ...
Refuse(p, f) ==
    /\ Continue(p, [job[p] EXCEPT !.pc = "refused", !.at = f])
    /\ UNCHANGED <<workspace, person>>

\* ... and the process prints it and exits.
Report(p) ==
    /\ job[p].pc = "refused"
    /\ End(p)
    /\ UNCHANGED <<workspace, person>>

-----------------------------------------------------------------------------
(* Rendering: sync writes as it goes, lock only collects. *)

\* The languages of the members a factory has, each with something to render.
Languages(files) == {l \in Lang : FilesOf[l] \cap files # {}}

\* What l's engine renders and locks for a job, and the commands it declares:
\* those whose directory holds a file it renders.
FilesFor(j, l) == FilesOf[l] \cap j.files
LockfilesFor(j, l) == LockfilesOf[l] \cap j.files
CmdsFor(j, l) == {c \in CmdsOf[l] : Under[c] \cap FilesFor(j, l) # {}}

\* A job reads forge-factory.yaml once and asks for what it read to the end.
Begin(p) ==
    /\ \E o \in {"sync", "lock"} :
           Start(p, [Idle EXCEPT !.op = o, !.pc = "resolve", !.rev = factory.rev,
                                 !.files = factory.files, !.snap = record,
                                 !.langs = Languages(factory.files)])
    /\ UNCHANGED <<workspace, person>>

\* Faulty: nothing is carried over.
SkipLanguageForgetting(p) ==
    /\ job[p].pc = "resolve"
    /\ \E l \in job[p].langs :
           Continue(p, [job[p] EXCEPT !.langs = @ \ {l}, !.failed = TRUE])
    /\ UNCHANGED <<workspace, person>>

\* A language with an unregistered entry renders nothing, and everything the
\* record listed is carried over.
SkipLanguage(p) ==
    /\ job[p].pc = "resolve"
    /\ \E l \in job[p].langs :
           Continue(p, [job[p] EXCEPT !.langs = @ \ {l}, !.failed = TRUE,
                                      !.kept = Listed(job[p].snap)])
    /\ UNCHANGED <<workspace, person>>

\* The language resolves and its engine answers.  sync writes the files
\* next; lock collects them with the commands it will run.
RenderLanguage(p) ==
    /\ job[p].pc = "resolve"
    /\ \E l \in job[p].langs :
           LET j == job[p]
               collected == [j EXCEPT !.langs = @ \ {l},
                                      !.gen = @ \cup FilesFor(j, l),
                                      !.locks = @ \cup LockfilesFor(j, l)]
           IN Continue(p, IF j.op = "sync"
                  THEN [collected EXCEPT !.todo = FilesFor(j, l), !.pc = "guard"]
                  ELSE [collected EXCEPT !.settling = @ \cup CmdsFor(j, l)])
    /\ UNCHANGED <<workspace, person>>

\* The commands of the deepest directory that holds f.
Holders(f) ==
    LET holding == {c \in Cmd : f \in Under[c]
                                /\ \E l \in Lang : c \in CmdsOf[l] /\ f \in FilesOf[l]}
    IN {c \in holding : \A d \in holding : Under[c] \subseteq Under[d]}

\* The file is read to see whether its directory will have to settle and
\* whether it may be written.
Guard(p) ==
    /\ job[p].pc = "guard"
    /\ \E f \in job[p].todo :
           \/ /\ Accepts(job[p].snap, f)
              /\ Continue(p, [job[p] EXCEPT
                     !.at = f, !.pc = "write",
                     !.settling = @ \cup (IF disk[f] # Render(job[p].rev)
                                          THEN Holders(f) ELSE {})])
              /\ UNCHANGED <<workspace, person>>
           \/ /\ ~Accepts(job[p].snap, f)
              /\ Refuse(p, f)

\* The render replaces whatever the file holds by now.
Write(p) ==
    /\ job[p].pc = "write"
    /\ LET f == job[p].at
           text == Render(job[p].rev)
       IN /\ disk' = [disk EXCEPT ![f] = text]
          /\ Continue(p, [job[p] EXCEPT !.todo = @ \ {f}, !.at = NoFile,
                                        !.pc = "guard", !.entries[f] = text])
    /\ UNCHANGED <<factory, backups, record, readable, manifest, person>>

\* Nothing is left to write: the next language, or bootstrap's record.
Written(p) ==
    /\ job[p].pc = "guard"
    /\ job[p].todo = {}
    /\ Continue(p, [job[p] EXCEPT
           !.pc = IF job[p].op = "bootstrap" THEN "record" ELSE "resolve"])
    /\ UNCHANGED <<workspace, person>>

\* Every language is done.  sync settles; lock first refuses a missing entry.
Resolved(p) ==
    /\ job[p].pc = "resolve"
    /\ job[p].langs = {}
    /\ job[p].op = "lock" => ~job[p].failed
    /\ Continue(p, [job[p] EXCEPT
           !.pc = IF job[p].op = "lock" THEN "check" ELSE "run",
           !.toRun = job[p].settling])
    /\ UNCHANGED <<workspace, person>>

\* Faulty: lock trusts what is on disk.
GuardRenderedNothing(p) ==
    /\ job[p].pc = "check"
    /\ readable
    /\ Continue(p, [job[p] EXCEPT !.pc = "run"])
    /\ UNCHANGED <<workspace, person>>

\* lock reads the record afresh and guards every file before any command.
GuardRendered(p) ==
    /\ job[p].pc = "check"
    /\ readable
    /\ \/ /\ \A f \in job[p].gen : Accepts(record, f)
          /\ Continue(p, [job[p] EXCEPT !.pc = "run"])
          /\ UNCHANGED <<workspace, person>>
       \/ \E f \in job[p].gen : ~Accepts(record, f) /\ Refuse(p, f)

-----------------------------------------------------------------------------
(* Commands, reading back, recording. *)

\* A command may rewrite any file under its directory.  It succeeds, or fails
\* and is optional, and the next one runs; or it fails and the rest do not run.
RunCommand(p) ==
    /\ job[p].pc = "run"
    /\ \E c \in job[p].toRun, stops \in BOOLEAN :
       \E touched \in SUBSET Under[c] :
           /\ disk' = [f \in File |-> IF f \notin touched THEN disk[f]
                                      ELSE IF f \in job[p].locks
                                      THEN [kind |-> "settled", n |-> job[p].rev]
                                      ELSE Settle(disk[f])]
           /\ Continue(p, [job[p] EXCEPT
                  !.toRun = IF stops THEN {} ELSE @ \ {c},
                  !.failed = @ \/ stops])
    /\ UNCHANGED <<factory, backups, record, readable, manifest, person>>

\* Faulty: only the files whose own directory settles.
ReadBackHeld(j) ==
    IF j.op = "lock" THEN j.gen
    ELSE {f \in j.gen : Holders(f) \cap j.settling # {}}

\* Faulty: sync trusts what it rendered.
ReadBackOnLock(j) == IF j.op = "lock" THEN j.gen ELSE {}

\* The files the record takes from disk again: for sync those a command that
\* ran may have rewritten, for lock every one.
ReadBackFiles(j) ==
    IF j.op = "lock" THEN j.gen
    ELSE {f \in j.gen : \E c \in j.settling : f \in Under[c]}

\* Faulty: the digest of a file that is gone.
ReadBackMissing(p) ==
    /\ job[p].pc = "run"
    /\ job[p].toRun = {}
    /\ Continue(p, [job[p] EXCEPT
           !.pc = "record",
           !.entries = [f \in File |-> IF f \in ReadBackFiles(job[p]) THEN disk[f]
                                      ELSE @[f]]])
    /\ UNCHANGED <<workspace, person>>

ReadBack(p) ==
    /\ job[p].pc = "run"
    /\ job[p].toRun = {}
    /\ LET back == {f \in ReadBackFiles(job[p]) : disk[f] # Absent}
       IN Continue(p, [job[p] EXCEPT
              !.pc = "record",
              !.entries = [f \in File |-> IF f \in back THEN disk[f] ELSE @[f]]])
    /\ UNCHANGED <<workspace, person>>

RecordedFiles(j) == j.gen \cup j.locks \cup j.kept

\* What a listed path gets: its new entry, else what the record held, which
\* for a path never listed before is an entry with no digest.
EntryFor(j, f) ==
    IF j.entries[f] # Unlisted THEN j.entries[f]
    ELSE IF record[f] # Unlisted THEN record[f]
    ELSE Undigested

\* WriteRecord lists these paths and forgets every other one, those of a member
\* or a language the factory dropped among them; take lists the record as it
\* was read, less the file taken.
NewRecord(j) ==
    IF j.op = "take" THEN [j.snap EXCEPT ![j.at] = Unlisted]
    ELSE [f \in File |-> IF f \in RecordedFiles(j) THEN EntryFor(j, f) ELSE Unlisted]

\* What j forgets of the files of the engines because the factory it read no
\* longer asks for them.
Dropped(j) == {f \in Rendered : /\ j.op \in {"sync", "lock"}
                                /\ f \notin j.files
                                /\ record[f] # Unlisted
                                /\ NewRecord(j)[f] = Unlisted}

\* A lock whose commands all ran goes on to its lockfiles.  An edit of a file
\* dropped from the record is no longer on record, and the history lets go.
WriteRecord(p) ==
    /\ job[p].pc = "record"
    /\ readable
    /\ record' = NewRecord(job[p])
    /\ edit' = [f \in File |-> IF f \in Dropped(job[p]) THEN NoEdit ELSE edit[f]]
    /\ IF job[p].op = "lock" /\ ~job[p].failed
       THEN Continue(p, [job[p] EXCEPT !.pc = "lockfiles"])
       ELSE End(p)
    /\ UNCHANGED <<factory, disk, backups, readable, manifest, edits>>

\* An unchanged record is not written, so it cannot be torn.
TearRecord(p) ==
    /\ job[p].pc \in {"record", "unlist"}
    /\ readable
    /\ NewRecord(job[p]) # record
    /\ readable' = FALSE
    /\ End(p)
    /\ UNCHANGED <<factory, disk, backups, record, manifest, person>>

RecordLockfiles(p) ==
    /\ job[p].pc = "lockfiles"
    /\ manifest' = [f \in File |-> IF f \in job[p].locks /\ disk[f] # Absent
                                   THEN disk[f] ELSE Unlisted]
    /\ End(p)
    /\ UNCHANGED <<factory, disk, backups, record, readable, person>>

\* lock ends before its guard when an entry is unregistered.
RefuseUnregistered(p) ==
    /\ job[p].op = "lock"
    /\ job[p].pc = "resolve"
    /\ job[p].langs = {}
    /\ job[p].failed
    /\ End(p)
    /\ UNCHANGED <<workspace, person>>

\* A job that reads the record again ends when the record no longer parses.
RefuseUnreadable(p) ==
    /\ job[p].pc \in {"check", "record", "unlist"}
    /\ ~readable
    /\ End(p)
    /\ UNCHANGED <<workspace, person>>

-----------------------------------------------------------------------------
(* take and bootstrap. *)

\* take reads the record, the file and the first backup name that is free.
Take(p) ==
    /\ \E f \in File :
          /\ record[f] # Unlisted
          /\ disk[f] # Absent
          /\ Start(p, [Idle EXCEPT !.op = "take", !.pc = "backup", !.snap = record,
                                   !.at = f, !.held = disk[f],
                                   !.slot = Len(backups[f]) + 1])
    /\ UNCHANGED <<workspace, person>>

\* The copy goes to the name found free, over whatever has come there since.
Backup(p) ==
    /\ job[p].pc = "backup"
    /\ LET f == job[p].at
       IN backups' = [backups EXCEPT ![f] =
              IF job[p].slot <= Len(@) THEN [@ EXCEPT ![job[p].slot] = job[p].held]
              ELSE Append(@, job[p].held)]
    /\ Continue(p, [job[p] EXCEPT !.pc = "unlist"])
    /\ UNCHANGED <<factory, disk, record, readable, manifest, person>>

\* Dying mid-way tears the backup.  A take that dies so over the backup that
\* another take of the same file has just made is the one way to lose an edit
\* on record; the history lets go of it, so that every other way stays watched.
TearBackup(p) ==
    /\ job[p].pc = "backup"
    /\ LET f == job[p].at
           fresh == job[p].slot > Len(backups[f])
       IN /\ backups' = [backups EXCEPT ![f] =
                 IF fresh THEN Append(@, Torn) ELSE [@ EXCEPT ![job[p].slot] = Torn]]
          /\ edit' = IF fresh THEN edit ELSE [edit EXCEPT ![f] = NoEdit]
    /\ End(p)
    /\ UNCHANGED <<factory, disk, record, readable, manifest, edits>>

Unlist(p) ==
    /\ job[p].pc = "unlist"
    /\ readable
    /\ record' = NewRecord(job[p])
    /\ End(p)
    /\ UNCHANGED <<factory, disk, backups, readable, manifest, person>>

\* bootstrap places the workspace files some revision has under the same guard
\* and keeps every other entry the record had.
Bootstrap(p) ==
    /\ \E r \in 0..factory.rev, files \in SUBSET Placed :
          Start(p, [Idle EXCEPT !.op = "bootstrap", !.pc = "guard", !.rev = r,
                                !.snap = record, !.todo = files, !.gen = files,
                                !.kept = Listed(record)])
    /\ UNCHANGED <<workspace, person>>

-----------------------------------------------------------------------------
(* The person. *)

\* A new revision of forge-factory.yaml, which may drop members and languages
\* or take them back.
Bump ==
    /\ factory.rev < MaxRev
    /\ \E files \in Factories :
           factory' = [rev |-> factory.rev + 1, files |-> files]
    /\ UNCHANGED <<disk, backups, record, readable, manifest, job, started,
                   disturbed, person>>

\* What a person does to f, and whether the record then holds the digest of
\* another text for f.
Change(f, text) ==
    /\ edits < MaxEdits
    /\ edits' = edits + 1
    /\ disk' = [disk EXCEPT ![f] = text]
    /\ edit' = [edit EXCEPT ![f] =
           IF Running # {} \/ text = Absent THEN NoEdit
           ELSE [text |-> text, recorded |-> record[f] \in Text \ {text}]]
    /\ disturbed' = disturbed \cup Running
    /\ UNCHANGED <<factory, backups, record, readable, manifest, job, started>>

Edit == \E f \in File : Change(f, [kind |-> "edited", n |-> edits + 1])

Delete == \E f \in File : disk[f] # Absent /\ Change(f, Absent)

\* The record is removed by hand, the way back from one that no longer parses:
\* no edit is on record any more.
DiscardRecord ==
    /\ record' = NoEntries
    /\ readable' = TRUE
    /\ edit' = [f \in File |-> NoEdit]
    /\ disturbed' = disturbed \cup Running
    /\ UNCHANGED <<factory, disk, backups, manifest, job, started, edits>>

-----------------------------------------------------------------------------

Step(p) ==
    \/ SkipLanguage(p) \/ RenderLanguage(p) \/ Guard(p) \/ Write(p) \/ Written(p)
    \/ Resolved(p) \/ GuardRendered(p) \/ RunCommand(p) \/ ReadBack(p)
    \/ WriteRecord(p) \/ RecordLockfiles(p) \/ Backup(p) \/ Unlist(p) \/ Report(p)
    \/ RefuseUnregistered(p) \/ RefuseUnreadable(p)

Next ==
    \/ \E p \in Proc :
          \/ Begin(p) \/ Take(p) \/ Bootstrap(p) \/ Step(p)
          \/ Abort(p) \/ TearFile(p) \/ TearBackup(p) \/ TearRecord(p)
    \/ Bump \/ Edit \/ Delete \/ DiscardRecord

Spec == Init /\ [][Next]_vars

-----------------------------------------------------------------------------
(* Properties. *)

\* f's text as a person left it survives: on disk, or in a numbered backup.
Survives(f) ==
    \/ disk[f] = edit[f].text
    \/ \E i \in DOMAIN backups[f] : backups[f][i] = edit[f].text

\* A hand edit of a rendered file that the record held a digest of, made while
\* no forge-factory ran, is never lost while the file stays on record, whatever
\* syncs, locks, takes and bootstraps overlap afterwards, fail or die
\* (writeGuarded, guardRendered, Take).  It leaves the record without a take in
\* two ways only: a person removes the record, or a sync or a lock records a
\* factory that no longer asks for the file, after which a factory that asks
\* for it again has it overwritten.
RecordedEditsSurvive ==
    \A f \in Rendered : edit[f].recorded => Survives(f)

\* No lock command runs in a job that renders a file holding such an edit,
\* unless take has put the edit aside: the refusal comes before the commands.
EditsHoldBackCommands ==
    \A p \in Proc, f \in Rendered :
        job[p].pc = "run" /\ f \in job[p].gen /\ edit[f].recorded
            => \E i \in DOMAIN backups[f] : backups[f][i] = edit[f].text

\* What sync or lock records of a file it rendered is what is on disk when the
\* commands are through, so that its own output is not refused next time.
RecordAgreesWithDisk ==
    [][\A p \in Proc : WriteRecord(p) /\ p \notin disturbed
          => \A f \in job[p].gen : disk[f] = Absent \/ record'[f] = disk[f]]_vars

\* A process forgets a rendered file only by a take of that file, or because
\* the factory it read does not ask for the file, or when the file was listed
\* by an overlapping run after the process read the record: a language that did
\* not resolve keeps its entries (rendering.carried).
ForgetsOnlyTakenOrDropped ==
    [][\A p \in Proc, f \in Rendered :
          job'[p] # job[p] /\ record[f] # Unlisted /\ record'[f] = Unlisted
             => \/ job[p].op = "take" /\ job[p].at = f
                \/ job[p].op \in {"sync", "lock"} /\ f \notin job[p].files
                \/ p \in disturbed /\ job[p].snap[f] = Unlisted]_vars

-----------------------------------------------------------------------------
(* The strengthening RecordedEditsSurvive and EditsHoldBackCommands need.   *)

\* An edit that nothing but the copy on disk still holds.
Live(f) ==
    edit[f].recorded /\ \A i \in DOMAIN backups[f] : backups[f][i] # edit[f].text

\* rec makes the guard refuse f as the person left it.
Guarded(rec, f) == rec[f] \in Text /\ rec[f] # edit[f].text

\* What a job carries from step to step, whoever edits what.
JobInv(j) ==
    /\ j.locks \cap Rendered = {}
    /\ j.pc = "record" => j.op \in {"sync", "lock", "bootstrap"}
    /\ j.pc \in {"resolve", "check", "run"} => j.op \in {"sync", "lock"} /\ j.todo = {}
    /\ j.pc = "check" => j.op = "lock"
    /\ j.pc \in {"guard", "write"} => j.op \in {"sync", "bootstrap"}
    /\ j.pc \in {"check", "run", "record"} => j.langs = {}
    /\ j.pc \in {"backup", "unlist"} => j.op = "take"
    /\ j.op = "sync" /\ j.pc # "refused" =>
           \A f \in j.gen : f \in j.todo \/ j.entries[f] # Unlisted
    /\ j.op \in {"sync", "lock"} =>
           \A l \in Lang \ j.langs :
               FilesFor(j, l) \subseteq j.gen \/ j.kept = Listed(j.snap)
    /\ j.op = "bootstrap" =>
           j.langs = {} /\ j.gen \subseteq Placed /\ j.kept = Listed(j.snap)

\* A running job cannot harm f, which holds a live edit.
Spares(j, f) ==
    /\ Guarded(j.snap, f)
    /\ j.entries[f] = Unlisted
    /\ j.pc = "write" => j.at # f
    /\ j.pc \in {"run", "record"} => f \notin j.gen
    /\ j.pc = "unlist" => j.at # f

\* The backup p is about to write does not replace the only copy of an edit.
BackupSpares(p, f) ==
    job[p].pc = "backup" /\ job[p].at = f =>
        \/ job[p].held = edit[f].text
        \/ \E i \in DOMAIN backups[f] : i < job[p].slot /\ backups[f][i] = edit[f].text

EditInv(f) ==
    /\ edit[f].recorded => edit[f].text.kind = "edited"
    /\ Live(f) => /\ disk[f] = edit[f].text
                  /\ Guarded(record, f)
                  /\ \A p \in Running : Spares(job[p], f)
    /\ edit[f].recorded => \A p \in Proc : BackupSpares(p, f)

RecordInv ==
    /\ \A p \in Proc : JobInv(job[p])
    /\ \A f \in Rendered : EditInv(f)

-----------------------------------------------------------------------------
(* The strengthening that RecordAgreesWithDisk and                         *)
(* ForgetsOnlyTakenOrDropped need.                                         *)

\* The record is as j read it, and the entries j will record are the texts on
\* disk, but for the files that a command of sync may have rewritten since.
Fresh(j) ==
    /\ j.toRun \subseteq j.settling
    /\ j.pc # "lockfiles" => j.snap = record
    /\ j.op \in {"sync", "bootstrap"} /\ j.pc \in {"resolve", "guard", "write"} =>
           \A f \in j.gen \ j.todo : j.entries[f] = disk[f]
    /\ j.op = "sync" /\ j.pc = "run" =>
           \A f \in j.gen : \/ j.entries[f] = disk[f]
                            \/ \E c \in j.settling : f \in Under[c]
    /\ j.pc = "record" =>
           \A f \in j.gen : disk[f] = Absent \/ j.entries[f] = disk[f]

\* An undisturbed run is the only one.
AgreeInv ==
    /\ disturbed \subseteq Running
    /\ \A p \in Running \ disturbed : Running = {p} /\ Fresh(job[p])

-----------------------------------------------------------------------------
(* What the messages and tests of the code say, and the code does not do. *)

\* A file bootstrap placed and recorded is protected like any other: a hand
\* edit of it is refused or backed up.
PlacedEditsSurvive ==
    \A f \in Placed : edit[f].recorded => Survives(f)
=============================================================================
