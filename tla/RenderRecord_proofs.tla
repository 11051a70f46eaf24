------------------------- MODULE RenderRecord_proofs -------------------------
(***************************************************************************)
(* Proofs about RenderRecord, for any number of processes, languages,      *)
(* files and commands, and with no bound on what the counters stop at.     *)
(***************************************************************************)
EXTENDS RenderRecord, SequenceTheorems, TLAPS

-----------------------------------------------------------------------------
(* Types. *)

\* What take backs up is a file's text, since it has looked at the file, and
\* goes to a backup name that exists.
BacksUp(j) == j.pc = "backup" => j.held # Absent /\ j.slot > 0

TypeInv == TypeOK /\ \A p \in Proc : BacksUp(job[p])

\* The constants the model writes into texts, entries and jobs.
LEMMA ValueTypes ==
    /\ Torn \in Text
    /\ \A r \in Nat : Render(r) \in Text
    /\ \A t \in Text : Settle(t) \in Text
    /\ \A t \in Text \cup {Absent} : Settle(t) \in Text \cup {Absent}
    /\ Absent \notin Text /\ Unlisted \notin Text /\ Undigested \notin Text
    /\ Unlisted # Undigested
    /\ NoEntries \in [File -> Entry]
<1>1. Torn \in Text /\ Absent \notin Text /\ Unlisted \notin Text /\ Undigested \notin Text
  BY DEF Text, Torn, Absent, Unlisted, Undigested
<1>2. \A r \in Nat : Render(r) \in Text
  BY DEF Text, Render
<1>3. \A t \in Text : Settle(t) \in Text
  BY DEF Text, Settle
<1>4. Settle(Absent) = Absent
  BY DEF Settle, Absent
<1>5. Unlisted # Undigested
  BY DEF Unlisted, Undigested
<1>6. NoEntries \in [File -> Entry]
  BY DEF NoEntries, Entry
<1> QED
  BY <1>1, <1>2, <1>3, <1>4, <1>5, <1>6

\* What an engine renders, locks and runs for a job is of its own language.
LEMMA AskedTypes ==
    ASSUME NEW j, NEW l \in Lang
    PROVE  /\ FilesFor(j, l) \subseteq File /\ FilesFor(j, l) \subseteq Rendered
           /\ LockfilesFor(j, l) \subseteq File /\ LockfilesFor(j, l) \cap Rendered = {}
           /\ CmdsFor(j, l) \subseteq Cmd
<1>1. FilesFor(j, l) \subseteq FilesOf[l] /\ LockfilesFor(j, l) \subseteq LockfilesOf[l]
      /\ CmdsFor(j, l) \subseteq CmdsOf[l]
  BY DEF FilesFor, LockfilesFor, CmdsFor
<1> QED
  BY <1>1, FileAssumption DEF Rendered

LEMMA IdleIsJob == Idle \in Job
BY ValueTypes DEF Idle, Job, Op, Pc

LEMMA StartTypes ==
    ASSUME TypeInv, NEW p \in Proc, NEW j \in Job, Start(p, j),
           BacksUp(j)
    PROVE  /\ job' \in [Proc -> Job] /\ started' \in 0..MaxJobs /\ disturbed' \subseteq Proc
           /\ \A q \in Proc : BacksUp(job'[q])
BY BoundAssumption DEF TypeInv, TypeOK, Start, Running

LEMMA EndTypes ==
    ASSUME TypeInv, NEW p \in Proc, End(p)
    PROVE  /\ job' \in [Proc -> Job] /\ started' \in 0..MaxJobs /\ disturbed' \subseteq Proc
           /\ \A q \in Proc : BacksUp(job'[q])
<1>1. BacksUp(Idle)
  BY DEF Idle, BacksUp
<1> QED
  BY <1>1, IdleIsJob DEF TypeInv, TypeOK, End

LEMMA ContinueTypes ==
    ASSUME TypeInv, NEW p \in Proc, NEW j \in Job, Continue(p, j), j.pc # "backup"
    PROVE  /\ job' \in [Proc -> Job] /\ started' \in 0..MaxJobs /\ disturbed' \subseteq Proc
           /\ \A q \in Proc : BacksUp(job'[q])
BY DEF TypeInv, TypeOK, Continue, BacksUp

\* The initial state and every step is well typed.
LEMMA TypeInit == Init => TypeInv
<1>1. BacksUp(Idle)
  BY DEF Idle, BacksUp
<1>2. Init => factory \in [rev : 0..MaxRev, files : SUBSET File]
  BY BoundAssumption, FileAssumption DEF Init
<1> QED
  BY <1>1, <1>2, IdleIsJob, ValueTypes, BoundAssumption
  DEF Init, TypeInv, TypeOK, NoEdit

\* What the guard sends p on with: to write f, or to refuse it.
Writes(p, f, settling) ==
    [job[p] EXCEPT !.at = f, !.pc = "write", !.settling = settling]
Refuses(p, f) == [job[p] EXCEPT !.pc = "refused", !.at = f]

LEMMA GuardMoves ==
    ASSUME TypeInv, NEW p \in Proc, Guard(p)
    PROVE  \E f \in job[p].todo, settling \in SUBSET Cmd :
               \/ Accepts(job[p].snap, f) /\ Continue(p, Writes(p, f, settling))
               \/ Continue(p, Refuses(p, f))
<1>1. job[p] \in Job
  BY DEF TypeInv, TypeOK
<1>2. PICK f \in job[p].todo :
          \/ Accepts(job[p].snap, f)
             /\ Continue(p, Writes(p, f, job[p].settling \cup
                                (IF disk[f] # Render(job[p].rev) THEN Holders(f) ELSE {})))
          \/ Continue(p, Refuses(p, f))
  BY DEF Guard, Refuse, Writes, Refuses
<1>3. job[p].settling \cup (IF disk[f] # Render(job[p].rev) THEN Holders(f) ELSE {})
          \in SUBSET Cmd
  BY <1>1 DEF Job, Holders
<1> QED
  BY <1>2, <1>3

LEMMA GuardJobs ==
    ASSUME TypeInv, NEW p \in Proc, NEW f \in job[p].todo, NEW settling \in SUBSET Cmd
    PROVE  /\ Writes(p, f, settling) \in Job /\ Writes(p, f, settling).pc = "write"
           /\ Refuses(p, f) \in Job /\ Refuses(p, f).pc = "refused"
<1>1. job[p] \in Job
  BY DEF TypeInv, TypeOK
<1> QED
  BY <1>1 DEF Job, Pc, Writes, Refuses

\* The steps that only move a job forward.
LEMMA TypeJobStep ==
    ASSUME TypeInv, NEW p \in Proc,
           \/ Begin(p) \/ SkipLanguage(p) \/ RenderLanguage(p) \/ Guard(p)
           \/ Written(p) \/ Resolved(p) \/ GuardRendered(p) \/ ReadBack(p)
           \/ Take(p) \/ Bootstrap(p) \/ Report(p) \/ Abort(p) \/ RefuseUnregistered(p) \/ RefuseUnreadable(p)
    PROVE  TypeInv'
<1>1. SUFFICES /\ UNCHANGED <<workspace, person>>
               /\ job' \in [Proc -> Job]
               /\ started' \in 0..MaxJobs
               /\ disturbed' \subseteq Proc
               /\ \A q \in Proc : BacksUp(job'[q])
  <2>1. ASSUME UNCHANGED <<workspace, person>>
        PROVE  /\ factory' = factory /\ disk' = disk /\ backups' = backups
               /\ record' = record /\ readable' = readable /\ manifest' = manifest
               /\ edits' = edits /\ edit' = edit
    BY <2>1 DEF workspace, person
  <2> QED
    BY <2>1 DEF TypeInv, TypeOK
<1>2. job[p] \in Job
  BY DEF TypeInv, TypeOK
<1>Vars. /\ factory.rev \in Nat /\ factory.files \subseteq File
         /\ record \in [File -> Entry] /\ disk \in [File -> Text \cup {Absent}]
  BY BoundAssumption DEF TypeInv, TypeOK
<1>3. CASE Begin(p)
  <2>1. PICK o \in {"sync", "lock"} :
            Start(p, [Idle EXCEPT !.op = o, !.pc = "resolve", !.rev = factory.rev,
                                  !.files = factory.files,
                                  !.snap = record, !.langs = Languages(factory.files)])
    BY <1>3 DEF Begin
  <2> DEFINE j == [Idle EXCEPT !.op = o, !.pc = "resolve", !.rev = factory.rev,
                               !.files = factory.files,
                               !.snap = record, !.langs = Languages(factory.files)]
  <2>2. j \in Job /\ BacksUp(j)
    BY <1>Vars, IdleIsJob DEF Job, Op, Pc, BacksUp, Languages
  <2> QED
    BY <1>3, <2>1, <2>2, StartTypes DEF Begin
<1>4. CASE SkipLanguage(p)
  <2>1. PICK l \in job[p].langs :
            Continue(p, [job[p] EXCEPT !.langs = @ \ {l}, !.failed = TRUE,
                                       !.kept = Listed(job[p].snap)])
    BY <1>4 DEF SkipLanguage
  <2> DEFINE j == [job[p] EXCEPT !.langs = @ \ {l}, !.failed = TRUE,
                                 !.kept = Listed(job[p].snap)]
  <2>2. j \in Job /\ j.pc = "resolve"
    BY <1>2, <1>4 DEF Job, Listed, SkipLanguage
  <2> QED
    BY <1>4, <2>1, <2>2, ContinueTypes DEF SkipLanguage
<1>5. CASE RenderLanguage(p)
  <2>1. PICK l \in job[p].langs :
          LET collected == [job[p] EXCEPT !.langs = @ \ {l},
                                          !.gen = @ \cup FilesFor(job[p], l),
                                          !.locks = @ \cup LockfilesFor(job[p], l)]
          IN Continue(p, IF job[p].op = "sync"
                         THEN [collected EXCEPT !.todo = FilesFor(job[p], l), !.pc = "guard"]
                         ELSE [collected EXCEPT !.settling = @ \cup CmdsFor(job[p], l)])
    BY <1>5 DEF RenderLanguage
  <2> DEFINE collected == [job[p] EXCEPT !.langs = @ \ {l},
                                         !.gen = @ \cup FilesFor(job[p], l),
                                         !.locks = @ \cup LockfilesFor(job[p], l)]
  <2>2. /\ FilesFor(job[p], l) \subseteq File /\ LockfilesFor(job[p], l) \subseteq File
        /\ CmdsFor(job[p], l) \subseteq Cmd
    BY <1>2, AskedTypes DEF Job
  <2>3. /\ [collected EXCEPT !.todo = FilesFor(job[p], l), !.pc = "guard"] \in Job
        /\ [collected EXCEPT !.todo = FilesFor(job[p], l), !.pc = "guard"].pc = "guard"
    BY <1>2, <2>2 DEF Job, Pc
  <2>4. /\ [collected EXCEPT !.settling = @ \cup CmdsFor(job[p], l)] \in Job
        /\ [collected EXCEPT !.settling = @ \cup CmdsFor(job[p], l)].pc = "resolve"
    BY <1>2, <1>5, <2>2 DEF Job, RenderLanguage
  <2> QED
    BY <1>5, <2>1, <2>3, <2>4, ContinueTypes DEF RenderLanguage
<1>6. CASE Guard(p)
  <2>1. PICK f \in job[p].todo, settling \in SUBSET Cmd :
            Continue(p, Writes(p, f, settling)) \/ Continue(p, Refuses(p, f))
    BY <1>6, GuardMoves
  <2>2. UNCHANGED <<workspace, person>>
    BY <1>6 DEF Guard, Refuse
  <2> QED
    BY <2>1, <2>2, GuardJobs, ContinueTypes
<1>7. CASE Written(p)
  <2> DEFINE j == [job[p] EXCEPT
                     !.pc = IF job[p].op = "bootstrap" THEN "record" ELSE "resolve"]
  <2>1. j \in Job /\ j.pc # "backup"
    BY <1>2 DEF Job, Pc
  <2> QED
    BY <1>7, <2>1, ContinueTypes DEF Written
<1>8. CASE Resolved(p)
  <2> DEFINE j == [job[p] EXCEPT
                     !.pc = IF job[p].op = "lock" THEN "check" ELSE "run",
                     !.toRun = job[p].settling]
  <2>1. j \in Job /\ j.pc # "backup"
    BY <1>2 DEF Job, Pc
  <2> QED
    BY <1>8, <2>1, ContinueTypes DEF Resolved
<1>9. CASE GuardRendered(p)
  <2>1. \/ Continue(p, [job[p] EXCEPT !.pc = "run"])
        \/ \E f \in job[p].gen : Continue(p, [job[p] EXCEPT !.pc = "refused", !.at = f])
    BY <1>9 DEF GuardRendered, Refuse
  <2>2. /\ [job[p] EXCEPT !.pc = "run"] \in Job /\ [job[p] EXCEPT !.pc = "run"].pc = "run"
        /\ \A f \in job[p].gen :
              /\ [job[p] EXCEPT !.pc = "refused", !.at = f] \in Job
              /\ [job[p] EXCEPT !.pc = "refused", !.at = f].pc = "refused"
    BY <1>2 DEF Job, Pc
  <2>3. UNCHANGED <<workspace, person>>
    BY <1>9 DEF GuardRendered, Refuse
  <2> QED
    BY <2>1, <2>2, <2>3, ContinueTypes
<1>10. CASE ReadBack(p)
  <2> DEFINE back == {f \in ReadBackFiles(job[p]) : disk[f] # Absent}
             new == [f \in File |-> IF f \in back THEN disk[f] ELSE job[p].entries[f]]
             j == [job[p] EXCEPT !.pc = "record", !.entries = new]
  <2>1. new \in [File -> Entry]
    BY <1>2 DEF TypeInv, TypeOK, Job, Entry
  <2>2. j \in Job /\ j.pc = "record"
    BY <1>2, <2>1 DEF Job, Pc
  <2>3. Continue(p, j)
    BY <1>10 DEF ReadBack
  <2> QED
    BY <1>10, <2>2, <2>3, ContinueTypes DEF ReadBack
<1>11. CASE Take(p)
  <2>1. PICK f \in File :
          /\ disk[f] # Absent
          /\ Start(p, [Idle EXCEPT !.op = "take", !.pc = "backup", !.snap = record,
                                   !.at = f, !.held = disk[f],
                                   !.slot = Len(backups[f]) + 1])
    BY <1>11 DEF Take
  <2> DEFINE j == [Idle EXCEPT !.op = "take", !.pc = "backup", !.snap = record,
                               !.at = f, !.held = disk[f], !.slot = Len(backups[f]) + 1]
  <2>2. Len(backups[f]) + 1 \in Nat /\ Len(backups[f]) + 1 > 0
    BY DEF TypeInv, TypeOK
  <2>3. j \in Job
    BY <1>Vars, <2>2, IdleIsJob DEF Job, Op, Pc
  <2>4. BacksUp(j)
    BY <2>1, <2>2, IdleIsJob DEF Job, BacksUp
  <2> HIDE DEF j
  <2> QED
    BY <1>11, <2>1, <2>3, <2>4, StartTypes DEF Take, j
<1>12. CASE Bootstrap(p)
  <2>1. PICK r \in 0..factory.rev, files \in SUBSET Placed :
          Start(p, [Idle EXCEPT !.op = "bootstrap", !.pc = "guard", !.rev = r,
                                !.snap = record, !.todo = files, !.gen = files,
                                !.kept = Listed(record)])
    BY <1>12 DEF Bootstrap
  <2> DEFINE j == [Idle EXCEPT !.op = "bootstrap", !.pc = "guard", !.rev = r,
                               !.snap = record, !.todo = files, !.gen = files,
                               !.kept = Listed(record)]
  <2>2. r \in Nat /\ files \subseteq File /\ Listed(record) \subseteq File
    BY FileAssumption, BoundAssumption DEF TypeInv, TypeOK, Listed
  <2>3. j \in Job /\ BacksUp(j)
    BY <1>Vars, <2>2, IdleIsJob DEF Job, Op, Pc, BacksUp
  <2> QED
    BY <1>12, <2>1, <2>3, StartTypes DEF Bootstrap
<1>13. CASE Report(p) \/ Abort(p) \/ RefuseUnregistered(p) \/ RefuseUnreadable(p)
  BY <1>13, EndTypes DEF Report, Abort, RefuseUnregistered, RefuseUnreadable
<1> QED
  BY <1>3, <1>4, <1>5, <1>6, <1>7, <1>8, <1>9, <1>10, <1>11, <1>12, <1>13

\* A copy put in a slot, there already or new, leaves a list of texts.
LEMMA CopiesTypes ==
    ASSUME NEW copies \in Seq(Text), NEW slot, NEW text \in Text
    PROVE  [copies EXCEPT ![slot] = text] \in Seq(Text) /\ Append(copies, text) \in Seq(Text)
<1>1. CASE slot \in 1..Len(copies)
  BY <1>1, ExceptSeq
<1>2. CASE slot \notin 1..Len(copies)
  <2>1. copies \in [1..Len(copies) -> Text]
    OBVIOUS
  <2>2. [copies EXCEPT ![slot] = text] = copies
    BY <1>2, <2>1
  <2>3. Append(copies, text) \in Seq(Text)
    OBVIOUS
  <2> QED
    BY <2>2, <2>3, Zenon
<1> QED
  BY <1>1, <1>2

\* The steps that also change a file, a backup, the record or the manifest.
LEMMA TypeDiskStep ==
    ASSUME TypeInv, NEW p \in Proc,
           \/ Write(p) \/ RunCommand(p) \/ WriteRecord(p) \/ RecordLockfiles(p)
           \/ Backup(p) \/ Unlist(p) \/ TearFile(p) \/ TearBackup(p) \/ TearRecord(p)
    PROVE  TypeInv'
<1> USE DEF person
<1>Job. job[p] \in Job /\ \A q \in Proc : BacksUp(job[q])
  BY DEF TypeInv, TypeOK
<1>Vars. /\ factory.rev \in Nat /\ disk \in [File -> Text \cup {Absent}]
         /\ backups \in [File -> Seq(Text)] /\ record \in [File -> Entry]
  BY BoundAssumption DEF TypeInv, TypeOK
<1>Record. NewRecord(job[p]) \in [File -> Entry]
  <2>1. [job[p].snap EXCEPT ![job[p].at] = Unlisted] \in [File -> Entry]
    BY <1>Job DEF Job, Entry
  <2>2. \A f \in File : EntryFor(job[p], f) \in Entry
    BY <1>Job, <1>Vars DEF EntryFor, Job, Entry
  <2> QED
    BY <2>1, <2>2 DEF NewRecord, Entry
<1>1. CASE Write(p)
  <2> DEFINE f == job[p].at
             text == Render(job[p].rev)
             j == [job[p] EXCEPT !.todo = @ \ {f}, !.at = NoFile,
                                 !.pc = "guard", !.entries[f] = text]
  <2>1. text \in Text
    BY <1>Job, ValueTypes DEF Job
  <2>3. [job[p].entries EXCEPT ![f] = text] \in [File -> Entry]
    BY <1>Job, <2>1 DEF Job, Entry
  <2>4. j \in Job /\ j.pc = "guard"
    BY <1>Job, <2>3 DEF Job, Pc
  <2>5. Continue(p, j) /\ disk' = [disk EXCEPT ![f] = text]
    BY <1>1 DEF Write
  <2>6. disk' \in [File -> Text \cup {Absent}]
    BY <2>1, <2>5, <1>Vars
  <2> HIDE DEF f, text, j
  <2> QED
    BY <1>1, <2>4, <2>5, <2>6, ContinueTypes DEF Write, TypeInv, TypeOK
<1>2. CASE RunCommand(p)
  <2>1. PICK c \in job[p].toRun, stops \in BOOLEAN, touched \in SUBSET File :
           /\ disk' = [f \in File |-> IF f \notin touched THEN disk[f]
                                      ELSE IF f \in job[p].locks
                                      THEN [kind |-> "settled", n |-> job[p].rev]
                                      ELSE Settle(disk[f])]
           /\ Continue(p, [job[p] EXCEPT
                  !.toRun = IF stops THEN {} ELSE @ \ {c},
                  !.failed = @ \/ stops])
    <3>1. \A c \in job[p].toRun : Under[c] \subseteq File
      BY <1>Job, FileAssumption DEF Job
    <3> QED
      BY <1>2, <3>1 DEF RunCommand
  <2> DEFINE j == [job[p] EXCEPT !.toRun = IF stops THEN {} ELSE @ \ {c},
                                 !.failed = @ \/ stops]
  <2>2. [kind |-> "settled", n |-> job[p].rev] \in Text
    BY <1>Job DEF Job, Text
  <2>3. \A f \in File : Settle(disk[f]) \in Text \cup {Absent}
    BY <1>Vars, ValueTypes
  <2>4. disk' \in [File -> Text \cup {Absent}]
    BY <1>Vars, <2>1, <2>2, <2>3
  <2>5. (job[p].failed \/ stops) \in BOOLEAN
    OBVIOUS
  <2>6. j \in Job /\ j.pc = "run"
    BY <1>2, <1>Job, <2>5 DEF Job, RunCommand
  <2> QED
    BY <1>2, <2>1, <2>4, <2>6, ContinueTypes DEF RunCommand, TypeInv, TypeOK
<1>3. CASE WriteRecord(p)
  <2>1. [job[p] EXCEPT !.pc = "lockfiles"] \in Job
        /\ [job[p] EXCEPT !.pc = "lockfiles"].pc = "lockfiles"
    BY <1>Job DEF Job, Pc
  <2>2. edit' \in [File -> [text : Text \cup {Absent}, recorded : BOOLEAN]]
    BY <1>3 DEF WriteRecord, NoEdit, TypeInv, TypeOK
  <2> QED
    BY <1>3, <1>Record, <2>1, <2>2, ContinueTypes, EndTypes DEF WriteRecord, TypeInv, TypeOK
<1>4. CASE RecordLockfiles(p)
  <2>1. manifest' \in [File -> Entry]
    BY <1>4, <1>Vars DEF RecordLockfiles, Entry
  <2> QED
    BY <1>4, <2>1, EndTypes DEF RecordLockfiles, TypeInv, TypeOK
<1>5. CASE Backup(p)
  <2>1. job[p].held \in Text /\ job[p].slot \in Nat
    BY <1>5, <1>Job DEF Backup, Job, BacksUp
  <2>2. \A f \in File : /\ [backups[f] EXCEPT ![job[p].slot] = job[p].held] \in Seq(Text)
                        /\ Append(backups[f], job[p].held) \in Seq(Text)
    BY <1>Vars, <2>1, CopiesTypes
  <2>3. backups' \in [File -> Seq(Text)]
    BY <1>5, <1>Vars, <2>2 DEF Backup
  <2>4. [job[p] EXCEPT !.pc = "unlist"] \in Job /\ [job[p] EXCEPT !.pc = "unlist"].pc = "unlist"
    BY <1>Job DEF Job, Pc
  <2> QED
    BY <1>5, <2>3, <2>4, ContinueTypes DEF Backup, TypeInv, TypeOK
<1>6. CASE Unlist(p)
  BY <1>6, <1>Record, EndTypes DEF Unlist, TypeInv, TypeOK
<1>7. CASE TearFile(p)
  <2>1. disk' \in [File -> Text \cup {Absent}]
    BY <1>7, <1>Vars, ValueTypes DEF TearFile
  <2> QED
    BY <1>7, <2>1, EndTypes DEF TearFile, TypeInv, TypeOK
<1>8. CASE TearRecord(p)
  BY <1>8, EndTypes DEF TearRecord, TypeInv, TypeOK
<1>9. CASE TearBackup(p)
  <2>1. \A f \in File : /\ [backups[f] EXCEPT ![job[p].slot] = Torn] \in Seq(Text)
                        /\ Append(backups[f], Torn) \in Seq(Text)
    BY <1>Vars, ValueTypes, CopiesTypes
  <2>2. backups' \in [File -> Seq(Text)]
    BY <1>9, <1>Vars, <2>1 DEF TearBackup
  <2>3. edit' \in [File -> [text : Text \cup {Absent}, recorded : BOOLEAN]]
    BY <1>9 DEF TearBackup, NoEdit, TypeInv, TypeOK
  <2> QED
    BY <1>9, <2>2, <2>3, EndTypes DEF TearBackup, TypeInv, TypeOK
<1> QED
  BY <1>1, <1>2, <1>3, <1>4, <1>5, <1>6, <1>7, <1>8, <1>9

\* What a person does.
LEMMA TypePersonStep == ASSUME TypeInv, Bump \/ Edit \/ Delete \/ DiscardRecord PROVE TypeInv'
<1>1. CASE Bump
  <2>1. factory' \in [rev : 0..MaxRev, files : SUBSET File]
    BY <1>1, BoundAssumption, FileAssumption DEF Bump, TypeInv, TypeOK
  <2> QED
    BY <1>1, <2>1 DEF Bump, person, TypeInv, TypeOK
<1>2. ASSUME NEW f \in File, NEW text \in Text \cup {Absent}, Change(f, text)
      PROVE  TypeInv'
  <2>1. disk' \in [File -> Text \cup {Absent}] /\ edits' \in 0..MaxEdits
    BY <1>2, BoundAssumption DEF Change, TypeInv, TypeOK
  <2>2. edit' \in [File -> [text : Text \cup {Absent}, recorded : BOOLEAN]]
    BY <1>2 DEF Change, TypeInv, TypeOK, NoEdit
  <2>3. disturbed' \subseteq Proc
    BY <1>2 DEF Change, TypeInv, TypeOK, Running
  <2> QED
    BY <1>2, <2>1, <2>2, <2>3 DEF Change, TypeInv, TypeOK
<1>3. CASE Edit
  <2>1. [kind |-> "edited", n |-> edits + 1] \in Text
    BY DEF Text, TypeInv, TypeOK
  <2> QED
    BY <1>2, <1>3, <2>1 DEF Edit
<1>4. CASE Delete
  BY <1>2, <1>4 DEF Delete
<1>5. CASE DiscardRecord
  <2>1. record' \in [File -> Entry] /\ disturbed' \subseteq Proc
    BY <1>5 DEF DiscardRecord, NoEntries, Entry, Running, TypeInv, TypeOK
  <2>2. edit' \in [File -> [text : Text \cup {Absent}, recorded : BOOLEAN]]
    BY <1>5 DEF DiscardRecord, NoEdit, TypeInv, TypeOK
  <2> QED
    BY <1>5, <2>1, <2>2 DEF DiscardRecord, TypeInv, TypeOK
<1> QED
  BY <1>1, <1>3, <1>4, <1>5

LEMMA TypeStep == TypeInv /\ [Next]_vars => TypeInv'
<1> SUFFICES ASSUME TypeInv, [Next]_vars PROVE TypeInv'
  OBVIOUS
<1>1. CASE UNCHANGED vars
  BY <1>1 DEF vars, TypeInv, TypeOK
<1>2. CASE Next
  BY <1>2, TypeJobStep, TypeDiskStep, TypePersonStep DEF Next, Step
<1> QED
  BY <1>1, <1>2

\* Every variable keeps its type and every counter its bound, whatever runs
\* overlap, fail or die.
THEOREM TypeCorrect == Spec => []TypeOK
<1>1. TypeInv => TypeOK
  BY DEF TypeInv
<1> QED
  BY <1>1, TypeInit, TypeStep, PTL DEF Spec

-----------------------------------------------------------------------------
(* Jobs: what each carries from step to step.                               *)

LEMMA IdleJobInv == JobInv(Idle)
BY DEF JobInv, Idle

\* p goes on with j, the other jobs stay as they are.
Becomes(p, j) == job' = [job EXCEPT ![p] = j]

LEMMA BecomesJobInv ==
    ASSUME TypeInv, RecordInv, NEW p \in Proc, NEW j, Becomes(p, j), JobInv(j)
    PROVE  \A q \in Proc : JobInv(job'[q])
BY DEF TypeInv, TypeOK, RecordInv, Becomes

LEMMA JobInvStep ==
    ASSUME TypeInv, RecordInv, NEW p \in Proc, Begin(p) \/ Take(p) \/ Bootstrap(p) \/ Step(p)
                                        \/ Abort(p) \/ TearFile(p) \/ TearBackup(p)
                                        \/ TearRecord(p)
    PROVE  \A q \in Proc : JobInv(job'[q])
<1>Job. job[p] \in Job /\ JobInv(job[p])
  BY DEF TypeInv, TypeOK, RecordInv
<1>Locks. \A l \in Lang : LockfilesFor(job[p], l) \cap Rendered = {}
  BY AskedTypes
<1>Moves. SUFFICES \E j : Becomes(p, j) /\ JobInv(j)
  BY BecomesJobInv
<1> USE DEF FilesFor
<1>1. CASE End(p)
  BY <1>1, IdleJobInv DEF End, Becomes
<1>2. CASE Begin(p)
  <2>1. PICK o \in {"sync", "lock"} :
            Becomes(p, [Idle EXCEPT !.op = o, !.pc = "resolve", !.rev = factory.rev,
                                    !.files = factory.files,
                                    !.snap = record, !.langs = Languages(factory.files)])
    BY <1>2 DEF Begin, Start, Becomes
  <2>2. JobInv([Idle EXCEPT !.op = o, !.pc = "resolve", !.rev = factory.rev,
                            !.files = factory.files,
                            !.snap = record, !.langs = Languages(factory.files)])
    BY DEF JobInv, Idle, Languages
  <2> QED
    BY <2>1, <2>2
<1>3. CASE SkipLanguage(p)
  <2>1. PICK l \in job[p].langs :
            Becomes(p, [job[p] EXCEPT !.langs = @ \ {l}, !.failed = TRUE,
                                      !.kept = Listed(job[p].snap)])
    BY <1>3 DEF SkipLanguage, Continue, Becomes
  <2>2. JobInv([job[p] EXCEPT !.langs = @ \ {l}, !.failed = TRUE,
                              !.kept = Listed(job[p].snap)])
    BY <1>3, <1>Job DEF JobInv, Job, SkipLanguage
  <2> QED
    BY <2>1, <2>2
<1>4. CASE RenderLanguage(p)
  <2> PICK l \in job[p].langs :
        Becomes(p, LET collected == [job[p] EXCEPT !.langs = @ \ {l},
                                                   !.gen = @ \cup FilesFor(job[p], l),
                                                   !.locks = @ \cup LockfilesFor(job[p], l)]
                   IN IF job[p].op = "sync"
                      THEN [collected EXCEPT !.todo = FilesFor(job[p], l), !.pc = "guard"]
                      ELSE [collected EXCEPT !.settling = @ \cup CmdsFor(job[p], l)])
    BY <1>4 DEF RenderLanguage, Continue, Becomes
  <2>1. l \in Lang /\ FilesFor(job[p], l) \subseteq File
    BY <1>Job, FileAssumption DEF Job
  <2> DEFINE collected == [job[p] EXCEPT !.langs = @ \ {l},
                                         !.gen = @ \cup FilesFor(job[p], l),
                                         !.locks = @ \cup LockfilesFor(job[p], l)]
             synced == [collected EXCEPT !.todo = FilesFor(job[p], l), !.pc = "guard"]
             locked == [collected EXCEPT !.settling = @ \cup CmdsFor(job[p], l)]
  <2>2. ASSUME job[p].op = "sync" PROVE JobInv(synced)
    BY <1>4, <1>Job, <1>Locks, <2>1, <2>2 DEF JobInv, Job, RenderLanguage
  <2>3. ASSUME job[p].op # "sync" PROVE JobInv(locked)
    BY <1>4, <1>Job, <1>Locks, <2>1, <2>3 DEF JobInv, Job, RenderLanguage
  <2> QED
    BY <2>2, <2>3
<1>5. CASE Guard(p)
  <2>1. PICK f \in job[p].todo, settling \in SUBSET Cmd :
            Becomes(p, Writes(p, f, settling)) \/ Becomes(p, Refuses(p, f))
    BY <1>5, GuardMoves DEF Continue, Becomes
  <2>2. JobInv(Writes(p, f, settling)) /\ JobInv(Refuses(p, f))
    BY <1>5, <1>Job DEF JobInv, Job, Guard, Writes, Refuses
  <2> QED
    BY <2>1, <2>2
<1>6. CASE Write(p)
  <2> DEFINE f == job[p].at
             text == Render(job[p].rev)
             j == [job[p] EXCEPT !.todo = @ \ {f}, !.at = NoFile,
                                 !.pc = "guard", !.entries[f] = text]
  <2>1. Becomes(p, j)
    BY <1>6 DEF Write, Continue, Becomes
  <2>2. text # Unlisted
    BY <1>Job, ValueTypes DEF Job
  <2>3. \A g \in File : [job[p].entries EXCEPT ![f] = text][g]
                          = IF g = f THEN text ELSE job[p].entries[g]
    BY <1>Job DEF Job
  <2> HIDE DEF text
  <2>4. JobInv(j)
    BY <1>6, <1>Job, <2>2, <2>3 DEF JobInv, Job, Write
  <2> QED
    BY <2>1, <2>4
<1>7. CASE Written(p)
  <2> DEFINE j == [job[p] EXCEPT
                     !.pc = IF job[p].op = "bootstrap" THEN "record" ELSE "resolve"]
  <2>1. Becomes(p, j)
    BY <1>7 DEF Written, Continue, Becomes
  <2>2. JobInv(j)
    BY <1>7, <1>Job DEF JobInv, Job, Written
  <2> QED
    BY <2>1, <2>2
<1>8. CASE Resolved(p)
  <2> DEFINE j == [job[p] EXCEPT !.pc = IF job[p].op = "lock" THEN "check" ELSE "run",
                                 !.toRun = job[p].settling]
  <2>1. Becomes(p, j)
    BY <1>8 DEF Resolved, Continue, Becomes
  <2>2. JobInv(j)
    BY <1>8, <1>Job DEF JobInv, Job, Resolved
  <2> QED
    BY <2>1, <2>2
<1>9. CASE GuardRendered(p)
  <2>1. \/ Becomes(p, [job[p] EXCEPT !.pc = "run"])
        \/ \E f \in job[p].gen : Becomes(p, [job[p] EXCEPT !.pc = "refused", !.at = f])
    BY <1>9 DEF GuardRendered, Refuse, Continue, Becomes
  <2>2. /\ JobInv([job[p] EXCEPT !.pc = "run"])
        /\ \A f \in job[p].gen : JobInv([job[p] EXCEPT !.pc = "refused", !.at = f])
    BY <1>9, <1>Job DEF JobInv, Job, GuardRendered
  <2> QED
    BY <2>1, <2>2
<1>10. CASE RunCommand(p)
  <2>1. \E ran \in SUBSET Cmd, b \in BOOLEAN :
            Becomes(p, [job[p] EXCEPT !.toRun = ran, !.failed = b])
    <3>1. PICK c \in job[p].toRun, stops \in BOOLEAN :
              Becomes(p, [job[p] EXCEPT !.toRun = IF stops THEN {} ELSE @ \ {c},
                                        !.failed = @ \/ stops])
      BY <1>10 DEF RunCommand, Continue, Becomes
    <3>2. (IF stops THEN {} ELSE job[p].toRun \ {c}) \in SUBSET Cmd
      BY <1>Job DEF Job
    <3>3. (job[p].failed \/ stops) \in BOOLEAN
      OBVIOUS
    <3> QED
      BY <3>1, <3>2, <3>3
  <2>2. \A ran \in SUBSET Cmd, b \in BOOLEAN :
            JobInv([job[p] EXCEPT !.toRun = ran, !.failed = b])
    BY <1>Job DEF JobInv, Job
  <2> QED
    BY <2>1, <2>2
<1>11. CASE ReadBack(p)
  <2> DEFINE back == {f \in ReadBackFiles(job[p]) : disk[f] # Absent}
             new == [f \in File |-> IF f \in back THEN disk[f] ELSE job[p].entries[f]]
             j == [job[p] EXCEPT !.pc = "record", !.entries = new]
  <2>1. Becomes(p, j)
    BY <1>11 DEF ReadBack, Continue, Becomes
  <2>2. \A f \in File : job[p].entries[f] # Unlisted => new[f] # Unlisted
    BY ValueTypes DEF TypeInv, TypeOK
  <2> HIDE DEF new
  <2>3. JobInv(j)
    BY <1>11, <1>Job, <2>2 DEF JobInv, Job, ReadBack
  <2> QED
    BY <2>1, <2>3
<1>12. CASE WriteRecord(p) /\ ~End(p)
  <2>1. Becomes(p, [job[p] EXCEPT !.pc = "lockfiles"])
    BY <1>12 DEF WriteRecord, Continue, Becomes
  <2>2. JobInv([job[p] EXCEPT !.pc = "lockfiles"])
    BY <1>12, <1>Job DEF JobInv, Job, WriteRecord
  <2> QED
    BY <2>1, <2>2
<1>13. CASE Take(p)
  <2>1. PICK f \in File :
            Becomes(p, [Idle EXCEPT !.op = "take", !.pc = "backup", !.snap = record,
                                    !.at = f, !.held = disk[f],
                                    !.slot = Len(backups[f]) + 1])
    BY <1>13 DEF Take, Start, Becomes
  <2>2. JobInv([Idle EXCEPT !.op = "take", !.pc = "backup", !.snap = record,
                            !.at = f, !.held = disk[f], !.slot = Len(backups[f]) + 1])
    BY DEF JobInv, Idle
  <2> QED
    BY <2>1, <2>2
<1>14. CASE Backup(p)
  <2>1. Becomes(p, [job[p] EXCEPT !.pc = "unlist"])
    BY <1>14 DEF Backup, Continue, Becomes
  <2>2. JobInv([job[p] EXCEPT !.pc = "unlist"])
    BY <1>14, <1>Job DEF JobInv, Job, Backup
  <2> QED
    BY <2>1, <2>2
<1>15. CASE Bootstrap(p)
  <2>1. PICK r \in 0..factory.rev, files \in SUBSET Placed :
            Becomes(p, [Idle EXCEPT !.op = "bootstrap", !.pc = "guard", !.rev = r,
                                    !.snap = record, !.todo = files, !.gen = files,
                                    !.kept = Listed(record)])
    BY <1>15 DEF Bootstrap, Start, Becomes
  <2>2. JobInv([Idle EXCEPT !.op = "bootstrap", !.pc = "guard", !.rev = r,
                            !.snap = record, !.todo = files, !.gen = files,
                            !.kept = Listed(record)])
    BY DEF JobInv, Idle
  <2> QED
    BY <2>1, <2>2
<1> QED
  BY <1>1, <1>2, <1>3, <1>4, <1>5, <1>6, <1>7, <1>8, <1>9, <1>10, <1>11, <1>12,
     <1>13, <1>14, <1>15
  DEF Step, Abort, TearFile, TearBackup, TearRecord, RefuseUnregistered, RefuseUnreadable, Unlist, Report, RecordLockfiles

-----------------------------------------------------------------------------
(* Edits: no step of a job harms the only copy of one.                      *)

\* A step of p that leaves every live copy, its guard and the backups alone
\* keeps EditInv, when what p goes on with spares the edit too.
LEMMA JobMoves ==
    ASSUME TypeInv, NEW f \in Rendered, EditInv(f), NEW p \in Proc, NEW j \in Job,
           Becomes(p, j),
           edit'[f] = edit[f], backups'[f] = backups[f],
           Live(f) => disk'[f] = disk[f] /\ Guarded(record', f),
           Live(f) /\ j.pc # "idle" => Spares(j, f),
           edit[f].recorded /\ j.pc = "backup" /\ j.at = f =>
               \/ j.held = edit[f].text
               \/ \E i \in DOMAIN backups[f] : i < j.slot /\ backups[f][i] = edit[f].text
    PROVE  EditInv(f)'
<1>Job. \A q \in Proc : job'[q] = IF q = p THEN j ELSE job[q]
  BY DEF Becomes, TypeInv, TypeOK
<1>1. Live(f)' <=> Live(f)
  BY DEF Live
<1>2. (edit[f].recorded => edit[f].text.kind = "edited")'
  BY DEF EditInv
<1>3. ASSUME Live(f) PROVE disk'[f] = edit'[f].text /\ Guarded(record, f)'
  BY <1>3 DEF EditInv, Guarded
<1>4. ASSUME Live(f), NEW q \in Running' PROVE Spares(job[q], f)'
  <2>1. CASE q = p
    BY <1>4, <1>Job, <2>1 DEF Running, Spares, Guarded
  <2>2. CASE q # p
    BY <1>4, <1>Job, <2>2 DEF Running, Spares, Guarded, EditInv
  <2> QED
    BY <2>1, <2>2
<1>5. ASSUME edit'[f].recorded, NEW q \in Proc PROVE BackupSpares(q, f)'
  <2>1. CASE q = p
    BY <1>5, <1>Job, <2>1 DEF BackupSpares
  <2>2. CASE q # p
    BY <1>5, <1>Job, <2>2 DEF BackupSpares, EditInv
  <2> QED
    BY <2>1, <2>2
<1> QED
  BY <1>1, <1>2, <1>3, <1>4, <1>5 DEF EditInv

\* The guard cannot take a live edit for the render it recorded.
LEMMA GuardRefuses ==
    ASSUME NEW f \in Rendered, EditInv(f), Live(f), NEW rec, Guarded(rec, f)
    PROVE  ~Accepts(rec, f)
<1>1. disk[f] = edit[f].text /\ edit[f].text.kind = "edited"
  BY DEF EditInv, Live
<1>2. disk[f] # Absent
  BY <1>1 DEF Absent
<1> QED
  BY <1>1, <1>2, ValueTypes DEF Accepts, Guarded

LEMMA RenderedIsFile == Rendered \subseteq File
BY FileAssumption DEF Rendered

LEMMA IdleSpares ==
    ASSUME TypeInv, NEW f \in Rendered, EditInv(f), NEW p \in Proc, End(p),
           edit'[f] = edit[f], backups'[f] = backups[f],
           Live(f) => disk'[f] = disk[f] /\ Guarded(record', f)
    PROVE  EditInv(f)'
<1>1. Becomes(p, Idle) /\ Idle.pc = "idle"
  BY DEF End, Becomes, Idle
<1> QED
  BY <1>1, IdleIsJob, JobMoves

\* What a job that moves on by p's steps carries, for a live edit of f.
LEMMA EditStart ==
    ASSUME TypeInv, RecordInv, NEW f \in Rendered, NEW p \in Proc,
           Begin(p) \/ Take(p) \/ Bootstrap(p)
    PROVE  EditInv(f)'
<1>Same. /\ edit'[f] = edit[f] /\ backups'[f] = backups[f]
         /\ Live(f) => disk'[f] = disk[f] /\ Guarded(record', f)
  BY DEF Begin, Take, Bootstrap, workspace, person, RecordInv, EditInv, Guarded
<1>Vars. /\ EditInv(f) /\ f \in File /\ record \in [File -> Entry]
         /\ factory.rev \in Nat /\ factory.files \subseteq File
         /\ disk \in [File -> Text \cup {Absent}] /\ backups \in [File -> Seq(Text)]
  BY RenderedIsFile, BoundAssumption DEF RecordInv, TypeInv, TypeOK
<1>Snap. Live(f) => Guarded(record, f) /\ Idle.entries[f] = Unlisted
  BY <1>Vars DEF EditInv, Idle, NoEntries
<1>1. CASE Begin(p)
  <2>1. PICK o \in {"sync", "lock"} :
            Becomes(p, [Idle EXCEPT !.op = o, !.pc = "resolve", !.rev = factory.rev,
                                    !.files = factory.files,
                                    !.snap = record, !.langs = Languages(factory.files)])
    BY <1>1 DEF Begin, Start, Becomes
  <2> DEFINE j == [Idle EXCEPT !.op = o, !.pc = "resolve", !.rev = factory.rev,
                               !.files = factory.files,
                               !.snap = record, !.langs = Languages(factory.files)]
  <2>2. j \in Job /\ j.pc = "resolve"
    BY <1>Vars, IdleIsJob DEF Job, Op, Pc, Languages
  <2>3. Live(f) => Spares(j, f)
    BY <1>Snap DEF Spares, Idle
  <2> QED
    BY <1>Same, <1>Vars, <2>1, <2>2, <2>3, JobMoves
<1>2. CASE Bootstrap(p)
  <2>1. PICK r \in 0..factory.rev, files \in SUBSET Placed :
            Becomes(p, [Idle EXCEPT !.op = "bootstrap", !.pc = "guard", !.rev = r,
                                    !.snap = record, !.todo = files, !.gen = files,
                                    !.kept = Listed(record)])
    BY <1>2 DEF Bootstrap, Start, Becomes
  <2> DEFINE j == [Idle EXCEPT !.op = "bootstrap", !.pc = "guard", !.rev = r,
                               !.snap = record, !.todo = files, !.gen = files,
                               !.kept = Listed(record)]
  <2>2. r \in Nat /\ files \subseteq File /\ Listed(record) \subseteq File
    BY <1>Vars, FileAssumption DEF Listed
  <2>3. j \in Job /\ j.pc = "guard"
    BY <1>Vars, <2>2, IdleIsJob DEF Job, Op, Pc
  <2>4. Live(f) => Spares(j, f)
    BY <1>Snap DEF Spares, Idle
  <2> QED
    BY <1>Same, <1>Vars, <2>1, <2>3, <2>4, JobMoves
<1>3. CASE Take(p)
  <2>1. PICK g \in File :
          /\ disk[g] # Absent
          /\ Becomes(p, [Idle EXCEPT !.op = "take", !.pc = "backup", !.snap = record,
                                     !.at = g, !.held = disk[g],
                                     !.slot = Len(backups[g]) + 1])
    BY <1>3 DEF Take, Start, Becomes
  <2> DEFINE j == [Idle EXCEPT !.op = "take", !.pc = "backup", !.snap = record,
                               !.at = g, !.held = disk[g], !.slot = Len(backups[g]) + 1]
  <2>2. Len(backups[g]) + 1 \in Nat /\ \A i \in DOMAIN backups[g] : i < Len(backups[g]) + 1
    BY <1>Vars
  <2>3. j \in Job /\ j.at = g /\ j.held = disk[g] /\ j.slot = Len(backups[g]) + 1
    BY <1>Vars, <2>1, <2>2, IdleIsJob DEF Job, Op, Pc
  <2>4. Live(f) => Spares(j, f)
    BY <1>Snap DEF Spares, Idle
  <2>5. edit[f].recorded /\ j.at = f =>
           \/ j.held = edit[f].text
           \/ \E i \in DOMAIN backups[f] : i < j.slot /\ backups[f][i] = edit[f].text
    BY <1>Vars, <2>2, <2>3 DEF Live, EditInv
  <2> HIDE DEF j
  <2> QED
    BY <1>Same, <1>Vars, <2>1, <2>3, <2>4, <2>5, JobMoves DEF j
<1> QED
  BY <1>1, <1>2, <1>3

\* What p writes to the record still makes the guard refuse a live edit, but of
\* a file that the factory p read has dropped.
LEMMA NewRecordGuards ==
    ASSUME TypeInv, RecordInv, NEW f \in Rendered, Live(f), NEW p \in Proc,
           job[p].pc \in {"record", "unlist"}, f \notin Dropped(job[p])
    PROVE  Guarded(NewRecord(job[p]), f)
<1>Job. job[p] \in Job /\ JobInv(job[p])
  BY DEF TypeInv, TypeOK, RecordInv
<1>Spared. Spares(job[p], f) /\ Guarded(record, f) /\ f \in File
  BY RenderedIsFile DEF RecordInv, EditInv, Running
<1>1. CASE job[p].op = "take"
  <2>1. job[p].pc = "unlist" /\ job[p].at # f
    BY <1>1, <1>Job, <1>Spared DEF JobInv, Spares
  <2>2. NewRecord(job[p])[f] = job[p].snap[f]
    BY <1>1, <1>Job, <1>Spared, <2>1 DEF NewRecord, Job
  <2> QED
    BY <2>2, <1>Spared DEF Spares, Guarded
<1>2. CASE job[p].op # "take"
  <2>1. job[p].pc = "record" /\ f \notin job[p].gen /\ job[p].entries[f] = Unlisted
    BY <1>2, <1>Job, <1>Spared DEF JobInv, Spares
  <2>2. f \in Listed(job[p].snap)
    BY <1>Spared, ValueTypes DEF Spares, Guarded, Listed
  <2>3. f \in RecordedFiles(job[p])
    <3>1. PICK l \in Lang : f \in FilesOf[l]
      BY DEF Rendered
    <3>2. job[p].op = "bootstrap" \/ l \in Lang \ job[p].langs
      BY <1>Job, <2>1, <3>1 DEF JobInv
    <3>3. CASE f \in job[p].files \/ job[p].op = "bootstrap"
      BY <1>Job, <2>1, <2>2, <3>1, <3>2, <3>3 DEF JobInv, FilesFor, RecordedFiles
    <3>4. CASE f \notin job[p].files /\ job[p].op # "bootstrap"
      <4>1. job[p].op \in {"sync", "lock"} /\ record[f] # Unlisted
        BY <1>Job, <1>Spared, <2>1, <3>4, ValueTypes DEF JobInv, Guarded
      <4>2. NewRecord(job[p])[f] # Unlisted
        BY <3>4, <4>1 DEF Dropped
      <4> QED
        BY <1>2, <1>Spared, <4>2 DEF NewRecord
    <3> QED
      BY <3>3, <3>4
  <2>4. EntryFor(job[p], f) = record[f]
    BY <2>1, <1>Spared, ValueTypes DEF EntryFor, Guarded
  <2>5. NewRecord(job[p])[f] = record[f]
    BY <1>2, <1>Spared, <2>3, <2>4 DEF NewRecord
  <2> QED
    BY <2>5, <1>Spared DEF Guarded
<1> QED
  BY <1>1, <1>2

\* An edit that is no longer on record asks for nothing.
LEMMA EditLetGo ==
    ASSUME NEW f \in Rendered, edit'[f] = NoEdit
    PROVE  EditInv(f)'
BY DEF EditInv, Live, NoEdit

LEMMA EditEnd ==
    ASSUME TypeInv, RecordInv, NEW f \in Rendered, NEW p \in Proc, End(p),
           \/ Abort(p) \/ Report(p) \/ RefuseUnregistered(p) \/ RefuseUnreadable(p)
           \/ Unlist(p) \/ RecordLockfiles(p) \/ TearFile(p) \/ TearRecord(p)
           \/ WriteRecord(p) /\ f \notin Dropped(job[p])
    PROVE  EditInv(f)'
<1>Vars. /\ EditInv(f) /\ f \in File /\ disk \in [File -> Text \cup {Absent}]
         /\ edit'[f] = edit[f] /\ backups'[f] = backups[f]
  BY RenderedIsFile
  DEF RecordInv, TypeInv, TypeOK, Abort, Report, RefuseUnregistered, RefuseUnreadable,
      Unlist, WriteRecord, RecordLockfiles, TearFile, TearRecord, workspace, person
<1>1. ASSUME Live(f) PROVE disk'[f] = disk[f]
  <2>1. CASE TearFile(p)
    <3>1. job[p].at # f
      BY <1>1, <1>Vars, <2>1 DEF TearFile, EditInv, Spares, Running
    <3> QED
      BY <1>Vars, <2>1, <3>1 DEF TearFile
  <2> QED
    BY <2>1 DEF Abort, Report, RefuseUnregistered, RefuseUnreadable, Unlist,
                WriteRecord, RecordLockfiles, TearRecord, workspace
<1>2. ASSUME Live(f) PROVE Guarded(record', f)
  <2>1. CASE Unlist(p) \/ (WriteRecord(p) /\ f \notin Dropped(job[p]))
    <3>1. f \notin Dropped(job[p]) /\ job[p].pc \in {"record", "unlist"}
      BY <2>1 DEF Dropped, Unlist, WriteRecord, RecordInv, JobInv
    <3> QED
      BY <1>2, <2>1, <3>1, NewRecordGuards DEF Unlist, WriteRecord
  <2>2. CASE record' = record
    BY <1>2, <1>Vars, <2>2 DEF EditInv
  <2> QED
    BY <2>1, <2>2 DEF Abort, Report, RefuseUnregistered, RefuseUnreadable, TearFile,
                      RecordLockfiles, TearRecord, workspace
<1> QED
  BY <1>1, <1>2, <1>Vars, IdleSpares

\* The steps before any command runs.
LEMMA EditRender ==
    ASSUME TypeInv, RecordInv, NEW f \in Rendered, NEW p \in Proc,
           \/ SkipLanguage(p) \/ RenderLanguage(p) \/ Guard(p) \/ Written(p)
           \/ Resolved(p) \/ GuardRendered(p)
    PROVE  EditInv(f)'
<1>Job. job[p] \in Job /\ JobInv(job[p]) /\ f \in File /\ EditInv(f)
  BY RenderedIsFile DEF TypeInv, TypeOK, RecordInv
<1>Same. /\ edit'[f] = edit[f] /\ backups'[f] = backups[f]
         /\ Live(f) => disk'[f] = disk[f] /\ Guarded(record', f)
  BY <1>Job DEF SkipLanguage, RenderLanguage, Guard, Refuse, Written, Resolved,
                GuardRendered, workspace, person, EditInv
<1>Spared. Live(f) => Spares(job[p], f) /\ Guarded(record, f)
  BY <1>Job DEF EditInv, Running, SkipLanguage, RenderLanguage, Guard, Written, Resolved,
                GuardRendered
<1>Moves. SUFFICES \E j \in Job : /\ Becomes(p, j)
                                  /\ j.pc # "backup"
                                  /\ Live(f) => Spares(j, f)
  BY <1>Job, <1>Same, JobMoves
<1>1. CASE SkipLanguage(p)
  <2>1. PICK l \in job[p].langs :
            Becomes(p, [job[p] EXCEPT !.langs = @ \ {l}, !.failed = TRUE,
                                      !.kept = Listed(job[p].snap)])
    BY <1>1 DEF SkipLanguage, Continue, Becomes
  <2> DEFINE j == [job[p] EXCEPT !.langs = @ \ {l}, !.failed = TRUE,
                                 !.kept = Listed(job[p].snap)]
  <2>2. j \in Job /\ j.pc = "resolve"
    BY <1>Job, <1>1 DEF Job, Listed, SkipLanguage
  <2>3. Live(f) => Spares(j, f)
    BY <1>1, <1>Job, <1>Spared DEF Spares, SkipLanguage, Job
  <2> QED
    BY <2>1, <2>2, <2>3
<1>2. CASE RenderLanguage(p)
  <2> PICK l \in job[p].langs :
        Becomes(p, LET collected == [job[p] EXCEPT !.langs = @ \ {l},
                                                   !.gen = @ \cup FilesFor(job[p], l),
                                                   !.locks = @ \cup LockfilesFor(job[p], l)]
                   IN IF job[p].op = "sync"
                      THEN [collected EXCEPT !.todo = FilesFor(job[p], l), !.pc = "guard"]
                      ELSE [collected EXCEPT !.settling = @ \cup CmdsFor(job[p], l)])
    BY <1>2 DEF RenderLanguage, Continue, Becomes
  <2>1. /\ FilesFor(job[p], l) \subseteq File /\ LockfilesFor(job[p], l) \subseteq File
        /\ CmdsFor(job[p], l) \subseteq Cmd
    BY <1>Job, AskedTypes DEF Job
  <2> DEFINE collected == [job[p] EXCEPT !.langs = @ \ {l},
                                         !.gen = @ \cup FilesFor(job[p], l),
                                         !.locks = @ \cup LockfilesFor(job[p], l)]
             synced == [collected EXCEPT !.todo = FilesFor(job[p], l), !.pc = "guard"]
             locked == [collected EXCEPT !.settling = @ \cup CmdsFor(job[p], l)]
  <2>2. synced \in Job /\ synced.pc = "guard"
    BY <1>Job, <2>1 DEF Job, Pc
  <2>3. locked \in Job /\ locked.pc = "resolve"
    BY <1>2, <1>Job, <2>1 DEF Job, RenderLanguage
  <2>4. Live(f) => Spares(synced, f) /\ Spares(locked, f)
    BY <1>2, <1>Job, <1>Spared DEF Spares, RenderLanguage, Job
  <2> HIDE DEF synced, locked
  <2>5. Becomes(p, synced) \/ Becomes(p, locked)
    BY DEF synced, locked
  <2> QED
    BY <2>2, <2>3, <2>4, <2>5
<1>3. CASE Guard(p)
  <2>1. PICK g \in job[p].todo, settling \in SUBSET Cmd :
            \/ Accepts(job[p].snap, g) /\ Becomes(p, Writes(p, g, settling))
            \/ Becomes(p, Refuses(p, g))
    BY <1>3, GuardMoves DEF Continue, Becomes
  <2>2. Live(f) /\ Accepts(job[p].snap, g) => g # f
    BY <1>Job, <1>Spared, GuardRefuses DEF Spares
  <2>3. Live(f) => /\ Spares(Refuses(p, g), f)
                   /\ Accepts(job[p].snap, g) => Spares(Writes(p, g, settling), f)
    BY <1>3, <1>Job, <1>Spared, <2>2 DEF Spares, Guard, Job, Writes, Refuses
  <2> QED
    BY <2>1, <2>3, GuardJobs
<1>4. CASE Written(p)
  <2> DEFINE j == [job[p] EXCEPT
                     !.pc = IF job[p].op = "bootstrap" THEN "record" ELSE "resolve"]
  <2>1. Becomes(p, j)
    BY <1>4 DEF Written, Continue, Becomes
  <2>2. j \in Job /\ j.pc \in {"record", "resolve"}
    BY <1>Job DEF Job, Pc
  <2>3. j.pc = "record" => f \notin j.gen
    <3>1. Placed \cap Rendered = {}
      BY FileAssumption DEF Rendered
    <3> QED
      BY <1>Job, <3>1 DEF JobInv, Job
  <2>4. Live(f) => Spares(j, f)
    BY <1>Job, <1>Spared, <2>2, <2>3 DEF Spares, Job
  <2> QED
    BY <2>1, <2>2, <2>4
<1>5. CASE Resolved(p)
  <2> DEFINE j == [job[p] EXCEPT !.pc = IF job[p].op = "lock" THEN "check" ELSE "run",
                                 !.toRun = job[p].settling]
  <2>1. Becomes(p, j)
    BY <1>5 DEF Resolved, Continue, Becomes
  <2>2. j \in Job /\ j.pc \in {"check", "run"}
    BY <1>Job DEF Job, Pc
  <2>3. Live(f) /\ j.pc = "run" => f \notin j.gen
    BY <1>5, <1>Job, <1>Spared DEF Spares, JobInv, Job, Resolved
  <2>4. Live(f) => Spares(j, f)
    BY <1>Job, <1>Spared, <2>2, <2>3 DEF Spares, Job
  <2> QED
    BY <2>1, <2>2, <2>4
<1>6. CASE GuardRendered(p)
  <2>1. \/ /\ \A g \in job[p].gen : Accepts(record, g)
           /\ Becomes(p, [job[p] EXCEPT !.pc = "run"])
        \/ \E g \in job[p].gen : Becomes(p, [job[p] EXCEPT !.pc = "refused", !.at = g])
    BY <1>6 DEF GuardRendered, Refuse, Continue, Becomes
  <2>2. CASE /\ \A g \in job[p].gen : Accepts(record, g)
             /\ Becomes(p, [job[p] EXCEPT !.pc = "run"])
    <3> DEFINE j == [job[p] EXCEPT !.pc = "run"]
    <3>1. j \in Job /\ j.pc = "run"
      BY <1>Job DEF Job, Pc
    <3>2. Live(f) => f \notin job[p].gen
      BY <1>Job, <1>Spared, <2>2, GuardRefuses
    <3>3. Live(f) => Spares(j, f)
      BY <1>Job, <1>Spared, <3>2 DEF Spares, Job
    <3> QED
      BY <2>2, <3>1, <3>3
  <2>3. ASSUME NEW g \in job[p].gen, Becomes(p, [job[p] EXCEPT !.pc = "refused", !.at = g])
        PROVE  \E j \in Job : /\ Becomes(p, j) /\ j.pc # "backup"
                              /\ Live(f) => Spares(j, f)
    <3> DEFINE j == [job[p] EXCEPT !.pc = "refused", !.at = g]
    <3>1. j \in Job /\ j.pc = "refused"
      BY <1>Job DEF Job, Pc
    <3>2. Live(f) => Spares(j, f)
      BY <1>Job, <1>Spared DEF Spares, Job
    <3> QED
      BY <2>3, <3>1, <3>2
  <2> QED
    BY <2>1, <2>2, <2>3
<1> QED
  BY <1>1, <1>2, <1>3, <1>4, <1>5, <1>6

\* Writing, running the commands, reading back and recording.
LEMMA EditSettle ==
    ASSUME TypeInv, RecordInv, NEW f \in Rendered, NEW p \in Proc,
           \/ Write(p) \/ RunCommand(p) \/ ReadBack(p)
           \/ WriteRecord(p) /\ f \notin Dropped(job[p])
    PROVE  EditInv(f)'
<1>Job. job[p] \in Job /\ JobInv(job[p]) /\ f \in File /\ EditInv(f)
  BY RenderedIsFile DEF TypeInv, TypeOK, RecordInv
<1>Vars. disk \in [File -> Text \cup {Absent}] /\ factory.rev \in Nat
  BY BoundAssumption DEF TypeInv, TypeOK
<1>Spared. Live(f) => Spares(job[p], f) /\ Guarded(record, f)
  BY <1>Job DEF EditInv, Running, Write, RunCommand, ReadBack, WriteRecord
<1>Same. edit'[f] = edit[f] /\ backups'[f] = backups[f]
  BY <1>Job DEF Write, RunCommand, ReadBack, WriteRecord, workspace, person
<1>1. CASE Write(p)
  <2> DEFINE g == job[p].at
             text == Render(job[p].rev)
             j == [job[p] EXCEPT !.todo = @ \ {g}, !.at = NoFile,
                                 !.pc = "guard", !.entries[g] = text]
  <2>1. Becomes(p, j)
    BY <1>1 DEF Write, Continue, Becomes
  <2>2. text \in Entry
    BY <1>Job, ValueTypes DEF Job, Entry
  <2>3. [job[p].entries EXCEPT ![g] = text] \in [File -> Entry]
    BY <1>Job, <2>2 DEF Job
  <2>4. Live(f) => [job[p].entries EXCEPT ![g] = text][f] = Unlisted /\ g # f
    BY <1>1, <1>Job, <1>Spared DEF Spares, Write, Job
  <2> HIDE DEF text
  <2>5. j \in Job /\ j.pc = "guard"
    BY <1>Job, <2>2, <2>3 DEF Job, Pc
  <2>6. Live(f) => Spares(j, f)
    BY <1>Job, <1>Spared, <2>4 DEF Spares, Job
  <2>7. Live(f) => disk'[f] = disk[f] /\ Guarded(record', f)
    BY <1>1, <1>Job, <1>Vars, <1>Spared, <2>4 DEF Write
  <2> HIDE DEF j
  <2> QED
    BY <1>Job, <1>Same, <2>1, <2>5, <2>6, <2>7, JobMoves
<1>2. CASE RunCommand(p)
  <2>1. PICK c \in job[p].toRun, stops \in BOOLEAN, touched \in SUBSET File :
           /\ disk' = [g \in File |-> IF g \notin touched THEN disk[g]
                                      ELSE IF g \in job[p].locks
                                      THEN [kind |-> "settled", n |-> job[p].rev]
                                      ELSE Settle(disk[g])]
           /\ Becomes(p, [job[p] EXCEPT !.toRun = IF stops THEN {} ELSE @ \ {c},
                                        !.failed = @ \/ stops])
    <3>1. \A c \in job[p].toRun : Under[c] \subseteq File
      BY <1>Job, FileAssumption DEF Job
    <3> QED
      BY <1>2, <3>1 DEF RunCommand, Continue, Becomes
  <2> DEFINE j == [job[p] EXCEPT !.toRun = IF stops THEN {} ELSE @ \ {c},
                                 !.failed = @ \/ stops]
  <2>2. (job[p].failed \/ stops) \in BOOLEAN
    OBVIOUS
  <2>3. j \in Job /\ j.pc = "run"
    BY <1>2, <1>Job, <2>2 DEF Job, RunCommand
  <2>4. Live(f) => Spares(j, f)
    BY <1>2, <1>Job, <1>Spared DEF Spares, Job, RunCommand
  <2>5. ASSUME Live(f) PROVE disk'[f] = disk[f]
    <3>1. f \notin job[p].locks
      BY <1>Job DEF JobInv
    <3>2. disk[f].kind = "edited"
      BY <1>Job, <2>5 DEF EditInv, Live
    <3>3. Settle(disk[f]) = disk[f]
      BY <3>2 DEF Settle
    <3> QED
      BY <1>Job, <2>1, <3>1, <3>3
  <2>6. record' = record
    BY <1>2 DEF RunCommand
  <2> HIDE DEF j
  <2> QED
    BY <1>Job, <1>Same, <1>Spared, <2>1, <2>3, <2>4, <2>5, <2>6, JobMoves DEF j, Guarded
<1>3. CASE ReadBack(p)
  <2> DEFINE back == {g \in ReadBackFiles(job[p]) : disk[g] # Absent}
             new == [g \in File |-> IF g \in back THEN disk[g] ELSE job[p].entries[g]]
             j == [job[p] EXCEPT !.pc = "record", !.entries = new]
  <2>1. Becomes(p, j)
    BY <1>3 DEF ReadBack, Continue, Becomes
  <2>2. new \in [File -> Entry]
    BY <1>Job, <1>Vars DEF Job, Entry
  <2>3. Live(f) => new[f] = Unlisted /\ f \notin job[p].gen
    BY <1>3, <1>Job, <1>Spared DEF ReadBack, ReadBackFiles, Spares
  <2> HIDE DEF new
  <2>4. j \in Job /\ j.pc = "record"
    BY <1>Job, <2>2 DEF Job, Pc
  <2>5. Live(f) => Spares(j, f)
    BY <1>Job, <1>Spared, <2>3 DEF Spares, Job
  <2>6. disk' = disk /\ record' = record
    BY <1>3 DEF ReadBack, workspace
  <2> HIDE DEF j
  <2> QED
    BY <1>Job, <1>Same, <1>Spared, <2>1, <2>4, <2>5, <2>6, JobMoves DEF Guarded
<1>4. CASE WriteRecord(p) /\ f \notin Dropped(job[p]) /\ ~End(p)
  <2> DEFINE j == [job[p] EXCEPT !.pc = "lockfiles"]
  <2>1. Becomes(p, j)
    BY <1>4 DEF WriteRecord, Continue, Becomes
  <2>2. j \in Job /\ j.pc = "lockfiles"
    BY <1>Job DEF Job, Pc
  <2>3. Live(f) => Spares(j, f)
    BY <1>Job, <1>Spared DEF Spares, Job
  <2>4. Live(f) => disk'[f] = disk[f] /\ Guarded(record', f)
    BY <1>4, NewRecordGuards DEF WriteRecord
  <2> HIDE DEF j
  <2> QED
    BY <1>Job, <1>Same, <2>1, <2>2, <2>3, <2>4, JobMoves
<1>5. CASE WriteRecord(p) /\ f \notin Dropped(job[p]) /\ End(p)
  BY <1>5, EditEnd
<1> QED
  BY <1>1, <1>2, <1>3, <1>4, <1>5

\* take sets the file aside: from now on a backup holds the edit, and a copy
\* that another take writes over it holds the edit too.
LEMMA EditBackup ==
    ASSUME TypeInv, RecordInv, NEW f \in Rendered, NEW p \in Proc, Backup(p)
    PROVE  EditInv(f)'
<1> DEFINE j == [job[p] EXCEPT !.pc = "unlist"]
<1>Job. job[p] \in Job /\ f \in File /\ EditInv(f) /\ job[p].pc = "backup"
  BY RenderedIsFile DEF TypeInv, TypeOK, RecordInv, Backup
<1>Vars. /\ backups[f] \in Seq(Text) /\ job[p].held \in Text
         /\ job[p].slot \in Nat /\ job[p].slot > 0
  BY <1>Job DEF TypeInv, TypeOK, Job, BacksUp
<1>Same. edit' = edit /\ disk' = disk /\ record' = record
  BY DEF Backup, person
<1>Next. Becomes(p, j) /\ \A q \in Proc : job'[q] = IF q = p THEN j ELSE job[q]
  BY DEF Backup, Continue, Becomes, TypeInv, TypeOK
<1>1. CASE job[p].at # f
  <2>1. backups'[f] = backups[f]
    BY <1>1, <1>Job DEF Backup, TypeInv, TypeOK
  <2>2. j \in Job /\ j.pc = "unlist"
    BY <1>Job DEF Job, Pc
  <2>3. Live(f) => Spares(job[p], f) /\ Guarded(record, f)
    BY <1>Job DEF EditInv, Running
  <2>4. Live(f) => Spares(j, f)
    BY <1>1, <1>Job, <2>3 DEF Spares, Job
  <2> HIDE DEF j
  <2> QED
    BY <1>Job, <1>Same, <1>Next, <2>1, <2>2, <2>3, <2>4, JobMoves DEF Guarded
<1>2. CASE job[p].at = f
  <2> DEFINE slot == IF job[p].slot <= Len(backups[f]) THEN job[p].slot
                     ELSE Len(backups[f]) + 1
  <2>1. /\ slot \in DOMAIN backups'[f] /\ backups'[f][slot] = job[p].held
        /\ \A i \in DOMAIN backups[f] : i # slot =>
               i \in DOMAIN backups'[f] /\ backups'[f][i] = backups[f][i]
        /\ slot <= job[p].slot
    <3>1. CASE job[p].slot <= Len(backups[f])
      <4>1. backups'[f] = [backups[f] EXCEPT ![job[p].slot] = job[p].held]
        BY <1>2, <1>Job, <3>1 DEF Backup, TypeInv, TypeOK
      <4> QED
        BY <1>Vars, <3>1, <4>1
    <3>2. CASE ~(job[p].slot <= Len(backups[f]))
      <4>1. backups'[f] = Append(backups[f], job[p].held)
        BY <1>2, <1>Job, <3>2 DEF Backup, TypeInv, TypeOK
      <4> QED
        BY <1>Vars, <3>2, <4>1
    <3> QED
      BY <3>1, <3>2
  <2> HIDE DEF slot
  <2>2. ASSUME edit[f].recorded
        PROVE  \/ job[p].held = edit[f].text
               \/ \E i \in DOMAIN backups[f] : i < job[p].slot /\ backups[f][i] = edit[f].text
    BY <1>2, <1>Job, <2>2 DEF EditInv, BackupSpares
  <2>3. ASSUME edit[f].recorded, job[p].held # edit[f].text
        PROVE  \E i \in DOMAIN backups[f] :
                   i < job[p].slot /\ i # slot /\ backups[f][i] = edit[f].text
    <3>1. PICK i \in DOMAIN backups[f] : i < job[p].slot /\ backups[f][i] = edit[f].text
      BY <2>2, <2>3
    <3>2. i # slot
      BY <1>Vars, <3>1 DEF slot
    <3> QED
      BY <3>1, <3>2
  <2>4. ASSUME edit[f].recorded
        PROVE  \E i \in DOMAIN backups'[f] : backups'[f][i] = edit[f].text
    BY <2>1, <2>3, <2>4
  <2>5. ASSUME edit[f].recorded, NEW q \in Proc PROVE BackupSpares(q, f)'
    <3> SUFFICES ASSUME job'[q].pc = "backup", job'[q].at = f,
                        job'[q].held # edit[f].text
                 PROVE  \E i \in DOMAIN backups'[f] :
                            i < job'[q].slot /\ backups'[f][i] = edit[f].text
      BY <1>Same DEF BackupSpares
    <3>1. q # p /\ job'[q] = job[q] /\ job[q].slot \in Nat
      BY <1>Next, <1>Job DEF TypeInv, TypeOK, Job
    <3>2. PICK i \in DOMAIN backups[f] : i < job[q].slot /\ backups[f][i] = edit[f].text
      BY <3>1, <2>5, <1>Job DEF EditInv, BackupSpares
    <3>3. CASE i # slot
      BY <2>1, <3>1, <3>2, <3>3
    <3>4. CASE i = slot
      <4>1. CASE job[p].held = edit[f].text
        BY <2>1, <3>1, <3>2, <3>4, <4>1
      <4>2. CASE job[p].held # edit[f].text
        <5>1. PICK k \in DOMAIN backups[f] :
                  k < job[p].slot /\ k # slot /\ backups[f][k] = edit[f].text
          BY <2>3, <2>5, <4>2
        <5>2. slot = job[p].slot
          BY <1>Vars, <3>4 DEF slot
        <5>3. k < job[q].slot
          BY <1>Vars, <3>1, <3>2, <3>4, <5>1, <5>2
        <5> QED
          BY <2>1, <3>1, <5>1, <5>3
      <4> QED
        BY <4>1, <4>2
    <3> QED
      BY <3>3, <3>4
  <2>6. ~Live(f)'
    BY <1>Same, <2>4 DEF Live
  <2> QED
    BY <1>Same, <1>Job, <2>5, <2>6 DEF EditInv
<1> QED
  BY <1>1, <1>2

\* A backup torn as it is made spoils no other; one torn over another's is let
\* go of by the history.
LEMMA EditTear ==
    ASSUME TypeInv, RecordInv, NEW f \in Rendered, NEW p \in Proc, TearBackup(p)
    PROVE  EditInv(f)'
<1>File. f \in File /\ EditInv(f) /\ backups[f] \in Seq(Text)
         /\ edit \in [File -> [text : Text \cup {Absent}, recorded : BOOLEAN]]
  BY RenderedIsFile DEF TypeInv, TypeOK, RecordInv
<1>Same. disk' = disk /\ record' = record /\ End(p)
  BY DEF TearBackup
<1>1. CASE job[p].at # f
  <2>1. backups'[f] = backups[f] /\ edit'[f] = edit[f]
    BY <1>1, <1>File DEF TearBackup, TypeInv, TypeOK
  <2> QED
    BY <1>File, <1>Same, <2>1, IdleSpares DEF EditInv, Guarded
<1>2. CASE job[p].at = f /\ ~(job[p].slot > Len(backups[f]))
  <2>1. edit'[f] = NoEdit
    BY <1>2, <1>File DEF TearBackup
  <2> QED
    BY <2>1 DEF EditInv, Live, NoEdit
<1>3. CASE job[p].at = f /\ job[p].slot > Len(backups[f])
  <2>1. edit' = edit /\ backups'[f] = Append(backups[f], Torn)
    BY <1>3, <1>File DEF TearBackup, TypeInv, TypeOK
  <2>2. \A i \in DOMAIN backups[f] :
            i \in DOMAIN backups'[f] /\ backups'[f][i] = backups[f][i]
    BY <1>File, <2>1, ValueTypes
  <2>3. Live(f)' => Live(f)
    BY <2>1, <2>2 DEF Live
  <2>4. \A q \in Proc : job'[q] = IF q = p THEN Idle ELSE job[q]
    BY <1>Same DEF End, TypeInv, TypeOK
  <2>5. ASSUME edit[f].recorded, NEW q \in Proc PROVE BackupSpares(q, f)'
    <3>1. BackupSpares(q, f)
      BY <1>File, <2>5 DEF EditInv
    <3>2. Idle.pc # "backup"
      BY DEF Idle
    <3> QED
      BY <2>1, <2>2, <2>4, <3>1, <3>2 DEF BackupSpares
  <2>6. ASSUME Live(f), NEW q \in Running' PROVE Spares(job[q], f)'
    <3>1. Idle.pc = "idle"
      BY DEF Idle
    <3>2. q # p /\ q \in Running /\ job'[q] = job[q]
      BY <2>4, <2>6, <3>1 DEF Running
    <3> QED
      BY <1>File, <2>1, <2>6, <3>2 DEF EditInv, Spares, Guarded
  <2> QED
    BY <1>File, <1>Same, <2>1, <2>3, <2>5, <2>6 DEF EditInv, Guarded
<1> QED
  BY <1>1, <1>2, <1>3

\* An edit made while nothing runs starts out on disk and guarded; any other
\* change is no longer watched.
LEMMA EditPerson ==
    ASSUME TypeInv, RecordInv, NEW f \in Rendered, Bump \/ Edit \/ Delete \/ DiscardRecord
    PROVE  EditInv(f)'
<1>File. f \in File /\ EditInv(f) /\ edit \in [File -> [text : Text \cup {Absent},
                                                    recorded : BOOLEAN]]
         /\ disk \in [File -> Text \cup {Absent}]
  BY RenderedIsFile DEF RecordInv, TypeInv, TypeOK
<1>1. CASE job' = job /\ edit'[f] = edit[f] /\ backups' = backups /\ record' = record
           /\ disk'[f] = disk[f]
  BY <1>1, <1>File DEF EditInv, Live, Guarded, Spares, BackupSpares, Running
<1>2. ASSUME NEW text \in Text \cup {Absent}, Change(f, text),
             text = Absent \/ text.kind = "edited"
      PROVE  EditInv(f)'
  <2>1. CASE edit'[f] = NoEdit
    BY <2>1 DEF EditInv, Live, NoEdit
  <2>2. CASE edit'[f] # NoEdit
    <3>1. /\ Running = {} /\ text # Absent
          /\ edit'[f] = [text |-> text, recorded |-> record[f] \in Text \ {text}]
      BY <1>2, <1>File, <2>2 DEF Change
    <3>2. disk'[f] = text /\ record' = record /\ job' = job
      BY <1>2, <1>File DEF Change
    <3>3. Running' = {}
      BY <3>1, <3>2 DEF Running
    <3>4. \A q \in Proc : job'[q].pc # "backup"
      BY <3>3 DEF Running
    <3>5. edit'[f].recorded => edit'[f].text.kind = "edited" /\ Guarded(record, f)'
      <4>1. edit'[f].text = text
        BY <3>1
      <4>2. \A t, b : [text |-> t, recorded |-> b].recorded = b
        OBVIOUS
      <4>3. edit'[f].recorded = (record[f] \in Text \ {text})
        BY <3>1, <4>2, Zenon
      <4>4. edit'[f].recorded => record[f] \in Text /\ record[f] # text
        BY <4>3, Zenon
      <4> QED
        BY <1>2, <3>1, <3>2, <4>1, <4>4 DEF Guarded
    <3> QED
      BY <3>1, <3>2, <3>3, <3>4, <3>5 DEF EditInv, Live, BackupSpares
  <2> QED
    BY <2>1, <2>2
<1>3. ASSUME NEW g \in File, NEW text, Change(g, text), g # f PROVE EditInv(f)'
  <2>1. edit'[f] = edit[f] /\ disk'[f] = disk[f]
    BY <1>3, <1>File DEF Change
  <2> QED
    BY <1>1, <1>3, <2>1 DEF Change
<1>4. CASE Bump \/ DiscardRecord
  <2>1. CASE Bump
    BY <1>1, <2>1 DEF Bump, person
  <2>2. CASE DiscardRecord
    BY <1>File, <2>2, EditLetGo DEF DiscardRecord
  <2> QED
    BY <1>4, <2>1, <2>2
<1>5. CASE Edit
  <2>1. PICK g \in File : Change(g, [kind |-> "edited", n |-> edits + 1])
    BY <1>5 DEF Edit
  <2>2. [kind |-> "edited", n |-> edits + 1] \in Text
    BY DEF Text, TypeInv, TypeOK
  <2> QED
    BY <1>2, <1>3, <2>1, <2>2
<1>6. CASE Delete
  BY <1>2, <1>3, <1>6 DEF Delete
<1> QED
  BY <1>4, <1>5, <1>6

-----------------------------------------------------------------------------
(* The inductive invariant and what follows from it.                        *)

LEMMA RecordInit == Init => RecordInv
<1> SUFFICES ASSUME Init PROVE RecordInv
  OBVIOUS
<1>1. \A p \in Proc : JobInv(job[p])
  BY IdleJobInv DEF Init
<1>2. ASSUME NEW f \in Rendered PROVE EditInv(f)
  <2>1. edit[f].recorded = FALSE
    BY RenderedIsFile DEF Init, NoEdit
  <2> QED
    BY <2>1 DEF EditInv, Live
<1> QED
  BY <1>1, <1>2 DEF RecordInv

LEMMA RecordStep == TypeInv /\ RecordInv /\ [Next]_vars => RecordInv'
<1> SUFFICES ASSUME TypeInv, RecordInv, [Next]_vars PROVE RecordInv'
  OBVIOUS
<1>1. CASE UNCHANGED vars
  BY <1>1 DEF vars, RecordInv, EditInv, Live, Guarded, Spares, BackupSpares, Running
<1>2. CASE Bump \/ Edit \/ Delete \/ DiscardRecord
  <2>1. job' = job
    BY <1>2 DEF Bump, Edit, Delete, Change, DiscardRecord
  <2> QED
    BY <1>2, <2>1, EditPerson DEF RecordInv
<1>3. ASSUME NEW p \in Proc, Begin(p) \/ Take(p) \/ Bootstrap(p) \/ Step(p)
                             \/ Abort(p) \/ TearFile(p) \/ TearBackup(p) \/ TearRecord(p)
      PROVE  RecordInv'
  <2>1. \A q \in Proc : JobInv(job'[q])
    BY <1>3, JobInvStep
  <2>2. ASSUME NEW f \in Rendered PROVE EditInv(f)'
    <3>1. CASE Begin(p) \/ Take(p) \/ Bootstrap(p)
      BY <3>1, EditStart
    <3>2. CASE SkipLanguage(p) \/ RenderLanguage(p) \/ Guard(p) \/ Written(p)
               \/ Resolved(p) \/ GuardRendered(p)
      BY <3>2, EditRender
    <3>3. CASE Write(p) \/ RunCommand(p) \/ ReadBack(p) \/ WriteRecord(p)
      <4>1. CASE WriteRecord(p) /\ f \in Dropped(job[p])
        BY <4>1, RenderedIsFile, EditLetGo DEF WriteRecord
      <4> QED
        BY <3>3, <4>1, EditSettle
    <3>4. CASE Backup(p) \/ TearBackup(p)
      BY <3>4, EditBackup, EditTear
    <3>5. CASE \/ Abort(p) \/ Report(p) \/ RefuseUnregistered(p) \/ RefuseUnreadable(p)
               \/ Unlist(p) \/ RecordLockfiles(p) \/ TearFile(p) \/ TearRecord(p)
      <4>1. End(p)
        BY <3>5 DEF Abort, Report, RefuseUnregistered, RefuseUnreadable, Unlist,
                    RecordLockfiles, TearFile, TearRecord
      <4> QED
        BY <3>5, <4>1, EditEnd
    <3> QED
      BY <1>3, <3>1, <3>2, <3>3, <3>4, <3>5 DEF Step
  <2> QED
    BY <2>1, <2>2 DEF RecordInv
<1> QED
  BY <1>1, <1>2, <1>3 DEF Next

LEMMA RecordInvariant == Spec => [](TypeInv /\ RecordInv)
BY TypeInit, TypeStep, RecordInit, RecordStep, PTL DEF Spec

\* No interleaving of syncs, locks, takes and bootstraps, failing or killed
\* anywhere, loses a hand edit of a file whose digest is on record: it is
\* refused, or take backs it up.  The file leaves the record otherwise only by
\* a person's hand or by a factory that no longer asks for it.
THEOREM EditsSurvive == Spec => []RecordedEditsSurvive
<1>1. TypeInv /\ RecordInv => RecordedEditsSurvive
  BY DEF RecordInv, EditInv, Live, RecordedEditsSurvive, Survives
<1> QED
  BY <1>1, RecordInvariant, PTL

\* No lock command runs over such an edit.
THEOREM CommandsHeldBack == Spec => []EditsHoldBackCommands
<1>1. TypeInv /\ RecordInv => EditsHoldBackCommands
  BY DEF RecordInv, EditInv, Live, Spares, Running, EditsHoldBackCommands
<1> QED
  BY <1>1, RecordInvariant, PTL

-----------------------------------------------------------------------------
(* An undisturbed run: what it records is what is on disk.                  *)

\* An undisturbed run that goes on stays the only one.
LEMMA AgreeContinue ==
    ASSUME TypeInv, AgreeInv, NEW p \in Running, NEW j, Becomes(p, j), j.pc # "idle",
           disturbed' = disturbed, p \notin disturbed => Fresh(job[p])'
    PROVE  AgreeInv'
<1>1. \A q \in Proc : job'[q] = IF q = p THEN j ELSE job[q]
  BY DEF Becomes, TypeInv, TypeOK, Running
<1>2. Running' = Running
  BY <1>1 DEF Running
<1>3. ASSUME NEW q \in Running' \ disturbed'
      PROVE  Running' = {q} /\ Fresh(job[q])'
  <2>1. Running = {q}
    BY <1>2, <1>3 DEF AgreeInv
  <2>2. q = p
    BY <2>1
  <2> QED
    BY <1>2, <1>3, <2>1, <2>2
<1>4. disturbed' \subseteq Running'
  BY <1>2 DEF AgreeInv
<1> QED
  BY <1>3, <1>4 DEF AgreeInv

\* When a run ends, the others it leaves have overlapped with it.
LEMMA AgreeEnd ==
    ASSUME TypeInv, AgreeInv, NEW p \in Running, End(p)
    PROVE  AgreeInv'
<1>1. \A q \in Proc : job'[q] = IF q = p THEN Idle ELSE job[q]
  BY DEF End, TypeInv, TypeOK
<1>2. Running' = Running \ {p}
  BY <1>1 DEF Running, Idle
<1>3. disturbed' = disturbed \ {p}
  BY DEF End
<1>4. Running' \ disturbed' = {}
  <2> SUFFICES ASSUME NEW q \in Running' \ disturbed' PROVE FALSE
    OBVIOUS
  <2>1. q \in Running \ disturbed /\ q # p
    BY <1>2, <1>3
  <2> QED
    BY <2>1 DEF AgreeInv
<1>5. disturbed' \subseteq Running'
  BY <1>2, <1>3 DEF AgreeInv
<1> QED
  BY <1>4, <1>5 DEF AgreeInv

\* A run that starts alone has read the record as it is, and nothing else yet.
LEMMA AgreeStart ==
    ASSUME TypeInv, AgreeInv, NEW p \in Proc, NEW j, Start(p, j), j.pc # "idle",
           Fresh(job[p])'
    PROVE  AgreeInv'
<1>1. \A q \in Proc : job'[q] = IF q = p THEN j ELSE job[q]
  BY DEF Start, TypeInv, TypeOK
<1>2. Running' = Running \cup {p}
  BY <1>1 DEF Running
<1>3. CASE Running = {}
  <2>1. disturbed' = {} /\ Running' = {p}
    BY <1>2, <1>3 DEF Start, AgreeInv
  <2> QED
    BY <2>1 DEF AgreeInv
<1>4. CASE Running # {}
  <2>1. disturbed' = Running'
    BY <1>2, <1>4 DEF Start
  <2> QED
    BY <2>1 DEF AgreeInv
<1> QED
  BY <1>3, <1>4

LEMMA AgreeStarts ==
    ASSUME TypeInv, AgreeInv, NEW p \in Proc, Begin(p) \/ Take(p) \/ Bootstrap(p)
    PROVE  AgreeInv'
<1>Same. record' = record
  BY DEF Begin, Take, Bootstrap, workspace
<1>1. CASE Begin(p)
  <2>1. PICK o \in {"sync", "lock"} :
            Start(p, [Idle EXCEPT !.op = o, !.pc = "resolve", !.rev = factory.rev,
                                  !.files = factory.files,
                                  !.snap = record, !.langs = Languages(factory.files)])
    BY <1>1 DEF Begin
  <2> DEFINE j == [Idle EXCEPT !.op = o, !.pc = "resolve", !.rev = factory.rev,
                               !.files = factory.files,
                               !.snap = record, !.langs = Languages(factory.files)]
  <2>2. job'[p] = j
    BY <2>1 DEF Start, TypeInv, TypeOK
  <2>3. /\ j.pc = "resolve" /\ j.snap = record /\ j.gen = {}
        /\ j.toRun = {} /\ j.settling = {}
    BY DEF Idle
  <2> HIDE DEF j
  <2>4. Fresh(job[p])'
    BY <1>Same, <2>2, <2>3 DEF Fresh
  <2> QED
    BY <2>1, <2>3, <2>4, AgreeStart DEF j
<1>2. CASE Take(p)
  <2>1. PICK f \in File :
            Start(p, [Idle EXCEPT !.op = "take", !.pc = "backup", !.snap = record,
                                  !.at = f, !.held = disk[f],
                                  !.slot = Len(backups[f]) + 1])
    BY <1>2 DEF Take
  <2> DEFINE j == [Idle EXCEPT !.op = "take", !.pc = "backup", !.snap = record,
                               !.at = f, !.held = disk[f], !.slot = Len(backups[f]) + 1]
  <2>2. job'[p] = j
    BY <2>1 DEF Start, TypeInv, TypeOK
  <2>3. /\ j.op = "take" /\ j.pc = "backup" /\ j.snap = record
        /\ j.toRun = {} /\ j.settling = {}
    BY DEF Idle
  <2> HIDE DEF j
  <2>4. Fresh(job[p])'
    BY <1>Same, <2>2, <2>3 DEF Fresh
  <2> QED
    BY <2>1, <2>3, <2>4, AgreeStart DEF j
<1>3. CASE Bootstrap(p)
  <2>1. PICK r \in 0..factory.rev, files \in SUBSET Placed :
            Start(p, [Idle EXCEPT !.op = "bootstrap", !.pc = "guard", !.rev = r,
                                  !.snap = record, !.todo = files, !.gen = files,
                                  !.kept = Listed(record)])
    BY <1>3 DEF Bootstrap
  <2> DEFINE j == [Idle EXCEPT !.op = "bootstrap", !.pc = "guard", !.rev = r,
                               !.snap = record, !.todo = files, !.gen = files,
                               !.kept = Listed(record)]
  <2>2. job'[p] = j
    BY <2>1 DEF Start, TypeInv, TypeOK
  <2>3. /\ j.pc = "guard" /\ j.snap = record /\ j.gen \ j.todo = {}
        /\ j.toRun = {} /\ j.settling = {}
    BY DEF Idle
  <2> HIDE DEF j
  <2>4. Fresh(job[p])'
    BY <1>Same, <2>2, <2>3 DEF Fresh
  <2> QED
    BY <2>1, <2>3, <2>4, AgreeStart DEF j
<1> QED
  BY <1>1, <1>2, <1>3

\* What the steps of an undisturbed run keep of what it carries.
LEMMA FreshContinues ==
    ASSUME TypeInv, RecordInv, NEW p \in Running, Fresh(job[p]), Step(p), ~End(p)
    PROVE  Fresh(job[p])'
<1>Job. job[p] \in Job /\ JobInv(job[p]) /\ p \in Proc
  BY DEF TypeInv, TypeOK, RecordInv, Running
<1>Vars. disk \in [File -> Text \cup {Absent}] /\ job \in [Proc -> Job]
  BY DEF TypeInv, TypeOK
<1>1. CASE SkipLanguage(p)
  <2>1. PICK l \in job[p].langs :
            Continue(p, [job[p] EXCEPT !.langs = @ \ {l}, !.failed = TRUE,
                                       !.kept = Listed(job[p].snap)])
    BY <1>1 DEF SkipLanguage
  <2>2. job'[p] = [job[p] EXCEPT !.langs = @ \ {l}, !.failed = TRUE,
                                 !.kept = Listed(job[p].snap)]
    BY <1>Job, <1>Vars, <2>1 DEF Continue
  <2>3. disk' = disk /\ record' = record
    BY <1>1 DEF SkipLanguage, workspace
  <2> QED
    BY <1>Job, <2>2, <2>3 DEF Fresh, Job
<1>2. CASE RenderLanguage(p)
  <2>1. PICK l \in job[p].langs :
          LET collected == [job[p] EXCEPT !.langs = @ \ {l},
                                          !.gen = @ \cup FilesFor(job[p], l),
                                          !.locks = @ \cup LockfilesFor(job[p], l)]
          IN Continue(p, IF job[p].op = "sync"
                         THEN [collected EXCEPT !.todo = FilesFor(job[p], l), !.pc = "guard"]
                         ELSE [collected EXCEPT !.settling = @ \cup CmdsFor(job[p], l)])
    BY <1>2 DEF RenderLanguage
  <2>2. disk' = disk /\ record' = record /\ job[p].pc = "resolve"
    BY <1>2 DEF RenderLanguage, workspace
  <2> DEFINE collected == [job[p] EXCEPT !.langs = @ \ {l},
                                         !.gen = @ \cup FilesFor(job[p], l),
                                         !.locks = @ \cup LockfilesFor(job[p], l)]
             synced == [collected EXCEPT !.todo = FilesFor(job[p], l), !.pc = "guard"]
             locked == [collected EXCEPT !.settling = @ \cup CmdsFor(job[p], l)]
  <2>3. CASE job[p].op = "sync"
    <3>1. job'[p] = synced
      BY <1>Job, <1>Vars, <2>1, <2>3 DEF Continue
    <3>2. /\ synced.op = "sync" /\ synced.pc = "guard" /\ synced.snap = job[p].snap
          /\ synced.gen = job[p].gen \cup FilesFor(job[p], l) /\ synced.todo = FilesFor(job[p], l)
          /\ synced.entries = job[p].entries
          /\ synced.toRun = job[p].toRun /\ synced.settling = job[p].settling
      BY <1>Job, <2>3 DEF Job
    <3>3. job[p].todo = {}
      BY <1>Job, <2>2 DEF JobInv
    <3> HIDE DEF synced
    <3>4. synced.gen \ synced.todo \subseteq job[p].gen \ job[p].todo
      BY <3>2, <3>3
    <3> QED
      BY <2>2, <2>3, <3>1, <3>2, <3>4 DEF Fresh
  <2>4. CASE job[p].op # "sync"
    <3>1. job'[p] = locked
      BY <1>Job, <1>Vars, <2>1, <2>4 DEF Continue
    <3>2. /\ locked.op = "lock" /\ locked.pc = "resolve" /\ locked.snap = job[p].snap
          /\ locked.toRun = job[p].toRun
          /\ job[p].settling \subseteq locked.settling
      BY <1>Job, <2>2, <2>4 DEF Job, JobInv
    <3> HIDE DEF locked
    <3> QED
      BY <2>2, <3>1, <3>2 DEF Fresh
  <2> QED
    BY <2>3, <2>4
<1>3. CASE Guard(p)
  <2>1. PICK f \in job[p].todo, settling \in SUBSET Cmd :
            \/ /\ Continue(p, Writes(p, f, settling))
               /\ job[p].settling \subseteq settling
            \/ Continue(p, Refuses(p, f))
    <3>1. PICK f \in job[p].todo :
            \/ Continue(p, Writes(p, f, job[p].settling \cup
                               (IF disk[f] # Render(job[p].rev) THEN Holders(f) ELSE {})))
            \/ Continue(p, Refuses(p, f))
      BY <1>3 DEF Guard, Refuse, Writes, Refuses
    <3>2. job[p].settling \cup (IF disk[f] # Render(job[p].rev) THEN Holders(f) ELSE {})
              \in SUBSET Cmd
      BY <1>Job DEF Job, Holders
    <3> QED
      BY <3>1, <3>2
  <2>2. disk' = disk /\ record' = record /\ job[p].pc = "guard"
    BY <1>3 DEF Guard, Refuse, workspace
  <2>3. CASE Continue(p, Writes(p, f, settling)) /\ job[p].settling \subseteq settling
    <3>1. job'[p] = [job[p] EXCEPT !.at = f, !.pc = "write", !.settling = settling]
      BY <1>Job, <1>Vars, <2>3 DEF Continue, Writes
    <3> QED
      BY <1>Job, <2>2, <2>3, <3>1 DEF Fresh, Job
  <2>4. CASE Continue(p, Refuses(p, f))
    <3>1. job'[p] = [job[p] EXCEPT !.pc = "refused", !.at = f]
      BY <1>Job, <1>Vars, <2>4 DEF Continue, Refuses
    <3> QED
      BY <1>Job, <2>2, <3>1 DEF Fresh, Job
  <2> QED
    BY <2>1, <2>3, <2>4
<1>4. CASE Write(p)
  <2> DEFINE f == job[p].at
             text == Render(job[p].rev)
             new == [job[p].entries EXCEPT ![f] = text]
  <2>1. job'[p] = [job[p] EXCEPT !.todo = @ \ {f}, !.at = NoFile, !.pc = "guard",
                                 !.entries = new]
    BY <1>4, <1>Job, <1>Vars DEF Write, Continue
  <2>2. disk' = [disk EXCEPT ![f] = text] /\ record' = record /\ job[p].pc = "write"
    BY <1>4 DEF Write
  <2>3. \A g \in File : /\ new[g] = IF g = f THEN text ELSE job[p].entries[g]
                        /\ disk'[g] = IF g = f THEN text ELSE disk[g]
    BY <1>Job, <1>Vars, <2>2 DEF Job
  <2> HIDE DEF new, text
  <2>4. \A g \in job[p].gen \ (job[p].todo \ {f}) :
            job[p].op \in {"sync", "bootstrap"} => new[g] = disk'[g]
    BY <1>Job, <2>2, <2>3 DEF Fresh, Job
  <2> QED
    BY <1>Job, <2>1, <2>2, <2>4 DEF Fresh, Job
<1>5. CASE Written(p)
  <2>1. job'[p] = [job[p] EXCEPT
                     !.pc = IF job[p].op = "bootstrap" THEN "record" ELSE "resolve"]
    BY <1>5, <1>Job, <1>Vars DEF Written, Continue
  <2>2. disk' = disk /\ record' = record /\ job[p].pc = "guard" /\ job[p].todo = {}
    BY <1>5 DEF Written, workspace
  <2> QED
    BY <1>Job, <2>1, <2>2 DEF Fresh, Job
<1>6. CASE Resolved(p)
  <2>1. job'[p] = [job[p] EXCEPT !.pc = IF job[p].op = "lock" THEN "check" ELSE "run",
                                 !.toRun = job[p].settling]
    BY <1>6, <1>Job, <1>Vars DEF Resolved, Continue
  <2>2. disk' = disk /\ record' = record /\ job[p].pc = "resolve"
    BY <1>6 DEF Resolved, workspace
  <2> QED
    BY <1>Job, <2>1, <2>2 DEF Fresh, Job, JobInv
<1>7. CASE GuardRendered(p)
  <2>1. \/ job'[p] = [job[p] EXCEPT !.pc = "run"]
        \/ \E f \in job[p].gen : job'[p] = [job[p] EXCEPT !.pc = "refused", !.at = f]
    BY <1>7, <1>Job, <1>Vars DEF GuardRendered, Refuse, Continue
  <2>2. disk' = disk /\ record' = record /\ job[p].pc = "check"
    BY <1>7 DEF GuardRendered, Refuse, workspace
  <2>3. CASE job'[p] = [job[p] EXCEPT !.pc = "run"]
    <3>1. job[p].op # "sync"
      BY <1>Job, <2>2 DEF JobInv
    <3> QED
      BY <1>Job, <2>2, <2>3, <3>1 DEF Fresh, Job
  <2>4. ASSUME NEW f \in job[p].gen, job'[p] = [job[p] EXCEPT !.pc = "refused", !.at = f]
        PROVE  Fresh(job[p])'
    BY <1>Job, <2>2, <2>4 DEF Fresh, Job
  <2> QED
    BY <2>1, <2>3, <2>4
<1>8. CASE RunCommand(p)
  <2>1. PICK c \in job[p].toRun, stops \in BOOLEAN :
        \E touched \in SUBSET Under[c] :
           /\ disk' = [f \in File |-> IF f \notin touched THEN disk[f]
                                      ELSE IF f \in job[p].locks
                                      THEN [kind |-> "settled", n |-> job[p].rev]
                                      ELSE Settle(disk[f])]
           /\ Continue(p, [job[p] EXCEPT
                  !.toRun = IF stops THEN {} ELSE @ \ {c},
                  !.failed = @ \/ stops])
    BY <1>8 DEF RunCommand
  <2>2. job'[p] = [job[p] EXCEPT !.toRun = IF stops THEN {} ELSE @ \ {c},
                                 !.failed = @ \/ stops]
    BY <1>Job, <1>Vars, <2>1 DEF Continue
  <2>3. \A f \in File : disk'[f] = disk[f] \/ f \in Under[c]
    BY <2>1
  <2>4. record' = record /\ job[p].pc = "run" /\ c \in job[p].settling
    BY <1>8 DEF RunCommand, Fresh
  <2>5. \A f \in job[p].gen :
            job[p].op = "sync" => \/ job[p].entries[f] = disk'[f]
                                 \/ \E d \in job[p].settling : f \in Under[d]
    BY <1>Job, <2>3, <2>4 DEF Fresh, Job
  <2>6. /\ job'[p].op = job[p].op /\ job'[p].pc = "run" /\ job'[p].snap = job[p].snap
        /\ job'[p].gen = job[p].gen /\ job'[p].entries = job[p].entries
        /\ job'[p].settling = job[p].settling /\ job'[p].toRun \subseteq job[p].toRun
    BY <1>Job, <2>2, <2>4 DEF Job
  <2> QED
    BY <2>4, <2>5, <2>6 DEF Fresh
<1>9. CASE ReadBack(p)
  <2> DEFINE back == {f \in ReadBackFiles(job[p]) : disk[f] # Absent}
             new == [f \in File |-> IF f \in back THEN disk[f] ELSE job[p].entries[f]]
  <2>1. job'[p] = [job[p] EXCEPT !.pc = "record", !.entries = new]
    BY <1>9, <1>Job, <1>Vars DEF ReadBack, Continue
  <2>2. disk' = disk /\ record' = record /\ job[p].pc = "run"
    BY <1>9 DEF ReadBack, workspace
  <2>3. \A f \in job[p].gen : disk[f] = Absent \/ new[f] = disk[f]
    <3> SUFFICES ASSUME NEW f \in job[p].gen, disk[f] # Absent PROVE new[f] = disk[f]
      OBVIOUS
    <3>1. f \in File /\ job[p].op \in {"sync", "lock"}
      BY <1>Job, <2>2 DEF Job, JobInv
    <3>2. job[p].entries[f] = disk[f] \/ f \in ReadBackFiles(job[p])
      BY <2>2, <3>1 DEF Fresh, ReadBackFiles
    <3> QED
      BY <3>1, <3>2
  <2> HIDE DEF new
  <2>4. /\ job'[p].op = job[p].op /\ job'[p].pc = "record" /\ job'[p].snap = job[p].snap
        /\ job'[p].gen = job[p].gen /\ job'[p].entries = new
        /\ job'[p].settling = job[p].settling /\ job'[p].toRun = job[p].toRun
    BY <1>Job, <2>1 DEF Job
  <2> QED
    BY <2>2, <2>3, <2>4 DEF Fresh
<1>10. CASE WriteRecord(p)
  <2>1. job'[p] = [job[p] EXCEPT !.pc = "lockfiles"]
    BY <1>10, <1>Job, <1>Vars DEF WriteRecord, Continue
  <2>2. job'[p].pc = "lockfiles" /\ job'[p].toRun = job[p].toRun
        /\ job'[p].settling = job[p].settling
    BY <1>Job, <2>1 DEF Job
  <2> QED
    BY <2>2 DEF Fresh
<1>11. CASE Backup(p)
  <2>1. job'[p] = [job[p] EXCEPT !.pc = "unlist"]
    BY <1>11, <1>Job, <1>Vars DEF Backup, Continue
  <2>2. /\ job'[p].pc = "unlist" /\ job'[p].toRun = job[p].toRun
        /\ job'[p].settling = job[p].settling /\ job'[p].snap = job[p].snap
    BY <1>Job, <2>1 DEF Job
  <2>3. record' = record /\ job[p].pc = "backup"
    BY <1>11 DEF Backup
  <2> QED
    BY <2>2, <2>3 DEF Fresh
<1> QED
  BY <1>1, <1>2, <1>3, <1>4, <1>5, <1>6, <1>7, <1>8, <1>9, <1>10, <1>11
  DEF Step, RecordLockfiles, RefuseUnregistered, RefuseUnreadable, Unlist, Report

\* A step that does not end its run goes on with another job.
LEMMA StepContinues ==
    ASSUME TypeInv, RecordInv, NEW p \in Proc, Step(p), ~End(p)
    PROVE  \E j : Continue(p, j) /\ j.pc # "idle"
<1>Job. job[p] \in Job
  BY DEF TypeInv, TypeOK
<1>1. CASE SkipLanguage(p)
  <2>1. \A l : [job[p] EXCEPT !.langs = @ \ {l}, !.failed = TRUE,
                              !.kept = Listed(job[p].snap)].pc # "idle"
    BY <1>1, <1>Job DEF SkipLanguage, Job
  <2> QED
    BY <1>1, <2>1 DEF SkipLanguage
<1>2. CASE RenderLanguage(p)
  <2> PICK l \in job[p].langs :
          LET collected == [job[p] EXCEPT !.langs = @ \ {l},
                                          !.gen = @ \cup FilesFor(job[p], l),
                                          !.locks = @ \cup LockfilesFor(job[p], l)]
          IN Continue(p, IF job[p].op = "sync"
                         THEN [collected EXCEPT !.todo = FilesFor(job[p], l), !.pc = "guard"]
                         ELSE [collected EXCEPT !.settling = @ \cup CmdsFor(job[p], l)])
    BY <1>2 DEF RenderLanguage
  <2> DEFINE collected == [job[p] EXCEPT !.langs = @ \ {l},
                                         !.gen = @ \cup FilesFor(job[p], l),
                                         !.locks = @ \cup LockfilesFor(job[p], l)]
             synced == [collected EXCEPT !.todo = FilesFor(job[p], l), !.pc = "guard"]
             locked == [collected EXCEPT !.settling = @ \cup CmdsFor(job[p], l)]
  <2>1. synced.pc = "guard" /\ locked.pc = "resolve"
    BY <1>2, <1>Job DEF RenderLanguage, Job
  <2> HIDE DEF synced, locked
  <2>2. Continue(p, synced) \/ Continue(p, locked)
    BY DEF synced, locked
  <2> QED
    BY <2>1, <2>2
<1>3. CASE Guard(p)
  <2>1. PICK f \in job[p].todo, settling \in SUBSET Cmd :
            Continue(p, Writes(p, f, settling)) \/ Continue(p, Refuses(p, f))
    BY <1>3, GuardMoves
  <2>2. Writes(p, f, settling).pc # "idle" /\ Refuses(p, f).pc # "idle"
    BY GuardJobs
  <2> QED
    BY <2>1, <2>2
<1>4. CASE Write(p)
  <2> DEFINE j == [job[p] EXCEPT !.todo = @ \ {job[p].at}, !.at = NoFile, !.pc = "guard",
                                 !.entries[job[p].at] = Render(job[p].rev)]
  <2>1. Continue(p, j)
    BY <1>4 DEF Write
  <2>2. j.pc = "guard"
    BY <1>Job DEF Job
  <2> HIDE DEF j
  <2> QED
    BY <2>1, <2>2
<1>5. CASE Written(p)
  <2> DEFINE j == [job[p] EXCEPT
                     !.pc = IF job[p].op = "bootstrap" THEN "record" ELSE "resolve"]
  <2>1. Continue(p, j)
    BY <1>5 DEF Written
  <2>2. j.pc # "idle"
    BY <1>Job DEF Job
  <2> HIDE DEF j
  <2> QED
    BY <2>1, <2>2
<1>6. CASE Resolved(p)
  <2> DEFINE j == [job[p] EXCEPT !.pc = IF job[p].op = "lock" THEN "check" ELSE "run",
                                 !.toRun = job[p].settling]
  <2>1. Continue(p, j)
    BY <1>6 DEF Resolved
  <2>2. j.pc # "idle"
    BY <1>Job DEF Job
  <2> HIDE DEF j
  <2> QED
    BY <2>1, <2>2
<1>7. CASE GuardRendered(p)
  <2>1. \/ Continue(p, [job[p] EXCEPT !.pc = "run"])
        \/ \E f \in job[p].gen : Continue(p, [job[p] EXCEPT !.pc = "refused", !.at = f])
    BY <1>7 DEF GuardRendered, Refuse
  <2>2. /\ [job[p] EXCEPT !.pc = "run"].pc # "idle"
        /\ \A f : [job[p] EXCEPT !.pc = "refused", !.at = f].pc # "idle"
    BY <1>Job DEF Job
  <2> QED
    BY <2>1, <2>2
<1>8. CASE RunCommand(p)
  <2>1. PICK c \in job[p].toRun, stops \in BOOLEAN :
            Continue(p, [job[p] EXCEPT !.toRun = IF stops THEN {} ELSE @ \ {c},
                                       !.failed = @ \/ stops])
    BY <1>8 DEF RunCommand
  <2> DEFINE j == [job[p] EXCEPT !.toRun = IF stops THEN {} ELSE @ \ {c},
                                 !.failed = @ \/ stops]
  <2>2. j.pc = "run"
    BY <1>8, <1>Job DEF RunCommand, Job
  <2> HIDE DEF j
  <2> QED
    BY <2>1, <2>2 DEF j
<1>9. CASE ReadBack(p)
  <2> DEFINE back == {f \in ReadBackFiles(job[p]) : disk[f] # Absent}
             new == [f \in File |-> IF f \in back THEN disk[f] ELSE job[p].entries[f]]
             j == [job[p] EXCEPT !.pc = "record", !.entries = new]
  <2>1. Continue(p, j)
    BY <1>9 DEF ReadBack
  <2> HIDE DEF new
  <2>2. j.pc = "record"
    BY <1>Job DEF Job
  <2> HIDE DEF j
  <2> QED
    BY <2>1, <2>2
<1>10. CASE WriteRecord(p)
  <2>1. Continue(p, [job[p] EXCEPT !.pc = "lockfiles"])
    BY <1>10 DEF WriteRecord
  <2>2. [job[p] EXCEPT !.pc = "lockfiles"].pc = "lockfiles"
    BY <1>Job DEF Job
  <2> QED
    BY <2>1, <2>2
<1>11. CASE Backup(p)
  <2>1. Continue(p, [job[p] EXCEPT !.pc = "unlist"])
    BY <1>11 DEF Backup
  <2>2. [job[p] EXCEPT !.pc = "unlist"].pc = "unlist"
    BY <1>Job DEF Job
  <2> QED
    BY <2>1, <2>2
<1> QED
  BY <1>1, <1>2, <1>3, <1>4, <1>5, <1>6, <1>7, <1>8, <1>9, <1>10, <1>11
  DEF Step, RecordLockfiles, RefuseUnregistered, RefuseUnreadable, Unlist, Report

LEMMA AgreeInit == Init => AgreeInv
BY DEF Init, AgreeInv, Running, Idle

LEMMA AgreeStep == TypeInv /\ RecordInv /\ AgreeInv /\ [Next]_vars => AgreeInv'
<1> SUFFICES ASSUME TypeInv, RecordInv, AgreeInv, [Next]_vars PROVE AgreeInv'
  OBVIOUS
<1>1. CASE UNCHANGED vars
  BY <1>1 DEF vars, AgreeInv, Fresh, Running
<1>2. CASE Bump
  BY <1>2 DEF Bump, AgreeInv, Fresh, Running
<1>3. CASE Edit \/ Delete \/ DiscardRecord
  <2>1. job' = job /\ disturbed' = disturbed \cup Running
    BY <1>3 DEF Edit, Delete, Change, DiscardRecord
  <2>2. Running' = Running
    BY <2>1 DEF Running
  <2>3. disturbed' = Running'
    BY <2>1, <2>2 DEF AgreeInv
  <2> QED
    BY <2>3 DEF AgreeInv
<1>4. ASSUME NEW p \in Proc, Begin(p) \/ Take(p) \/ Bootstrap(p) PROVE AgreeInv'
  BY <1>4, AgreeStarts
<1>5. ASSUME NEW p \in Proc, \/ Step(p) \/ Abort(p) \/ TearFile(p)
                            \/ TearBackup(p) \/ TearRecord(p)
      PROVE  AgreeInv'
  <2>1. p \in Running
    BY <1>5 DEF Running, Step, Abort, TearFile, TearBackup, TearRecord, SkipLanguage,
                RenderLanguage, Guard, Write, Written, Resolved, GuardRendered, RunCommand,
                ReadBack, WriteRecord, RecordLockfiles, RefuseUnregistered,
                RefuseUnreadable, Backup, Unlist, Report
  <2>2. CASE End(p)
    BY <2>1, <2>2, AgreeEnd
  <2>3. CASE ~End(p)
    <3>1. Step(p)
      BY <1>5, <2>3 DEF Abort, TearFile, TearBackup, TearRecord
    <3>2. PICK j : Continue(p, j) /\ j.pc # "idle"
      BY <3>1, <2>3, StepContinues
    <3>3. Becomes(p, j) /\ disturbed' = disturbed
      BY <3>2 DEF Continue, Becomes
    <3>4. p \notin disturbed => Fresh(job[p])'
      BY <2>1, <2>3, <3>1, FreshContinues DEF AgreeInv
    <3> QED
      BY <2>1, <3>2, <3>3, <3>4, AgreeContinue
  <2> QED
    BY <2>2, <2>3
<1> QED
  BY <1>1, <1>2, <1>3, <1>4, <1>5 DEF Next

LEMMA AgreeInvariant == Spec => [](TypeInv /\ RecordInv /\ AgreeInv)
BY TypeInit, TypeStep, RecordInit, RecordStep, AgreeInit, AgreeStep, PTL DEF Spec

\* What sync, lock or bootstrap records of a file it rendered, in a run that
\* overlaps with no other and with no edit, is what is on disk: its own output
\* is not refused next time.
THEOREM RecordAgrees == Spec => RecordAgreesWithDisk
<1>1. ASSUME TypeInv, RecordInv, AgreeInv, NEW p \in Proc, WriteRecord(p),
             p \notin disturbed, NEW f \in job[p].gen
      PROVE  disk[f] = Absent \/ record'[f] = disk[f]
  <2>1. /\ job[p] \in Job /\ JobInv(job[p]) /\ job[p].pc = "record"
        /\ disk \in [File -> Text \cup {Absent}]
    BY <1>1 DEF TypeInv, TypeOK, RecordInv, WriteRecord
  <2>2. f \in File /\ job[p].op # "take"
    BY <2>1 DEF Job, JobInv
  <2>3. disk[f] = Absent \/ job[p].entries[f] = disk[f]
    BY <1>1, <2>1 DEF AgreeInv, Running, Fresh
  <2>4. disk[f] # Absent => disk[f] # Unlisted
    BY <2>1, <2>2, ValueTypes
  <2>5. record'[f] = EntryFor(job[p], f)
    BY <1>1, <2>2 DEF WriteRecord, NewRecord, RecordedFiles
  <2> QED
    BY <2>3, <2>4, <2>5 DEF EntryFor
<1>2. TypeInv /\ RecordInv /\ AgreeInv /\ [Next]_vars
        => [\A p \in Proc : WriteRecord(p) /\ p \notin disturbed
              => \A f \in job[p].gen : disk[f] = Absent \/ record'[f] = disk[f]]_vars
  BY <1>1
<1> QED
  BY <1>2, AgreeInvariant, PTL DEF Spec, RecordAgreesWithDisk

\* A run writes a record that lists every file it read there, but the one it
\* takes and those its factory no longer asks for, so any other entry is lost
\* only to a run that overlapped with the one that added it.
THEOREM Forgets == Spec => ForgetsOnlyTakenOrDropped
<1>1. ASSUME TypeInv, RecordInv, AgreeInv, NEW p \in Proc,
             job[p].pc \in {"record", "unlist"}, NEW f \in Rendered,
             record[f] # Unlisted, NewRecord(job[p])[f] = Unlisted
      PROVE  \/ job[p].op = "take" /\ job[p].at = f
             \/ job[p].op \in {"sync", "lock"} /\ f \notin job[p].files
             \/ p \in disturbed /\ job[p].snap[f] = Unlisted
  <2>1. job[p] \in Job /\ JobInv(job[p]) /\ f \in File
    BY <1>1, RenderedIsFile DEF TypeInv, TypeOK, RecordInv
  <2>2. p \notin disturbed => job[p].snap = record
    BY <1>1 DEF AgreeInv, Running, Fresh
  <2>3. CASE job[p].op = "take"
    <3>1. job[p].at # f => job[p].snap[f] = Unlisted
      BY <1>1, <2>1, <2>3 DEF NewRecord, Job
    <3> QED
      BY <1>1, <2>2, <2>3, <3>1
  <2>4. CASE job[p].op # "take"
    <3>1. job[p].pc = "record" /\ job[p].langs = {} /\ job[p].op \in {"sync", "lock", "bootstrap"}
      BY <1>1, <2>1, <2>4 DEF JobInv
    <3>2. f \in RecordedFiles(job[p]) => NewRecord(job[p])[f] # Unlisted
      BY <1>1, <2>1, <2>4, ValueTypes DEF NewRecord, EntryFor
    <3>3. f \notin job[p].gen /\ f \notin job[p].kept
      BY <1>1, <3>2 DEF RecordedFiles
    <3>4. PICK l \in Lang : f \in FilesOf[l]
      BY DEF Rendered
    <3>5. CASE job[p].op = "bootstrap" \/ f \in job[p].files
      <4>1. job[p].kept = Listed(job[p].snap)
        BY <2>1, <3>1, <3>3, <3>4, <3>5 DEF JobInv, FilesFor
      <4>2. job[p].snap[f] = Unlisted
        BY <2>1, <3>3, <4>1 DEF Listed
      <4> QED
        BY <1>1, <2>2, <4>2
    <3> QED
      BY <3>1, <3>5
  <2> QED
    BY <2>3, <2>4
<1>2. ASSUME TypeInv, Next, NEW p \in Proc, job'[p] # job[p], record' # record
      PROVE  job[p].pc \in {"record", "unlist"} /\ record' = NewRecord(job[p])
  <2>1. PICK q \in Proc : WriteRecord(q) \/ Unlist(q)
    BY <1>2 DEF Next, Step, Begin, Take, Bootstrap, Abort, TearFile, TearBackup,
                TearRecord, Bump, Edit, Delete, Change, DiscardRecord, SkipLanguage,
                RenderLanguage, Guard, Refuse, Write, Written, Resolved, GuardRendered,
                RunCommand, ReadBack, RecordLockfiles, RefuseUnregistered,
                RefuseUnreadable, Backup, Report, workspace
  <2>2. \E j : job' = [job EXCEPT ![q] = j]
    BY <2>1 DEF WriteRecord, Unlist, Continue, End
  <2>3. q = p
    BY <1>2, <2>2 DEF TypeInv, TypeOK
  <2> QED
    BY <2>1, <2>3 DEF WriteRecord, Unlist
<1>3. TypeInv /\ RecordInv /\ AgreeInv /\ [Next]_vars
        => [\A p \in Proc, f \in Rendered :
               job'[p] # job[p] /\ record[f] # Unlisted /\ record'[f] = Unlisted
                  => \/ job[p].op = "take" /\ job[p].at = f
                     \/ job[p].op \in {"sync", "lock"} /\ f \notin job[p].files
                     \/ p \in disturbed /\ job[p].snap[f] = Unlisted]_vars
  <2> SUFFICES ASSUME TypeInv, RecordInv, AgreeInv, Next, NEW p \in Proc,
                      NEW f \in Rendered, job'[p] # job[p],
                      record[f] # Unlisted, record'[f] = Unlisted
               PROVE  \/ job[p].op = "take" /\ job[p].at = f
                      \/ job[p].op \in {"sync", "lock"} /\ f \notin job[p].files
                      \/ p \in disturbed /\ job[p].snap[f] = Unlisted
    OBVIOUS
  <2>1. job[p].pc \in {"record", "unlist"} /\ record' = NewRecord(job[p])
    BY <1>2
  <2> QED
    BY <1>1, <2>1
<1> QED
  BY <1>3, AgreeInvariant, PTL DEF Spec, ForgetsOnlyTakenOrDropped
=============================================================================
