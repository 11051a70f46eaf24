---------------------- MODULE DeclaredVersions_proofs -----------------------
(***************************************************************************)
(* What holds of the go.mods of a workspace for any members, modules and   *)
(* versions, wherever a person edits and a job is cut short.               *)
(***************************************************************************)
EXTENDS DeclaredVersions, TLAPS

-----------------------------------------------------------------------------
(* The inductive invariant. *)

\* The job has nothing left that it could take from a person in f: it writes
\* f no more, and the versions of declared modules there are the declared ones.
Past(f) ==
    \/ job.pc \in {"write", "put"} /\ f \notin job.todo
    \/ job.pc = "put" /\ f = job.at
    \/ job.pc \in {"settle", "record"}

\* The job has read f and has not looked yet at what a person did to it since.
Unseen(f) ==
    \/ job.pc \in {"render", "check"}
    \/ job.pc = "write" /\ f \in job.todo
    \/ job.pc = "put" /\ f \in job.todo \ {job.at}

\* A person's version v of m in f is on disk, the guard sees it, and the job
\* under way cannot have read past it.
Safe(f, m, v) ==
    /\ disk[f][m] = v
    /\ declared[m] # 0 => declared[m] # v /\ record[f][m] \notin {0, v}
    /\ Unseen(f) =>
           IF declared[m] = 0 THEN job.deps[m] = 0 ELSE job.deps[m] \notin {0, v}
    /\ job.pc \in {"write", "put"} /\ f \in job.todo /\ declared[m] = 0 =>
           job.text[f][m] = v
    /\ Past(f) => declared[m] = 0

EditInv == \A f \in File, m \in Module : mine[f][m] # 0 => Safe(f, m, mine[f][m])

\* Out of the files that a job has changed, a recorded version is on disk.
RecordInv ==
    \A f \in File \ loose : \A m \in Module \ touched[f] :
        record[f][m] \in {0, disk[f][m]}

\* What is rendered for a file still to be written adds nothing to it.
TextInv ==
    job.pc \in {"write", "put"} => \A f \in job.todo : \A m \in Module \ touched[f] :
        disk[f][m] = 0 => job.text[f][m] = 0

\* The file under a write is one of those to write.
PutInv == job.pc = "put" => job.at \in job.todo

VersionInv == TypeOK /\ PutInv /\ EditInv /\ RecordInv /\ TextInv

-----------------------------------------------------------------------------
(* Types. *)

LEMMA Values ==
    /\ Nothing \in Requires
    /\ NoRequires \in [File -> Requires]
    /\ Idle \in Job
  BY DEF Nothing, Requires, Require, NoRequires, Idle, Job

LEMMA NextTypes ==
    ASSUME TypeOK, PutInv, Next
    PROVE  TypeOK'
<1> USE Values, VersionAssumption, VersionBounds DEF TypeOK, files, history
<1>1. CASE Edit
  <2>1. PICK f \in File, m \in Module, v \in Require :
          /\ edits < MaxEdits
          /\ disk' = [disk EXCEPT ![f][m] = v]
          /\ mine' = [mine EXCEPT ![f][m] = IF Respected(f, m, v) THEN v ELSE 0]
          /\ touched' = [touched EXCEPT ![f] = @ \cup {m}]
          /\ edits' = edits + 1
    BY <1>1 DEF Edit
  <2>2. 0 \in Require
    BY DEF Require
  <2>3. disk' \in [File -> Requires] /\ mine' \in [File -> Requires]
    BY <2>1, <2>2 DEF Requires
  <2>4. missing' \subseteq {g \in File : disk'[g] = Nothing}
    <3>1. missing' = missing \ {f}
      <4>1. PICK g \in File, n \in Module, w \in Require :
              /\ disk' = [disk EXCEPT ![g][n] = w]
              /\ w # disk[g][n]
              /\ missing' = missing \ {g}
        BY <1>1 DEF Edit
      <4>2. disk'[g] # disk[g]
        BY <4>1 DEF Requires
      <4>3. \A h \in File : h # f => disk'[h] = disk[h]
        BY <2>1
      <4> QED
        BY <4>1, <4>2, <4>3
    <3> QED
      BY <2>1, <3>1
  <2> QED
    BY <1>1, <2>1, <2>3, <2>4 DEF Edit
<1>2. CASE Declare
  <2>1. PICK m \in Module, v \in Require :
          /\ edits < MaxEdits
          /\ declared' = [declared EXCEPT ![m] = v]
          /\ mine' = [f \in File |->
                 [mine[f] EXCEPT ![m] = IF declared[m] = 0 \/ v \in {0, @} THEN 0 ELSE @]]
          /\ edits' = edits + 1
    BY <1>2, ZenonT(60) DEF Declare
  <2>2. 0 \in Require
    BY DEF Require
  <2>3. declared' \in Requires /\ mine' \in [File -> Requires]
    BY <2>1, <2>2 DEF Requires
  <2>4. edits' \in 0..MaxEdits
    BY <2>1, VersionBounds
  <2>5. UNCHANGED <<files, record, job, aborts, touched, loose>>
    BY <1>2 DEF Declare
  <2> QED
    BY <2>3, <2>4, <2>5 DEF files
<1>3. CASE Take
  BY <1>3 DEF Take
<1>4. CASE Begin
  <2>1. Deps \in Requires
    BY DEF Deps, Requires, Require
  <2>2. \A op \in {"sync", "lock"} :
            [Idle EXCEPT !.op = op, !.pc = "render", !.deps = Deps] \in Job
    BY <2>1 DEF Job
  <2> QED
    BY <1>4, <2>2 DEF Begin
<1>5. CASE Render
  <2>1. [f \in File |-> Rendered(f)] \in [File -> Requires]
    BY DEF Rendered, Requires, Job
  <2>2. PICK root \in SUBSET {Root} :
            job' = [job EXCEPT !.text = [f \in File |-> Rendered(f)],
                              !.todo = File,
                              !.settle = IF job.op = "lock" THEN File \cup {Root} ELSE root,
                              !.pc = IF job.op = "lock" THEN "check" ELSE "write"]
    BY <1>5 DEF Render
  <2>3. job' \in Job
    BY <2>1, <2>2 DEF Job
  <2> QED
    BY <1>5, <2>3 DEF Render
<1>6. CASE Guard
  <2>1. PICK f \in job.todo :
           \/ Refuse(f)
           \/ /\ \E more \in SUBSET {f} :
                    job' = [job EXCEPT !.pc = "put", !.at = f, !.settle = @ \cup more]
              /\ UNCHANGED <<declared, files, record, edits, aborts, history>>
    BY <1>6 DEF Guard
  <2>2. f \in File
    BY DEF Job
  <2>3. CASE Refuse(f)
    BY <2>2, <2>3 DEF Refuse, Job, files
  <2>4. CASE ~Refuse(f)
    <3>1. PICK more \in SUBSET {f} :
              job' = [job EXCEPT !.pc = "put", !.at = f, !.settle = @ \cup more]
      BY <2>1, <2>4
    <3>2. more \in SUBSET (File \cup {Root})
      BY <2>2, <3>1
    <3>3. job' \in Job
      BY <2>2, <3>1, <3>2 DEF Job
    <3> QED
      BY <2>1, <2>4, <3>3 DEF files
  <2> QED
    BY <2>3, <2>4
<1>15. CASE Put
  <2> DEFINE f == job.at
  <2>1. f \in File /\ f \in job.todo
    BY <1>15 DEF Put, PutInv, Job
  <2>2. job' \in Job
    BY <1>15, <2>1 DEF Put, Job
  <2>3. disk' \in [File -> Requires]
    BY <1>15, <2>1 DEF Put, Job
  <2>4. missing' \subseteq {g \in File : disk'[g] = Nothing}
    BY <1>15, <2>1 DEF Put
  <2> QED
    BY <1>15, <2>1, <2>2, <2>3, <2>4 DEF Put
<1>16. CASE Remove
  <2>1. PICK f \in File \ missing :
          /\ edits < MaxEdits
          /\ disk' = [disk EXCEPT ![f] = Nothing]
          /\ missing' = missing \cup {f}
          /\ mine' = [mine EXCEPT ![f] = Nothing]
          /\ touched' = [touched EXCEPT ![f] = Module]
          /\ edits' = edits + 1
    BY <1>16 DEF Remove
  <2> QED
    BY <1>16, <2>1 DEF Remove
<1>7. CASE Written
  BY <1>7 DEF Written, Job
<1>8. CASE GuardRendered
  <2>1. [job EXCEPT !.pc = "settle", !.text = NoRequires] \in Job
    BY DEF Job
  <2>2. \A f \in File : [job EXCEPT !.pc = "refused", !.at = f] \in Job
    BY DEF Job
  <2> QED
    BY <1>8, <2>1, <2>2 DEF GuardRendered, Refuse
<1>9. CASE Settle
  <2>1. PICK c \in job.settle :
           /\ \E after \in [Tidies(c) -> Requires] :
                  disk' = [f \in File |-> IF f \in Tidies(c) THEN after[f] ELSE disk[f]]
           /\ loose' = loose \cup Tidies(c)
           /\ job' = [job EXCEPT !.settle = @ \ {c}]
    BY <1>9 DEF Settle
  <2>2. Tidies(c) \subseteq File
    BY DEF Tidies, Job
  <2>3. disk' \in [File -> Requires]
    BY <2>1
  <2>4. job' \in Job
    BY <2>1 DEF Job
  <2>5. mine' \in [File -> Requires]
    BY <1>9 DEF Settle, Requires, Require
  <2>6. missing' \subseteq {g \in File : disk'[g] = Nothing}
    <3>1. missing' = missing /\ Tidies(c) \cap missing = {}
      BY <1>9 DEF Settle, Tidies
    <3> QED
      BY <2>1, <3>1
  <2> QED
    BY <1>9, <2>1, <2>2, <2>3, <2>4, <2>5, <2>6 DEF Settle
<1>10. CASE Settled
  BY <1>10 DEF Settled, Job
<1>11. CASE Record
  <2>1. record' \in [File -> Requires]
    BY <1>11 DEF Record, EntryOf, Requires, Require
  <2> QED
    BY <1>11, <2>1 DEF Record
<1>12. CASE Report
  BY <1>12 DEF Report
<1>13. CASE Abort
  BY <1>13 DEF Abort
<1>14. CASE TearFile
  <2> DEFINE f == job.at
  <2>1. /\ disk' = [disk EXCEPT ![f] = Nothing]
        /\ missing' = missing \ {f}
        /\ loose' = loose \cup {f}
        /\ mine' = [mine EXCEPT ![f] = [m \in Module |->
               IF declared[m] = 0 THEN 0 ELSE mine[f][m]]]
    BY <1>14 DEF TearFile
  <2>2. f \in File
    BY <1>14 DEF TearFile, PutInv, Job
  <2>3. mine' \in [File -> Requires]
    BY <2>1, <2>2 DEF Requires, Require
  <2>4. missing' \subseteq {g \in File : disk'[g] = Nothing}
    BY <2>1
  <2> QED
    BY <1>14, <2>1, <2>2, <2>3, <2>4 DEF TearFile
<1> QED
  BY <1>1, <1>2, <1>3, <1>4, <1>5, <1>6, <1>7, <1>8, <1>9, <1>10, <1>11,
     <1>12, <1>13, <1>14, <1>15, <1>16, Zenon DEF Next

LEMMA PutsStay ==
    ASSUME TypeOK, PutInv, Next
    PROVE  PutInv'
<1>t. job \in Job
  BY DEF TypeOK
<1>1. CASE Guard
  <2>1. PICK f \in job.todo :
           \/ Refuse(f)
           \/ \E more \in SUBSET {f} :
                  job' = [job EXCEPT !.pc = "put", !.at = f, !.settle = @ \cup more]
    BY <1>1 DEF Guard
  <2> QED
    BY <2>1, <1>t DEF PutInv, Refuse, Job
<1>2. CASE Edit \/ Remove \/ Declare \/ Take
  BY <1>2 DEF PutInv, Edit, Remove, Declare, Take
<1>3. CASE Render
  BY <1>3, <1>t DEF PutInv, Render, Job
<1>4. CASE Put \/ Written \/ GuardRendered \/ Settle \/ Settled
  BY <1>4, <1>t DEF PutInv, Put, Written, GuardRendered, Refuse, Settle, Settled, Job
<1>5. CASE Begin
  BY <1>5 DEF PutInv, Begin, Idle
<1>6. CASE Record \/ Report \/ Abort \/ TearFile
  <2>1. job' = Idle
    BY <1>6, Zenon DEF Record, Report, Abort, TearFile
  <2> QED
    BY <2>1 DEF PutInv, Idle
<1> QED
  BY <1>1, <1>2, <1>3, <1>4, <1>5, <1>6, Zenon DEF Next

-----------------------------------------------------------------------------
(* What a person put there stays. *)

LEMMA EditsStay ==
    ASSUME VersionInv, Next, NEW f \in File, NEW m \in Module, mine'[f][m] # 0
    PROVE  Safe(f, m, mine[f][m])'
<1> USE DEF VersionInv
<1>t. /\ job \in Job /\ mine[f] \in Requires /\ disk[f] \in Requires
      /\ mine[f][m] # 0 => Safe(f, m, mine[f][m])
  BY DEF TypeOK, EditInv
<1>1. CASE Edit
  <2>1. PICK g \in File, n \in Module, v \in Require :
          /\ v # disk[g][n]
          /\ disk' = [disk EXCEPT ![g][n] = v]
          /\ mine' = [mine EXCEPT ![g][n] = IF Respected(g, n, v) THEN v ELSE 0]
    BY <1>1 DEF Edit
  <2>2. UNCHANGED <<declared, record, job>>
    BY <1>1 DEF Edit
  <2>3. CASE g = f /\ n = m
    <3>1. disk'[f][m] = v /\ mine'[f][m] = IF Respected(f, m, v) THEN v ELSE 0
      BY <2>1, <2>3 DEF TypeOK, Requires
    <3>2. Respected(f, m, v) /\ mine'[f][m] = v
      BY <3>1
    <3> QED
      BY <2>2, <3>1, <3>2 DEF Safe, Past, Unseen, Respected
  <2>4. CASE ~(g = f /\ n = m)
    <3>1. disk'[f][m] = disk[f][m] /\ mine'[f][m] = mine[f][m]
      BY <2>1, <2>4 DEF TypeOK, Requires
    <3> QED
      BY <2>2, <3>1, <1>t DEF Safe, Past, Unseen
  <2> QED
    BY <2>3, <2>4
<1>2. CASE Declare
  <2>1. PICK n \in Module, v \in Require :
          /\ declared' = [declared EXCEPT ![n] = v]
          /\ mine' = [g \in File |->
                 [mine[g] EXCEPT ![n] = IF declared[n] = 0 \/ v \in {0, @} THEN 0 ELSE @]]
    BY <1>2 DEF Declare
  <2>2. UNCHANGED <<disk, record, job>>
    BY <1>2 DEF Declare, files
  <2>3. CASE n = m
    <3>1. /\ mine'[f][m] = mine[f][m] /\ declared[m] # 0
          /\ v # 0 /\ v # mine[f][m] /\ declared'[m] = v
      BY <2>1, <2>3, <1>t DEF TypeOK, Requires
    <3> QED
      BY <2>2, <3>1, <1>t DEF Safe, Past, Unseen
  <2>4. CASE n # m
    <3>1. mine'[f][m] = mine[f][m] /\ declared'[m] = declared[m]
      BY <2>1, <2>4, <1>t DEF TypeOK, Requires
    <3> QED
      BY <2>2, <3>1, <1>t DEF Safe, Past, Unseen
  <2> QED
    BY <2>3, <2>4
<1>3. CASE Take
  <2>1. PICK g \in File :
          /\ job.pc = "idle"
          /\ record' = [record EXCEPT ![g] = Nothing]
          /\ mine' = [mine EXCEPT ![g] = Nothing]
    BY <1>3 DEF Take
  <2>2. UNCHANGED <<declared, disk, job>>
    BY <1>3 DEF Take, files
  <2>3. g # f
    BY <2>1 DEF TypeOK, Nothing
  <2>4. mine'[f] = mine[f] /\ record'[f] = record[f]
    BY <2>1, <2>3 DEF TypeOK
  <2> QED
    BY <2>2, <2>4, <1>t DEF Safe, Past, Unseen
<1>4. CASE Begin
  <2>1. /\ job'.pc = "render" /\ job'.deps = Deps /\ job'.todo = {}
        /\ UNCHANGED <<declared, disk, record, mine>>
    BY <1>4 DEF Begin, Idle, files, history
  <2>2. mine[f][m] # 0 /\ disk[f][m] = mine[f][m]
    BY <2>1, <1>t DEF Safe
  <2>3. Deps[m] = declared[m]
    BY <2>2 DEF Deps
  <2> QED
    BY <2>1, <2>2, <2>3, <1>t DEF Safe, Past, Unseen
<1>5. CASE Render
  <2>1. /\ job.pc = "render" /\ job'.todo = File /\ job'.deps = job.deps
        /\ job'.text = [g \in File |-> Rendered(g)]
        /\ job'.pc \in {"check", "write"}
        /\ UNCHANGED <<declared, disk, record, mine>>
    BY <1>5, <1>t DEF Render, Job, files, history
  <2>2. job'.text[f][m] = IF disk[f][m] # 0 /\ job.deps[m] # 0
                          THEN job.deps[m] ELSE disk[f][m]
    BY <2>1 DEF Rendered
  <2> QED
    BY <2>1, <2>2, <1>t DEF Safe, Past, Unseen
<1>6. CASE Guard
  <2>0. UNCHANGED <<declared, disk, record, mine>>
    BY <1>6 DEF Guard, Refuse, files, files, history
  <2>1. PICK g \in job.todo :
           \/ Refuse(g)
           \/ /\ Moved(g) = {}
              /\ \E more \in SUBSET {g} :
                     job' = [job EXCEPT !.pc = "put", !.at = g, !.settle = @ \cup more]
    BY <1>6 DEF Guard
  <2>2. job.pc = "write" /\ g \in File
    BY <1>6, <1>t DEF Guard, Job
  <2>3. CASE Refuse(g)
    <3>1. job'.pc = "refused"
      BY <2>3, <1>t DEF Refuse, Job
    <3> QED
      BY <2>0, <3>1, <1>t DEF Safe, Past, Unseen
  <2>4. CASE ~Refuse(g)
    <3>1. /\ job'.pc = "put" /\ job'.at = g /\ job'.todo = job.todo
          /\ job'.deps = job.deps /\ job'.text = job.text
      BY <2>1, <2>4, <1>t DEF Job
    <3>2. CASE g = f
      <4>1. m \notin Moved(f)
        BY <2>1, <2>4, <3>2
      <4>2. declared[m] = 0
        BY <2>0, <2>2, <3>2, <4>1, <1>t DEF Safe, Unseen, Moved
      <4> QED
        BY <2>0, <2>2, <3>1, <3>2, <4>2, <1>t DEF Safe, Past, Unseen
    <3>3. CASE g # f
      BY <2>0, <2>2, <3>1, <3>3, <1>t DEF Safe, Past, Unseen
    <3> QED
      BY <3>2, <3>3
  <2> QED
    BY <2>3, <2>4
<1>14. CASE Put
  <2>1. /\ job.pc = "put" /\ job.at \in job.todo /\ job.at \in File
        /\ job'.pc = "write" /\ job'.todo = job.todo \ {job.at}
        /\ job'.deps = job.deps
        /\ \A h \in File : h # job.at => job'.text[h] = job.text[h]
    BY <1>14, <1>t DEF Put, PutInv, Job
  <2>2. /\ mine' = mine /\ UNCHANGED <<declared, record>>
        /\ disk' = [disk EXCEPT ![job.at] = job.text[job.at]]
    BY <1>14 DEF Put
  <2>3. CASE f = job.at
    <3>1. declared[m] = 0 /\ job.text[f][m] = mine[f][m]
      BY <2>1, <2>2, <2>3, <1>t DEF Safe, Past
    <3>2. disk'[f][m] = mine[f][m]
      BY <2>1, <2>2, <2>3, <3>1 DEF TypeOK
    <3> QED
      BY <2>1, <2>2, <2>3, <3>1, <3>2 DEF Safe, Past, Unseen
  <2>4. CASE f # job.at
    <3>1. disk'[f] = disk[f]
      BY <2>1, <2>2, <2>4 DEF TypeOK
    <3> QED
      BY <2>1, <2>2, <2>4, <3>1, <1>t DEF Safe, Past, Unseen
  <2> QED
    BY <2>3, <2>4
<1>15. CASE Remove
  <2>1. PICK g \in File \ missing :
          /\ disk' = [disk EXCEPT ![g] = Nothing]
          /\ mine' = [mine EXCEPT ![g] = Nothing]
    BY <1>15 DEF Remove
  <2>2. UNCHANGED <<declared, record, job>>
    BY <1>15 DEF Remove
  <2>3. g # f
    BY <2>1 DEF TypeOK, Nothing
  <2>4. mine'[f] = mine[f] /\ disk'[f] = disk[f]
    BY <2>1, <2>3 DEF TypeOK
  <2> QED
    BY <2>2, <2>4, <1>t DEF Safe, Past, Unseen
<1>7. CASE Written
  <2>1. /\ job.pc = "write" /\ f \notin job.todo /\ job'.pc = "settle"
        /\ UNCHANGED <<declared, disk, record, mine>>
    BY <1>7, <1>t DEF Written, Job, files, history
  <2> QED
    BY <2>1, <1>t DEF Safe, Past, Unseen
<1>8. CASE GuardRendered
  <2>1. job.pc = "check" /\ UNCHANGED <<declared, disk, record, mine>>
    BY <1>8 DEF GuardRendered, Refuse, files, history
  <2>2. CASE \A g \in File : Moved(g) = {}
    <3>1. job'.pc = "settle"
      BY <1>8, <2>2, <1>t DEF GuardRendered, Job
    <3>2. m \notin Moved(f)
      BY <2>2
    <3>3. declared[m] = 0
      BY <2>1, <3>2, <1>t DEF Safe, Unseen, Moved
    <3> QED
      BY <2>1, <3>1, <3>3, <1>t DEF Safe, Past, Unseen
  <2>3. CASE ~(\A g \in File : Moved(g) = {})
    <3>1. job'.pc = "refused"
      BY <1>8, <2>3, <1>t DEF GuardRendered, Refuse, Job
    <3> QED
      BY <2>1, <3>1, <1>t DEF Safe, Past, Unseen
  <2> QED
    BY <2>2, <2>3
<1>9. CASE Settle
  <2>1. declared[m] # 0 /\ mine'[f][m] = mine[f][m] /\ job.pc = "settle"
    BY <1>9 DEF Settle
  <2> QED
    BY <2>1, <1>t DEF Safe, Past, Unseen
<1>10. CASE Settled
  <2>1. /\ job.pc = "settle" /\ job'.pc = "record"
        /\ UNCHANGED <<declared, disk, record, mine>>
    BY <1>10, <1>t DEF Settled, Job, files, history
  <2> QED
    BY <2>1, <1>t DEF Safe, Past, Unseen
<1>11. CASE Record
  <2>1. /\ job.pc = "record" /\ job'.pc = "idle"
        /\ UNCHANGED <<declared, disk, mine>>
    BY <1>11 DEF Record, Idle, files
  <2>2. declared[m] = 0
    BY <2>1, <1>t DEF Safe, Past
  <2> QED
    BY <2>1, <2>2, <1>t DEF Safe, Past, Unseen
<1>12. CASE Report \/ Abort
  <2>1. job'.pc = "idle" /\ UNCHANGED <<declared, disk, record, mine>>
    BY <1>12 DEF Report, Abort, Idle, files, history
  <2> QED
    BY <2>1, <1>t DEF Safe, Past, Unseen
<1>13. CASE TearFile
  <2> DEFINE g == job.at
  <2>1. /\ disk' = [disk EXCEPT ![g] = Nothing]
        /\ mine' = [mine EXCEPT ![g] = [n \in Module |->
               IF declared[n] = 0 THEN 0 ELSE mine[g][n]]]
    BY <1>13 DEF TearFile
  <2>2. /\ job.pc = "put" /\ job'.pc = "idle" /\ g \in File
        /\ UNCHANGED <<declared, record>>
    BY <1>13, <1>t DEF TearFile, PutInv, Idle, Job
  <2>3. g # f
    BY <2>1, <2>2, <1>t DEF TypeOK, Safe, Past
  <2>4. mine'[f] = mine[f] /\ disk'[f] = disk[f]
    BY <2>1, <2>2, <2>3 DEF TypeOK
  <2> QED
    BY <2>2, <2>4, <1>t DEF Safe, Past, Unseen
<1> QED
  BY <1>1, <1>2, <1>3, <1>4, <1>5, <1>6, <1>7, <1>8, <1>9, <1>10, <1>11,
     <1>12, <1>13, <1>14, <1>15, Zenon DEF Next

-----------------------------------------------------------------------------
(* What the record says. *)

LEMMA RecordsStay ==
    ASSUME VersionInv, Next
    PROVE  RecordInv'
<1> USE DEF VersionInv
<1>t. job \in Job /\ RecordInv
  BY DEF TypeOK
<1>1. CASE Edit
  <2>1. PICK g \in File, n \in Module, v \in Require :
          /\ disk' = [disk EXCEPT ![g][n] = v]
          /\ touched' = [touched EXCEPT ![g] = @ \cup {n}]
    BY <1>1 DEF Edit
  <2>2. UNCHANGED <<record, loose>>
    BY <1>1 DEF Edit
  <2>3. ASSUME NEW f \in File \ loose', NEW m \in Module \ touched'[f]
        PROVE  record'[f][m] \in {0, disk'[f][m]}
    <3>1. ~(g = f /\ n = m) /\ m \notin touched[f]
      BY <2>1, <2>3 DEF TypeOK
    <3>2. disk'[f][m] = disk[f][m]
      BY <2>1, <2>3, <3>1 DEF TypeOK, Requires
    <3> QED
      BY <2>2, <2>3, <3>1, <3>2 DEF RecordInv
  <2> QED
    BY <2>3 DEF RecordInv
<1>2. CASE Take
  <2>1. PICK g \in File : record' = [record EXCEPT ![g] = Nothing]
    BY <1>2 DEF Take
  <2>2. UNCHANGED <<disk, touched, loose>>
    BY <1>2 DEF Take, files
  <2>3. ASSUME NEW f \in File \ loose', NEW m \in Module \ touched'[f]
        PROVE  record'[f][m] \in {0, disk'[f][m]}
    <3>1. record'[f] = record[f] \/ record'[f] = Nothing
      BY <2>1 DEF TypeOK
    <3>2. Nothing[m] = 0
      BY DEF Nothing
    <3> QED
      BY <2>2, <2>3, <3>1, <3>2 DEF RecordInv
  <2> QED
    BY <2>3 DEF RecordInv
<1>3. CASE Put
  <2>1. /\ disk' = [disk EXCEPT ![job.at] = job.text[job.at]]
        /\ loose' = loose \cup {job.at}
        /\ UNCHANGED <<record, touched>>
    BY <1>3 DEF Put
  <2>2. \A f \in File : f # job.at => disk'[f] = disk[f]
    BY <2>1 DEF TypeOK
  <2> QED
    BY <2>1, <2>2 DEF RecordInv
<1>8. CASE Remove
  <2>1. PICK g \in File \ missing :
          /\ disk' = [disk EXCEPT ![g] = Nothing]
          /\ touched' = [touched EXCEPT ![g] = Module]
    BY <1>8 DEF Remove
  <2>2. UNCHANGED <<record, loose>>
    BY <1>8 DEF Remove
  <2>3. \A f \in File : f # g => disk'[f] = disk[f] /\ touched'[f] = touched[f]
    BY <2>1 DEF TypeOK
  <2>4. touched'[g] = Module
    BY <2>1 DEF TypeOK
  <2> QED
    BY <2>2, <2>3, <2>4 DEF RecordInv
<1>4. CASE Settle
  <2>1. PICK c \in job.settle :
           /\ \E after \in [Tidies(c) -> Requires] :
                  disk' = [f \in File |-> IF f \in Tidies(c) THEN after[f] ELSE disk[f]]
           /\ loose' = loose \cup Tidies(c)
    BY <1>4 DEF Settle
  <2>2. UNCHANGED <<record, touched>>
    BY <1>4 DEF Settle
  <2>3. \A f \in File \ loose' : disk'[f] = disk[f]
    BY <2>1
  <2> QED
    BY <2>1, <2>2, <2>3 DEF RecordInv
<1>5. CASE Record
  <2>1. UNCHANGED disk
    BY <1>5 DEF Record, files
  <2>2. ASSUME NEW f \in File \ loose', NEW m \in Module \ touched'[f]
        PROVE  record'[f][m] \in {0, disk'[f][m]}
    <3>1. CASE f \in missing
      <4>1. f \notin loose /\ record'[f] = record[f] /\ m \notin touched[f]
        BY <1>5, <2>2, <3>1 DEF Record
      <4> QED
        BY <2>1, <4>1 DEF RecordInv
    <3>2. CASE f \notin missing
      BY <1>5, <2>1, <3>2 DEF Record, EntryOf
    <3> QED
      BY <3>1, <3>2
  <2> QED
    BY <2>2 DEF RecordInv
<1>6. CASE TearFile
  <2>1. /\ disk' = [disk EXCEPT ![job.at] = Nothing]
        /\ loose' = loose \cup {job.at}
    BY <1>6 DEF TearFile
  <2>2. UNCHANGED <<record, touched>>
    BY <1>6 DEF TearFile
  <2>3. \A f \in File : f # job.at => disk'[f] = disk[f]
    BY <2>1 DEF TypeOK
  <2> QED
    BY <2>1, <2>2, <2>3 DEF RecordInv
<1>7. CASE UNCHANGED <<disk, record, touched, loose>>
  BY <1>7 DEF RecordInv
<1> QED
  BY <1>1, <1>2, <1>3, <1>4, <1>5, <1>6, <1>7, <1>8 DEF Next, Declare, Begin, Render,
     Guard, Written, GuardRendered, Refuse, Settled, Report, Abort, files, history

-----------------------------------------------------------------------------
(* What a render adds. *)

LEMMA TextsStay ==
    ASSUME VersionInv, Next
    PROVE  TextInv'
<1> USE DEF VersionInv
<1>t. job \in Job /\ TextInv
  BY DEF TypeOK
<1>1. CASE Edit
  <2>1. PICK g \in File, n \in Module, v \in Require :
          /\ disk' = [disk EXCEPT ![g][n] = v]
          /\ touched' = [touched EXCEPT ![g] = @ \cup {n}]
    BY <1>1 DEF Edit
  <2>2. UNCHANGED job
    BY <1>1 DEF Edit
  <2>3. ASSUME job.pc \in {"write", "put"}, NEW f \in job.todo, NEW m \in Module \ touched'[f],
               disk'[f][m] = 0
        PROVE  job.text[f][m] = 0
    <3>0. f \in File
      BY <1>t DEF Job
    <3>1. ~(g = f /\ n = m) /\ m \notin touched[f]
      BY <2>1, <2>3, <3>0 DEF TypeOK
    <3>2. disk'[f][m] = disk[f][m]
      BY <2>1, <2>3, <3>0, <3>1 DEF TypeOK, Requires
    <3> QED
      BY <2>3, <3>1, <3>2 DEF TextInv
  <2> QED
    BY <2>2, <2>3 DEF TextInv
<1>2. CASE Render
  <2>1. /\ job'.text = [g \in File |-> Rendered(g)] /\ job'.todo = File
        /\ disk' = disk
    BY <1>2, <1>t DEF Render, files, Job
  <2> QED
    BY <2>1 DEF TextInv, Rendered
<1>3. CASE Put
  <2>1. /\ disk' = [disk EXCEPT ![job.at] = job.text[job.at]]
        /\ job' = [job EXCEPT !.pc = "write", !.at = NoFile,
                              !.todo = @ \ {job.at}, !.text[job.at] = Nothing]
        /\ UNCHANGED touched
    BY <1>3 DEF Put
  <2>2. /\ job.pc = "put" /\ job.at \in File
        /\ job'.todo = job.todo \ {job.at} /\ job.todo \subseteq File
        /\ \A f \in File : f # job.at => job'.text[f] = job.text[f]
    BY <1>3, <2>1, <1>t DEF Put, PutInv, Job
  <2>3. \A f \in File : f # job.at => disk'[f] = disk[f]
    BY <2>1 DEF TypeOK
  <2> QED
    BY <2>1, <2>2, <2>3, <1>t DEF TextInv
<1>9. CASE Guard
  <2>1. PICK g \in job.todo :
           \/ Refuse(g)
           \/ \E more \in SUBSET {g} :
                  job' = [job EXCEPT !.pc = "put", !.at = g, !.settle = @ \cup more]
    BY <1>9 DEF Guard
  <2>2. UNCHANGED <<disk, touched>> /\ job.pc = "write"
    BY <1>9 DEF Guard, Refuse, files, history
  <2>3. CASE Refuse(g)
    BY <2>3, <1>t DEF Refuse, TextInv, Job
  <2>4. CASE ~Refuse(g)
    <3>1. job'.todo = job.todo /\ job'.text = job.text
      BY <2>1, <2>4, <1>t DEF Job
    <3> QED
      BY <2>2, <3>1, <1>t DEF TextInv
  <2> QED
    BY <2>3, <2>4
<1>10. CASE Remove
  <2>1. PICK g \in File \ missing :
          /\ disk' = [disk EXCEPT ![g] = Nothing]
          /\ touched' = [touched EXCEPT ![g] = Module]
    BY <1>10 DEF Remove
  <2>2. UNCHANGED job /\ job.todo \subseteq File
    BY <1>10, <1>t DEF Remove, Job
  <2>3. \A f \in File : f # g => disk'[f] = disk[f] /\ touched'[f] = touched[f]
    BY <2>1 DEF TypeOK
  <2>4. touched'[g] = Module
    BY <2>1 DEF TypeOK
  <2> QED
    BY <2>2, <2>3, <2>4, <1>t DEF TextInv
<1>4. CASE UNCHANGED <<disk, touched, job>>
  BY <1>4, <1>t DEF TextInv
<1>5. CASE job'.pc \notin {"write", "put"}
  BY <1>5 DEF TextInv
<1>6. CASE Written \/ GuardRendered \/ Settle \/ Settled
  BY <1>5, <1>6, <1>t DEF Written, GuardRendered, Refuse, Settle, Settled, Job
<1>7. CASE Begin \/ Record \/ Report \/ Abort \/ TearFile
  <2>1. job'.pc \notin {"write", "put"}
    <3>1. CASE Begin
      BY <3>1 DEF Begin, Idle
    <3>2. CASE job' = Idle
      BY <3>2 DEF Idle
    <3> QED
      BY <1>7, <3>1, <3>2, Zenon DEF Record, Report, Abort, TearFile
  <2> QED
    BY <1>5, <2>1
<1>8. CASE Declare \/ Take
  BY <1>4, <1>8 DEF Declare, Take, files
<1> QED
  BY <1>1, <1>2, <1>3, <1>6, <1>7, <1>8, <1>9, <1>10, Zenon DEF Next

-----------------------------------------------------------------------------
(* The invariant and what follows from it. *)

LEMMA InitVersions == Init => VersionInv
<1> SUFFICES ASSUME Init
             PROVE  VersionInv
  OBVIOUS
<1>1. TypeOK
  <2>1. missing \subseteq {f \in File : disk[f] = Nothing}
    BY DEF Init, NoRequires
  <2> QED
    BY <2>1, Values, VersionBounds DEF Init, TypeOK
<1>2. PutInv /\ EditInv /\ RecordInv /\ TextInv
  BY DEF Init, PutInv, EditInv, RecordInv, TextInv, NoRequires, Nothing, Idle
<1> QED
  BY <1>1, <1>2 DEF VersionInv

LEMMA NextVersions == VersionInv /\ [Next]_vars => VersionInv'
<1> SUFFICES ASSUME VersionInv, [Next]_vars
             PROVE  VersionInv'
  OBVIOUS
<1>1. CASE UNCHANGED vars
  BY <1>1 DEF vars, files, VersionInv, TypeOK, PutInv, EditInv, Safe, Past, Unseen,
         RecordInv, TextInv
<1>2. CASE Next
  <2>1. TypeOK'
    BY <1>2, NextTypes DEF VersionInv
  <2>2. \A f \in File, m \in Module : mine'[f][m] # 0 => Safe(f, m, mine[f][m])'
    BY <1>2, EditsStay
  <2>3. EditInv'
    BY <2>2 DEF EditInv, Safe, Past, Unseen
  <2> QED
    BY <1>2, <2>1, <2>3, PutsStay, RecordsStay, TextsStay DEF VersionInv
<1> QED
  BY <1>1, <1>2

THEOREM VersionInvariant == Spec => []VersionInv
  BY InitVersions, NextVersions, PTL DEF Spec

\* Every variable keeps its type.
THEOREM VersionTypes == Spec => []TypeOK
  BY VersionInvariant, PTL DEF VersionInv

\* A version a person put into a go.mod stays there until the factory declares
\* it, the person changes it, or, if nobody declares the module, a tidy does.
THEOREM EditsAreKept == Spec => []EditsKept
<1>1. VersionInv => EditsKept
  BY DEF VersionInv, EditInv, Safe, EditsKept
<1> QED
  BY <1>1, VersionInvariant, PTL

\* Between jobs a recorded version that is not on disk was changed by a person, or
\* the file was removed, or a job was refused or cut short before it recorded it:
\* the guard does not blame a person for a tidy.
THEOREM RecordsTellDisk == Spec => []RecordTellsDisk
<1>1. VersionInv => RecordTellsDisk
  BY DEF VersionInv, RecordInv, RecordTellsDisk
<1> QED
  BY <1>1, VersionInvariant, PTL

\* A render adds no require.
THEOREM RendersAddNothing == Spec => RenderAddsNothing
<1>1. ASSUME VersionInv, [Next]_vars, job.pc = "put", job'.pc = "write",
             NEW m \in Module \ touched[job.at], disk[job.at][m] = 0
      PROVE  disk'[job.at][m] = 0
  <2>t. job \in Job
    BY <1>1 DEF VersionInv, TypeOK
  <2>1. Put
    <3>1. job' # job
      BY <1>1
    <3>2. ~(Written \/ Guard \/ GuardRendered \/ Settle \/ Settled \/ Render)
      BY <1>1, <2>t DEF Written, Guard, GuardRendered, Settle, Settled, Render, Job
    <3>3. ~(Begin \/ Record \/ Report \/ Abort \/ TearFile)
      BY <1>1 DEF Begin, Record, Report, Abort, TearFile, Idle
    <3> QED
      BY <1>1, <3>1, <3>2, <3>3 DEF Next, Edit, Remove, Declare, Take, vars
  <2>2. job.at \in job.todo /\ job.at \in File
    BY <1>1, <2>t DEF VersionInv, PutInv, Job
  <2>3. disk'[job.at] = job.text[job.at]
    BY <1>1, <2>1, <2>2 DEF Put, VersionInv, TypeOK
  <2> QED
    BY <1>1, <2>2, <2>3 DEF VersionInv, TextInv
<1>2. VersionInv /\ [Next]_vars =>
          (job.pc = "put" /\ job'.pc = "write" => \A m \in Module \ touched[job.at] :
              disk[job.at][m] = 0 => disk'[job.at][m] = 0)
  BY <1>1
<1> QED
  BY <1>2, VersionInvariant, PTL DEF Spec, RenderAddsNothing
=============================================================================
