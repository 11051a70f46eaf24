--------------------------- MODULE Resolve_proofs ---------------------------
(***************************************************************************)
(* What holds of the versions a factory gets and of the requests it files, *)
(* for any entries and records and any number of syncs that interleave     *)
(* with the register's pipeline.                                           *)
(***************************************************************************)
EXTENDS Resolve, FiniteSetTheorems, WellFoundedInduction, TLAPS

-----------------------------------------------------------------------------
(* Jobs. *)

\* The fields of a job.
Fields == {"pc", "head", "prune", "pinned", "specs", "todo", "seen", "entry",
           "track", "found", "kind", "out", "missing", "dead"}

Shape ==
    /\ job = [p \in Process |-> job[p]]
    /\ \A p \in Process : DOMAIN job[p] = Fields

\* What a step leaves of a process's job: nothing, ...
Ends(p) == job'[p] = Idle

\* ... the pins it is to prune, ...
Ending(dead, head) == [Idle EXCEPT !.pc = "prune", !.head = head, !.dead = dead]

Prunes(p) == job'[p] = Ending(job[p].dead, job[p].head)

\* ... a run at its start, ...
Fresh(j, d, vs) ==
    /\ DOMAIN j = Fields /\ j.pc = "next" /\ j.pinned \in BOOLEAN /\ j.specs = d
    /\ j.todo = Entry /\ j.seen = vs /\ j.missing = {} /\ j.out = Idle.out
    /\ j.found = Absent

Opens(p) == (Begin(p) \/ Prune(p)) /\ Fresh(job'[p], specs', verdicts)

\* ... one that answers an entry in the factory's own words, ...
Answering(j, e, v) == [Done(j, e) EXCEPT !.out[e] = v]

Owns(p) ==
    \E e \in job[p].todo :
        /\ ~FromRegister(job[p].specs[e])
        /\ job'[p] = Answering(job[p], e, job[p].specs[e].version)

\* ... misses one in a cache's checkout, ...
Lacks(p) == cache /\ \E e \in job[p].todo : job'[p] = Misses(job[p], e)

\* ... asks for one elsewhere, ...
Wanting(j, e, kind) == [j EXCEPT !.pc = "look", !.entry = e, !.kind = kind]

Wants(p) ==
    /\ ~cache
    /\ \E e \in job[p].todo, kind \in {"admission", "open-track"} :
           job'[p] = Wanting(job[p], e, kind)

\* ... or has found its track; ...
Finding(j, e, track, t, pc, kind, dead) ==
    [j EXCEPT !.pc = pc, !.kind = kind, !.entry = e, !.track = track, !.found = t,
              !.dead = dead]

Finds(p) ==
    \E e \in job[p].todo, pc \in {"look", "gate"}, kind \in {"upgrade", job[p].kind} :
    \E track, t :
        /\ FromRegister(job[p].specs[e])
        /\ track = TrackOf(View(p), e, job[p].specs[e])
        /\ t = Read(View(p), e, track) /\ t # Absent
        /\ ~PinExpired(job[p].specs[e], now)
        /\ pc = "look" => ~cache /\ kind = "upgrade"
        /\ job'[p] = Finding(job[p], e, track, t, pc, kind,
               job[p].dead \cup IF PinDead(job[p].specs[e], t) THEN {e} ELSE {})

\* ... one that is to file a request, ...
Moved(j, pc) == [j EXCEPT !.pc = pc]

Decides(p) ==
    /\ job[p].pc = "look" /\ Open(p) = {}
    /\ job'[p] = Moved(job[p], "file")

\* ... has one to wait for, ...
HasAsked(p) ==
    \/ job[p].pc = "look" /\ Open(p) # {}
    \/ job[p].pc = "file"

Waits(p) == HasAsked(p) /\ job'[p] = Misses(job[p], job[p].entry)

\* ... or goes on, the pin being ahead, ...
Passes(p) ==
    HasAsked(p) /\ job[p].kind = "upgrade" /\ job'[p] = Moved(job[p], "gate")

\* ... and one that got its version past the gate.
Settles(p) ==
    /\ job[p].pc = "gate" /\ ~Refused(p)
    /\ job'[p] = Answering(job[p], job[p].entry, Resolved(SpecOf(p), job[p].found))

Turns(p) ==
    \/ Ends(p) \/ Prunes(p) \/ Opens(p)
    \/ Owns(p) \/ Lacks(p) \/ Wants(p) \/ Finds(p)
    \/ Decides(p) \/ Waits(p) \/ Passes(p) \/ Settles(p)

LEMMA IdleShape ==
    /\ DOMAIN Idle = Fields /\ Idle.pc = "idle" /\ Idle.missing = {} /\ Idle.seen = {}
    /\ Idle.pinned = FALSE /\ Idle.out = [e \in Entry |-> 0] /\ Idle.found = Absent
  BY DEF Idle, Fields

LEMMA FreshShape ==
    ASSUME NEW i, DOMAIN i = Fields, i.missing = {}, i.out = Idle.out, i.found = Absent,
           NEW head, NEW pinned \in BOOLEAN, NEW d, NEW vs
    PROVE  Fresh([i EXCEPT !.pc = "next", !.head = head, !.pinned = pinned,
                       !.specs = d, !.todo = Entry, !.seen = vs], d, vs)
  BY DEF Fields, Fresh

LEMMA EndingShape ==
    ASSUME NEW dead, NEW head
    PROVE  LET j == Ending(dead, head)
           IN  /\ DOMAIN j = Fields /\ j.pc = "prune" /\ j.missing = {} /\ j.seen = {}
               /\ j.out = Idle.out
  BY IdleShape DEF Ending, Fields

LEMMA EndingPinned ==
    ASSUME NEW dead, NEW head
    PROVE  Ending(dead, head).pinned = FALSE
  BY IdleShape DEF Ending, Fields

\* What an entry that is done with leaves of a job.
LEMMA DoneShape ==
    ASSUME NEW j, DOMAIN j = Fields, NEW e
    PROVE  /\ DOMAIN Done(j, e) = Fields /\ DOMAIN Misses(j, e) = Fields
           /\ Done(j, e).pc = "next" /\ Misses(j, e).pc = "next"
           /\ Done(j, e).missing = j.missing
           /\ Misses(j, e).missing = j.missing \cup {e}
           /\ Done(j, e).seen = j.seen /\ Misses(j, e).seen = j.seen
           /\ Done(j, e).out = j.out /\ Misses(j, e).out = j.out
           /\ Done(j, e).todo = j.todo \ {e} /\ Misses(j, e).todo = j.todo \ {e}
           /\ Done(j, e).pinned = j.pinned /\ Misses(j, e).pinned = j.pinned
           /\ Done(j, e).specs = j.specs /\ Misses(j, e).specs = j.specs
           /\ Misses(j, e) = [Done(j, e) EXCEPT !.missing = j.missing \cup {e}]
  BY DEF Done, Misses, Fields

\* The answer to an entry that is done with.
Answered(before, after, e, v) ==
    /\ DOMAIN after = DOMAIN before
    /\ \A x \in DOMAIN before : after[x] = IF x = e THEN v ELSE before[x]

LEMMA AnswerShape ==
    ASSUME NEW j, DOMAIN j = Fields, NEW e, NEW v
    PROVE  LET k == Answering(j, e, v)
           IN  /\ DOMAIN k = Fields /\ k.pc = "next"
               /\ k.missing = j.missing /\ k.seen = j.seen
               /\ Answered(j.out, k.out, e, v)
               /\ k.todo = j.todo \ {e} /\ k.pinned = j.pinned /\ k.specs = j.specs
<1> DEFINE d == Done(j, e)
<1>1. /\ DOMAIN d = Fields /\ d.pc = "next" /\ d.missing = j.missing /\ d.seen = j.seen
      /\ d.out = j.out /\ d.todo = j.todo \ {e} /\ d.pinned = j.pinned /\ d.specs = j.specs
  BY DoneShape
<1> HIDE DEF d
<1>2. LET k == [d EXCEPT !.out[e] = v]
      IN  /\ DOMAIN k = Fields /\ k.pc = "next"
          /\ k.missing = j.missing /\ k.seen = j.seen
          /\ Answered(j.out, k.out, e, v)
          /\ k.todo = j.todo \ {e} /\ k.pinned = j.pinned /\ k.specs = j.specs
  BY <1>1 DEF Fields, Answered
<1> QED
  BY <1>2 DEF d, Answering

\* A record with another value in some of its fields keeps the others.
LEMMA FindingShape ==
    ASSUME NEW j, DOMAIN j = Fields, NEW e, NEW track, NEW t, NEW pc, NEW kind, NEW dead
    PROVE  LET k == Finding(j, e, track, t, pc, kind, dead)
           IN  /\ DOMAIN k = Fields /\ k.pc = pc /\ k.kind = kind /\ k.entry = e
               /\ k.track = track /\ k.found = t
               /\ k.missing = j.missing /\ k.seen = j.seen /\ k.out = j.out
               /\ k.todo = j.todo /\ k.pinned = j.pinned /\ k.specs = j.specs
  BY DEF Finding, Fields

LEMMA WantingShape ==
    ASSUME NEW j, DOMAIN j = Fields, NEW e, NEW kind
    PROVE  LET k == Wanting(j, e, kind)
           IN  /\ DOMAIN k = Fields /\ k.pc = "look" /\ k.kind = kind
               /\ k.missing = j.missing /\ k.seen = j.seen /\ k.out = j.out
               /\ k.todo = j.todo /\ k.pinned = j.pinned /\ k.specs = j.specs
  BY DEF Wanting, Fields

LEMMA MovedShape ==
    ASSUME NEW j, DOMAIN j = Fields, NEW pc
    PROVE  LET k == Moved(j, pc)
           IN  /\ DOMAIN k = Fields /\ k.pc = pc /\ k.kind = j.kind /\ k.entry = j.entry
               /\ k.track = j.track /\ k.found = j.found
               /\ k.missing = j.missing /\ k.seen = j.seen /\ k.out = j.out
               /\ k.todo = j.todo /\ k.pinned = j.pinned /\ k.specs = j.specs
  BY DEF Moved, Fields

\* A step of p gives it one of these jobs, and no other job moves.
LEMMA StepTurns ==
    ASSUME Shape, NEW p \in Process, Begin(p) \/ Step(p)
    PROVE  /\ Shape'
           /\ \A q \in Process : q # p => job'[q] = job[q]
           /\ Turns(p)
<1>j. job = [q \in Process |-> job[q]] /\ DOMAIN job[p] = Fields
  BY DEF Shape
<1>e. ASSUME NEW j, job' = [job EXCEPT ![p] = j] PROVE job'[p] = j
  BY <1>e, <1>j
<1>g. ASSUME NEW j, job' = [job EXCEPT ![p] = j], DOMAIN j = Fields
      PROVE  Shape' /\ \A q \in Process : q # p => job'[q] = job[q]
  BY <1>g DEF Shape
<1>d. DOMAIN job'[p] = Fields /\ Turns(p) /\ \E j : job' = [job EXCEPT ![p] = j]
  <2>f. ASSUME Fail(p)
        PROVE  DOMAIN job'[p] = Fields /\ Turns(p) /\ \E j : job' = [job EXCEPT ![p] = j]
    BY <2>f, <1>e, IdleShape DEF Fail, Turns, Ends
  <2>m. ASSUME NEW e \in job[p].todo, NEW kind \in {"admission", "open-track"},
               Missing(p, e, kind)
        PROVE  DOMAIN job'[p] = Fields /\ Turns(p) /\ \E j : job' = [job EXCEPT ![p] = j]
    <3>1. CASE cache
      <4>1. job' = [job EXCEPT ![p] = Misses(job[p], e)]
        BY <2>m, <3>1, <1>j DEF Missing
      <4> QED
        BY <3>1, <4>1, <1>e, <1>j, DoneShape DEF Turns, Lacks
    <3>2. CASE ~cache
      <4>1. job' = [job EXCEPT ![p] = Wanting(job[p], e, kind)]
        BY <2>m, <3>2, <1>j DEF Missing, Wanting
      <4> QED
        BY <3>2, <4>1, <1>e, <1>j, WantingShape DEF Turns, Wants
    <3> QED
      BY <3>1, <3>2
  <2>a. ASSUME Asked(p), HasAsked(p)
        PROVE  DOMAIN job'[p] = Fields /\ Turns(p) /\ \E j : job' = [job EXCEPT ![p] = j]
    <3>1. CASE job[p].kind = "upgrade"
      <4>1. job' = [job EXCEPT ![p] = Moved(job[p], "gate")]
        BY <2>a, <3>1, <1>j DEF Asked, Moved
      <4>2. job'[p] = Moved(job[p], "gate")
        BY <4>1, <1>e
      <4> QED
        BY <2>a, <3>1, <4>1, <4>2, <1>j, MovedShape DEF Turns, Passes
    <3>2. CASE job[p].kind # "upgrade"
      <4>1. job' = [job EXCEPT ![p] = Misses(job[p], job[p].entry)]
        BY <2>a, <3>2, <1>j DEF Asked
      <4> QED
        BY <2>a, <4>1, <1>e, <1>j, DoneShape DEF Turns, Waits
    <3> QED
      BY <3>1, <3>2
  <2>1. CASE Begin(p)
    <3>1. PICK head \in Heads :
              job' = [job EXCEPT ![p] = [Idle EXCEPT
                  !.pc = "next", !.head = head, !.prune = TRUE, !.pinned = ~head,
                  !.specs = specs, !.todo = Entry, !.seen = verdicts]]
      BY <2>1 DEF Begin
    <3> DEFINE pinned == ~head
               j == [Idle EXCEPT !.pc = "next", !.head = head, !.prune = TRUE,
                         !.pinned = pinned, !.specs = specs, !.todo = Entry,
                         !.seen = verdicts]
    <3>2. job' = [job EXCEPT ![p] = j] /\ specs' = specs
      BY <2>1, <3>1 DEF Begin
    <3>3. head \in BOOLEAN /\ pinned \in BOOLEAN
      BY ResolveAssumption
    <3>4. Fresh(j, specs', verdicts)
      <4> HIDE DEF pinned
      <4> QED
        <5> DEFINE i == [Idle EXCEPT !.prune = TRUE]
        <5>1. DOMAIN i = Fields /\ i.missing = {} /\ i.out = Idle.out /\ i.found = Absent
          BY IdleShape DEF Fields
        <5>2. j = [i EXCEPT !.pc = "next", !.head = head, !.pinned = pinned,
                       !.specs = specs, !.todo = Entry, !.seen = verdicts]
          BY IdleShape DEF Fields
        <5> HIDE DEF i, j
        <5> QED
          BY <3>2, <3>3, <5>1, <5>2, FreshShape
    <3> HIDE DEF j
    <3>5. job'[p] = j
      BY <3>2, <1>e
    <3>6. Opens(p) /\ DOMAIN job'[p] = Fields
      BY <2>1, <3>4, <3>5, Zenon DEF Opens, Fresh
    <3> QED
      BY <3>2, <3>6 DEF Turns
  <2>2. CASE Take(p)
    <3>1. PICK e \in job[p].todo :
            LET s == job[p].specs[e]
                track == TrackOf(View(p), e, s)
            IN  IF ~FromRegister(s)
                THEN job' = [job EXCEPT ![p] = [Done(@, e) EXCEPT !.out[e] = s.version]]
                ELSE IF track = NoVersion THEN Missing(p, e, "admission")
                ELSE Found(p, e, track)
      BY <2>2 DEF Take
    <3> DEFINE s == job[p].specs[e]
               track == TrackOf(View(p), e, s)
    <3>2. CASE ~FromRegister(s)
      <4> DEFINE j == Answering(job[p], e, s.version)
      <4>1. job' = [job EXCEPT ![p] = j]
        BY <3>1, <3>2, <1>j DEF Answering
      <4>2. DOMAIN j = Fields
        BY <1>j, AnswerShape
      <4>3. job'[p] = j
        <5> HIDE DEF j
        <5> QED
          BY <4>1, <1>e
      <4>4. Owns(p)
        BY <3>2, <4>3 DEF Owns
      <4> QED
        BY <4>1, <4>2, <4>3, <4>4 DEF Turns
    <3>3. CASE FromRegister(s) /\ track = NoVersion
      <4>1. Missing(p, e, "admission")
        BY <3>1, <3>3
      <4> QED
        BY <4>1, <2>m
    <3>4. CASE FromRegister(s) /\ track # NoVersion
      <4>0. Found(p, e, track)
        BY <3>1, <3>4
      <4> DEFINE t == Read(View(p), e, track)
                 asks == PinLeads(s, t) /\ ~cache
                 pc == IF asks THEN "look" ELSE "gate"
                 kind == IF asks THEN "upgrade" ELSE job[p].kind
                 dead == job[p].dead \cup IF PinDead(s, t) THEN {e} ELSE {}
                 j == Finding(job[p], e, track, t, pc, kind, dead)
      <4>1. \/ \E k \in {"admission", "open-track"} : Missing(p, e, k)
            \/ Fail(p)
            \/ /\ t # Absent /\ ~PinExpired(s, now)
               /\ job' = [job EXCEPT ![p] = j]
        <5> HIDE DEF track
        <5>1. CASE t = Absent
          BY <4>0, <5>1, SMT DEF Found
        <5>2. CASE t # Absent /\ (~Readable(t) \/ PinExpired(s, now))
          BY <4>0, <5>2, SMT DEF Found
        <5>3. CASE t # Absent /\ ~(~Readable(t) \/ PinExpired(s, now))
          BY <4>0, <5>3, SMT DEF Found, Finding
        <5> QED
          BY <5>1, <5>2, <5>3
      <4>2. CASE /\ t # Absent /\ ~PinExpired(s, now)
                 /\ job' = [job EXCEPT ![p] = j]
        <5>1. job'[p] = j
          <6> HIDE DEF j
          <6> QED
            BY <4>2, <1>e
        <5>2. DOMAIN j = Fields
          BY <1>j, FindingShape
        <5>3. /\ pc \in {"look", "gate"} /\ kind \in {"upgrade", job[p].kind}
              /\ pc = "look" => ~cache /\ kind = "upgrade"
          OBVIOUS
        <5>4. Finds(p)
          <6>1. /\ FromRegister(job[p].specs[e]) /\ t # Absent
                /\ ~PinExpired(job[p].specs[e], now)
                /\ track = TrackOf(View(p), e, job[p].specs[e])
                /\ t = Read(View(p), e, track)
                /\ dead = job[p].dead \cup IF PinDead(job[p].specs[e], t) THEN {e} ELSE {}
            BY <3>4, <4>2
          <6>2. job'[p] = Finding(job[p], e, track, t, pc, kind, dead)
            BY <5>1
          <6> HIDE DEF pc, kind, track, t, dead, s, j
          <6> QED
            BY <6>1, <6>2, <5>3 DEF Finds
        <5> QED
          BY <4>2, <5>1, <5>2, <5>4 DEF Turns
      <4> QED
        BY <4>1, <4>2, <2>f, <2>m
    <3> QED
      BY <3>2, <3>3, <3>4
  <2>3. CASE Look(p)
    <3>1. CASE Open(p) = {}
      <4>1. job' = [job EXCEPT ![p] = Moved(job[p], "file")] /\ job[p].pc = "look"
        BY <2>3, <3>1, <1>j DEF Look, Goes, Moved
      <4>2. job'[p] = Moved(job[p], "file")
        BY <4>1, <1>e
      <4> QED
        BY <3>1, <4>1, <4>2, <1>j, MovedShape DEF Turns, Decides
    <3>2. CASE Open(p) # {}
      BY <2>3, <3>2, <2>a DEF Look, HasAsked
    <3> QED
      BY <3>1, <3>2
  <2>4. CASE File(p)
    BY <2>4, <2>a DEF File, HasAsked
  <2>5. CASE Gate(p)
    <3>1. CASE Refused(p)
      BY <2>5, <3>1, <2>f DEF Gate
    <3>2. CASE ~Refused(p)
      <4> DEFINE e == job[p].entry
                 v == Resolved(SpecOf(p), job[p].found)
                 j == Answering(job[p], e, v)
      <4>1. job' = [job EXCEPT ![p] = j] /\ job[p].pc = "gate"
        BY <2>5, <3>2, <1>j DEF Gate, Answering
      <4>2. DOMAIN j = Fields
        BY <1>j, AnswerShape
      <4>3. job'[p] = j
        <5> HIDE DEF j
        <5> QED
          BY <4>1, <1>e
      <4>4. Settles(p)
        BY <3>2, <4>1, <4>3 DEF Settles
      <4> QED
        BY <4>1, <4>2, <4>3, <4>4 DEF Turns
    <3> QED
      BY <3>1, <3>2
  <2>6. CASE Finish(p)
    <3>1. \/ job' = [job EXCEPT ![p] = Ending(job[p].dead, job[p].head)]
          \/ job' = [job EXCEPT ![p] = Idle]
      BY <2>6, <1>j DEF Finish, Ending
    <3> QED
      BY <3>1, <1>e, IdleShape, EndingShape DEF Turns, Ends, Prunes
  <2>7. CASE Prune(p)
    <3> DEFINE j == [Idle EXCEPT !.pc = "next", !.head = job[p].head, !.pinned = TRUE,
                                 !.specs = specs', !.todo = Entry, !.seen = verdicts]
    <3>1. job' = [job EXCEPT ![p] = j]
      BY <2>7 DEF Prune
    <3>2. Fresh(j, specs', verdicts)
      BY IdleShape, FreshShape
    <3> HIDE DEF j
    <3>3. job'[p] = j
      BY <3>1, <1>e
    <3>4. Opens(p) /\ DOMAIN job'[p] = Fields
      BY <2>7, <3>2, <3>3, Zenon DEF Opens, Fresh
    <3> QED
      BY <3>1, <3>4 DEF Turns
  <2> QED
    BY <2>1, <2>2, <2>3, <2>4, <2>5, <2>6, <2>7, Zenon DEF Step
<1>n. PICK j : job' = [job EXCEPT ![p] = j]
  BY <1>d
<1> QED
  BY <1>d, <1>n, <1>e, <1>g

\* What a step of p may do to what it misses and has seen: it leaves the run, ...
Leaves(p) ==
    /\ job'[p].pc \notin {"look", "file"} /\ job'[p].missing = {}
    /\ job'[p].seen = {} \/ job'[p].seen = verdicts

\* ... goes on, asking only from a checkout that is not a cache's, ...
GoesOn(p) ==
    /\ job'[p].pc # "file" /\ (job'[p].pc = "look" => ~cache)
    /\ job'[p].missing = job[p].missing \/ cache
    /\ job'[p].seen = job[p].seen

\* ... decides to file a request, or ...
WillFile(p) ==
    /\ job[p].pc = "look" /\ Open(p) = {}
    /\ job'[p].pc = "file" /\ job'[p].entry = job[p].entry
    /\ job'[p].missing = job[p].missing /\ job'[p].seen = job[p].seen

\* ... waits for one that is there.
MayWait(p) ==
    /\ HasAsked(p)
    /\ job'[p].pc \in {"gate", "next"}
    /\ job'[p].missing \subseteq job[p].missing \cup {job[p].entry}
    /\ job'[p].seen = job[p].seen

LEMMA StepMoves ==
    ASSUME Shape, NEW p \in Process, Begin(p) \/ Step(p)
    PROVE  /\ Shape'
           /\ \A q \in Process : q # p => job'[q] = job[q]
           /\ Leaves(p) \/ GoesOn(p) \/ WillFile(p) \/ MayWait(p)
<1>1. /\ Shape'
      /\ \A q \in Process : q # p => job'[q] = job[q]
      /\ Turns(p)
  BY StepTurns
<1>j. DOMAIN job[p] = Fields
  BY DEF Shape
<1> SUFFICES Leaves(p) \/ GoesOn(p) \/ WillFile(p) \/ MayWait(p)
  BY <1>1
<1>2. CASE Ends(p)
  BY <1>2, IdleShape DEF Ends, Leaves
<1>a. CASE Prunes(p)
  BY <1>a, EndingShape DEF Prunes, Leaves
<1>b. CASE Opens(p)
  BY <1>b DEF Opens, Fresh, Leaves
<1>3. CASE Owns(p) \/ Settles(p)
  BY <1>3, <1>j, AnswerShape DEF Owns, Settles, GoesOn
<1>4. CASE Lacks(p)
  BY <1>4, <1>j, DoneShape DEF Lacks, GoesOn
<1>5. CASE Wants(p)
  BY <1>5, <1>j, WantingShape DEF Wants, GoesOn
<1>6. CASE Finds(p)
  BY <1>6, <1>j, FindingShape DEF Finds, GoesOn
<1>7. CASE Decides(p)
  BY <1>7, <1>j, MovedShape DEF Decides, WillFile
<1>8. CASE Waits(p)
  BY <1>8, <1>j, DoneShape DEF Waits, MayWait
<1>9. CASE Passes(p)
  BY <1>9, <1>j, MovedShape DEF Passes, MayWait
<1> QED
  BY <1>1, <1>2, <1>a, <1>b, <1>3, <1>4, <1>5, <1>6, <1>7, <1>8, <1>9 DEF Turns

\* What else a step may move: the requests, by the one that is filed.
LEMMA StepFiles ==
    ASSUME NEW p \in Process, Begin(p) \/ Step(p)
    PROVE  /\ cache' = cache /\ now' = now /\ answered' = answered /\ verdicts' = verdicts
           /\ \/ requests' = requests
              \/ /\ job[p].pc = "file"
                 /\ requests' = requests \cup
                        {[entry |-> job[p].entry, kind |-> job[p].kind, at |-> now]}
  BY Zenon DEF Step, Begin, Take, Look, File, Gate, Finish, Prune, world

\* The register, the clock and the person move no job and file nothing.
Outside == Tick \/ Publish \/ Answer \/ Pull \/ EditFactory

LEMMA OutsideMoves ==
    ASSUME Outside
    PROVE  UNCHANGED <<cache, requests, job>>
  BY DEF Outside, Tick, Publish, Answer, Pull, EditFactory

-----------------------------------------------------------------------------
(* A cache's copy of the register. *)

\* Only a checkout that is not a cache's is asked.
CacheInv ==
    /\ Shape
    /\ \A p \in Process : job[p].pc \in {"look", "file"} => ~cache
    /\ CacheUntouched

LEMMA CacheInit == Init => CacheInv
<1> SUFFICES ASSUME Init PROVE CacheInv
  OBVIOUS
<1>1. job = [p \in Process |-> Idle] /\ requests = {}
  BY DEF Init
<1> QED
  BY <1>1, IdleShape DEF CacheInv, Shape, CacheUntouched

LEMMA CacheStep == CacheInv /\ [Next]_vars => CacheInv'
<1> SUFFICES ASSUME CacheInv, [Next]_vars PROVE CacheInv'
  OBVIOUS
<1>1. CASE Outside
  BY <1>1, OutsideMoves DEF CacheInv, Shape, CacheUntouched
<1>2. ASSUME NEW p \in Process, Begin(p) \/ Step(p) PROVE CacheInv'
  <2>1. /\ Shape'
        /\ \A q \in Process : q # p => job'[q] = job[q]
        /\ Leaves(p) \/ GoesOn(p) \/ WillFile(p) \/ MayWait(p)
    BY <1>2, StepMoves DEF CacheInv
  <2>2. /\ cache' = cache
        /\ requests' = requests \/ job[p].pc = "file"
    BY <1>2, StepFiles
  <2>3. job'[p].pc \in {"look", "file"} => ~cache
    BY <2>1 DEF CacheInv, Leaves, GoesOn, WillFile, MayWait, HasAsked
  <2>4. CacheUntouched'
    BY <2>2 DEF CacheInv, CacheUntouched
  <2> QED
    BY <2>1, <2>2, <2>3, <2>4 DEF CacheInv
<1>3. CASE UNCHANGED vars
  BY <1>3 DEF vars, CacheInv, Shape, CacheUntouched
<1> QED
  BY <1>1, <1>2, <1>3, Zenon DEF Next, Outside

\* No path of a sync writes to a run's cache: a request filed in a cache's copy
\* of the register would reach nobody (resolvecontroller's track and applyPin).
THEOREM CacheStaysUntouched == Spec => []CacheUntouched
<1>1. CacheInv => CacheUntouched
  BY DEF CacheInv
<1> QED
  BY <1>1, CacheInit, CacheStep, PTL DEF Spec

-----------------------------------------------------------------------------
(* What is missing is asked for. *)

\* A request is answered in a later half day than it was filed, so the one a
\* sync files has no verdict in what that sync began with.
AskInv ==
    /\ Shape
    /\ now \in Nat
    /\ verdicts \subseteq answered /\ answered \subseteq requests
    /\ \A r \in requests : r.at \in Nat
    /\ \A r \in answered : r.at < now
    /\ \A p \in Process : job[p].seen \subseteq verdicts
    /\ MissIsAsked

LEMMA AskInit == Init => AskInv
<1> SUFFICES ASSUME Init PROVE AskInv
  OBVIOUS
<1>1. /\ job = [p \in Process |-> Idle] /\ now = 1
      /\ requests = {} /\ answered = {} /\ verdicts = {}
  BY DEF Init
<1> QED
  BY <1>1, IdleShape DEF AskInv, Shape, MissIsAsked

LEMMA AskOutside == AskInv /\ Outside => AskInv'
<1> SUFFICES ASSUME AskInv, Outside PROVE AskInv'
  OBVIOUS
<1>1. UNCHANGED <<cache, requests, job>>
  BY OutsideMoves
<1>2. now' \in Nat /\ now <= now'
  BY DEF AskInv, Outside, Tick, Publish, Answer, Pull, EditFactory
<1>3. /\ verdicts \subseteq verdicts' /\ verdicts' \subseteq answered'
      /\ answered' \subseteq requests
      /\ \A r \in answered' : r.at < now
  BY DEF AskInv, Outside, Tick, Publish, Answer, Pull, EditFactory
<1>4. \A r \in answered' : r.at < now'
  BY <1>2, <1>3 DEF AskInv
<1>5. Shape' /\ MissIsAsked'
  BY <1>1 DEF AskInv, Shape, MissIsAsked
<1>6. \A p \in Process : job'[p].seen \subseteq verdicts'
  BY <1>1, <1>3 DEF AskInv
<1> QED
  BY <1>1, <1>2, <1>3, <1>4, <1>5, <1>6 DEF AskInv

\* A sync's step: whoever waits has a request that stands open, its own or
\* another's.
LEMMA AskStep ==
    ASSUME AskInv, NEW p \in Process, Begin(p) \/ Step(p)
    PROVE  AskInv'
<1>1. /\ Shape'
      /\ \A q \in Process : q # p => job'[q] = job[q]
      /\ Leaves(p) \/ GoesOn(p) \/ WillFile(p) \/ MayWait(p)
  BY StepMoves DEF AskInv
<1>2. /\ cache' = cache /\ now' = now /\ answered' = answered /\ verdicts' = verdicts
      /\ \/ requests' = requests
         \/ /\ job[p].pc = "file"
            /\ requests' = requests \cup
                   {[entry |-> job[p].entry, kind |-> job[p].kind, at |-> now]}
  BY StepFiles
<1>3. requests \subseteq requests' /\ \A r \in requests' : r.at \in Nat
  BY <1>2 DEF AskInv
<1>4. job'[p].seen \subseteq verdicts
  BY <1>1 DEF AskInv, Leaves, GoesOn, WillFile, MayWait, HasAsked
<1>5. ASSUME ~cache, NEW e \in job'[p].missing
      PROVE  \E r \in requests' \ job'[p].seen : r.entry = e
  <2>1. CASE e \in job[p].missing /\ job'[p].seen = job[p].seen
    BY <2>1, <1>3, <1>5 DEF AskInv, MissIsAsked
  <2>2. CASE MayWait(p) /\ e = job[p].entry /\ job[p].pc = "look"
    <3>1. PICK r \in requests \ verdicts : r.entry = e
      BY <2>2 DEF MayWait, HasAsked, Open
    <3> QED
      BY <3>1, <1>3, <1>4
  <2>3. CASE MayWait(p) /\ e = job[p].entry /\ job[p].pc = "file"
    <3> DEFINE r == [entry |-> job[p].entry, kind |-> job[p].kind, at |-> now]
    <3>1. CASE r \in requests'
      <4>1. r \notin answered
        BY DEF AskInv
      <4> QED
        BY <2>3, <3>1, <4>1, <1>4 DEF AskInv
    <3>2. r \in requests'
      <4>1. File(p)
        BY <2>3, Zenon DEF Step, Begin, Take, Look, Gate, Finish, Prune
      <4> QED
        BY <4>1 DEF File
    <3> QED
      BY <3>1, <3>2
  <2> QED
    BY <1>1, <1>5, <2>1, <2>2, <2>3 DEF Leaves, GoesOn, WillFile, MayWait, HasAsked
<1>6. MissIsAsked'
  <2> SUFFICES ASSUME ~cache, NEW q \in Process, NEW e \in job'[q].missing
               PROVE  \E r \in requests' \ job'[q].seen : r.entry = e
    BY <1>2 DEF MissIsAsked
  <2>1. CASE q = p
    BY <2>1, <1>5
  <2>2. CASE q # p
    BY <2>2, <1>1, <1>3 DEF AskInv, MissIsAsked
  <2> QED
    BY <2>1, <2>2
<1> QED
  BY <1>1, <1>2, <1>3, <1>4, <1>6 DEF AskInv

LEMMA AskNext == AskInv /\ [Next]_vars => AskInv'
<1> SUFFICES ASSUME AskInv, [Next]_vars PROVE AskInv'
  OBVIOUS
<1>1. CASE UNCHANGED vars
  BY <1>1 DEF vars, AskInv, Shape, MissIsAsked
<1> QED
  BY <1>1, AskOutside, AskStep, Zenon DEF Next, Outside

\* A sync that reports an entry missing leaves a request for it that the
\* register had not answered when the sync began (resolvecontroller's track,
\* openRequest and fileRequest).
THEOREM MissingIsAskedFor == Spec => []MissIsAsked
<1>1. AskInv => MissIsAsked
  BY DEF AskInv
<1> QED
  BY <1>1, AskInit, AskNext, PTL DEF Spec

-----------------------------------------------------------------------------
(* Requests do not pile up. *)

Standing(e) == {r \in requests \ verdicts : r.entry = e}
Filing(e) == {p \in Process : job[p].pc = "file" /\ job[p].entry = e}

\* Whoever decides to file saw none standing, and stops filing as its own is
\* added: the sum never grows past the number of processes.
FewInv ==
    /\ Shape
    /\ IsFiniteSet(requests)
    /\ verdicts \subseteq answered
    /\ FewRequests

LEMMA FewIs ==
    FewRequests <=> \A e \in Entry :
        Cardinality(Standing(e)) + Cardinality(Filing(e)) <= Cardinality(Process)
  BY DEF FewRequests, Standing, Filing

\* What stands, and who files, are finitely many.
LEMMA Finite ==
    ASSUME IsFiniteSet(requests), NEW e
    PROVE  /\ IsFiniteSet(Standing(e)) /\ Cardinality(Standing(e)) \in Nat
           /\ IsFiniteSet(Filing(e)) /\ Cardinality(Filing(e)) \in Nat
           /\ Cardinality(Filing(e)) <= Cardinality(Process)
           /\ Cardinality(Process) \in Nat
<1>1. Standing(e) \subseteq requests /\ Filing(e) \subseteq Process
  BY DEF Standing, Filing
<1>2. IsFiniteSet(Process)
  BY ResolveAssumption
<1> QED
  BY <1>1, <1>2, FS_Subset, FS_CardinalityType

LEMMA FewInit == Init => FewInv
<1> SUFFICES ASSUME Init PROVE FewInv
  OBVIOUS
<1>1. job = [p \in Process |-> Idle] /\ requests = {} /\ verdicts = {}
  BY DEF Init
<1>2. Shape
  BY <1>1, IdleShape DEF Shape
<1>3. IsFiniteSet(requests)
  BY <1>1, FS_EmptySet
<1>4. ASSUME NEW e \in Entry
      PROVE  Cardinality(Standing(e)) + Cardinality(Filing(e)) <= Cardinality(Process)
  <2>1. Standing(e) = {} /\ Filing(e) = {}
    BY <1>1, IdleShape DEF Standing, Filing
  <2>2. Cardinality(Standing(e)) = 0 /\ Cardinality(Filing(e)) = 0
    BY <2>1, FS_EmptySet
  <2> QED
    BY <2>2, <1>3, Finite
<1> QED
  BY <1>1, <1>2, <1>3, <1>4, FewIs DEF FewInv

\* A verdict that arrives only takes from what stands.
LEMMA FewOutside == FewInv /\ Outside => FewInv'
<1> SUFFICES ASSUME FewInv, Outside PROVE FewInv'
  OBVIOUS
<1>1. UNCHANGED <<cache, requests, job>>
  BY OutsideMoves
<1>2. verdicts \subseteq verdicts' /\ verdicts' \subseteq answered'
  BY DEF FewInv, Outside, Tick, Publish, Answer, Pull, EditFactory
<1>3. ASSUME NEW e \in Entry
      PROVE  Cardinality(Standing(e)') + Cardinality(Filing(e)') <= Cardinality(Process)
  <2>1. Standing(e)' \subseteq Standing(e) /\ Filing(e)' = Filing(e)
    BY <1>1, <1>2 DEF Standing, Filing
  <2>2. IsFiniteSet(Standing(e)) /\ IsFiniteSet(requests)
    BY Finite DEF FewInv
  <2>3. IsFiniteSet(Standing(e)') /\ Cardinality(Standing(e)') <= Cardinality(Standing(e))
    BY <2>1, <2>2, FS_Subset
  <2>4. Cardinality(Standing(e)') \in Nat
    BY <2>3, FS_CardinalityType
  <2>5. /\ Cardinality(Standing(e)) \in Nat /\ Cardinality(Filing(e)) \in Nat
        /\ Cardinality(Process) \in Nat
    BY <2>2, Finite
  <2>6. Cardinality(Standing(e)) + Cardinality(Filing(e)) <= Cardinality(Process)
    BY FewIs DEF FewInv
  <2> QED
    BY <2>1, <2>3, <2>4, <2>5, <2>6
<1>4. FewRequests'
  BY <1>3 DEF FewRequests, Standing, Filing
<1> QED
  BY <1>1, <1>2, <1>4 DEF FewInv, Shape

LEMMA FewStep ==
    ASSUME FewInv, NEW p \in Process, Begin(p) \/ Step(p)
    PROVE  FewInv'
<1>1. /\ Shape'
      /\ \A q \in Process : q # p => job'[q] = job[q]
      /\ Leaves(p) \/ GoesOn(p) \/ WillFile(p) \/ MayWait(p)
  BY StepMoves DEF FewInv
<1> DEFINE r == [entry |-> job[p].entry, kind |-> job[p].kind, at |-> now]
<1>2. /\ answered' = answered /\ verdicts' = verdicts
      /\ requests' = requests \/ (job[p].pc = "file" /\ requests' = requests \cup {r})
  BY StepFiles
<1>3. IsFiniteSet(requests) /\ IsFiniteSet(requests')
  BY <1>2, FS_AddElement DEF FewInv
<1>4. ASSUME NEW e \in Entry
      PROVE  Cardinality(Standing(e)') + Cardinality(Filing(e)') <= Cardinality(Process)
  <2>1. /\ Cardinality(Standing(e)) \in Nat /\ IsFiniteSet(Standing(e))
        /\ Cardinality(Filing(e)) \in Nat /\ IsFiniteSet(Filing(e))
        /\ Cardinality(Process) \in Nat
    BY <1>3, Finite
  <2>2. Cardinality(Standing(e)) + Cardinality(Filing(e)) <= Cardinality(Process)
    BY FewIs DEF FewInv
  <2>3. CASE WillFile(p) /\ e = job[p].entry
    <3>1. requests' = requests /\ Standing(e) = {}
      BY <2>3, <1>2 DEF WillFile, Open, Standing
    <3>2. Standing(e)' = {}
      BY <3>1, <1>2 DEF Standing
    <3>3. Cardinality(Standing(e)') = 0
      BY <3>2, FS_EmptySet
    <3>4. Filing(e)' \subseteq Process /\ IsFiniteSet(Process)
      BY ResolveAssumption DEF Filing
    <3>5. /\ Cardinality(Filing(e)') <= Cardinality(Process)
          /\ Cardinality(Filing(e)') \in Nat
      BY <3>4, FS_Subset, FS_CardinalityType
    <3> QED
      BY <3>3, <3>5
  <2>4. CASE ~(WillFile(p) /\ e = job[p].entry) /\ requests' = requests
    <3>1. Standing(e)' = Standing(e)
      BY <2>4, <1>2 DEF Standing
    <3>2. Filing(e)' \subseteq Filing(e)
      BY <2>4, <1>1 DEF Filing, Leaves, GoesOn, WillFile, MayWait, HasAsked
    <3>3. /\ Cardinality(Filing(e)') <= Cardinality(Filing(e))
          /\ Cardinality(Filing(e)') \in Nat
      BY <3>2, <2>1, FS_Subset, FS_CardinalityType
    <3> QED
      BY <3>1, <3>3, <2>1, <2>2
  <2>5. CASE job[p].pc = "file" /\ requests' = requests \cup {r} /\ e = job[p].entry
    <3>1. Standing(e)' \subseteq Standing(e) \cup {r}
      BY <2>5, <1>2 DEF Standing
    <3>2. IsFiniteSet(Standing(e) \cup {r})
          /\ Cardinality(Standing(e) \cup {r}) <= Cardinality(Standing(e)) + 1
      <4> HIDE DEF r
      <4>1. /\ IsFiniteSet(Standing(e) \cup {r})
            /\ Cardinality(Standing(e) \cup {r}) =
                   IF r \in Standing(e) THEN Cardinality(Standing(e))
                   ELSE Cardinality(Standing(e)) + 1
        BY <2>1, FS_AddElement
      <4> QED
        BY <2>1, <4>1
    <3>3. /\ Cardinality(Standing(e)') <= Cardinality(Standing(e) \cup {r})
          /\ IsFiniteSet(Standing(e)')
      BY <3>1, <3>2, FS_Subset
    <3>7. Cardinality(Standing(e)') \in Nat /\ Cardinality(Standing(e) \cup {r}) \in Nat
      BY <3>2, <3>3, FS_CardinalityType
    <3>4. Filing(e)' \subseteq Filing(e) \ {p} /\ p \in Filing(e)
      BY <2>5, <1>1 DEF Filing, Leaves, GoesOn, WillFile, MayWait, HasAsked
    <3>5. /\ IsFiniteSet(Filing(e) \ {p})
          /\ Cardinality(Filing(e) \ {p}) = Cardinality(Filing(e)) - 1
      BY <3>4, <2>1, FS_RemoveElement
    <3>6. /\ Cardinality(Filing(e)') <= Cardinality(Filing(e) \ {p})
          /\ Cardinality(Filing(e)') \in Nat
      BY <3>4, <3>5, FS_Subset, FS_CardinalityType
    <3> QED
      BY <3>2, <3>3, <3>5, <3>6, <3>7, <2>1, <2>2
  <2>6. CASE job[p].pc = "file" /\ requests' = requests \cup {r} /\ e # job[p].entry
    <3>1. Standing(e)' = Standing(e)
      BY <2>6, <1>2 DEF Standing
    <3>2. Filing(e)' \subseteq Filing(e)
      BY <2>6, <1>1 DEF Filing, Leaves, GoesOn, WillFile, MayWait, HasAsked
    <3>3. /\ Cardinality(Filing(e)') <= Cardinality(Filing(e))
          /\ Cardinality(Filing(e)') \in Nat
      BY <3>2, <2>1, FS_Subset, FS_CardinalityType
    <3> QED
      BY <3>1, <3>3, <2>1, <2>2
  <2> QED
    BY <1>2, <2>3, <2>4, <2>5, <2>6
<1>5. FewRequests'
  BY <1>4 DEF FewRequests, Standing, Filing
<1> QED
  BY <1>1, <1>2, <1>3, <1>5 DEF FewInv

LEMMA FewNext == FewInv /\ [Next]_vars => FewInv'
<1> SUFFICES ASSUME FewInv, [Next]_vars PROVE FewInv'
  OBVIOUS
<1>1. CASE UNCHANGED vars
  BY <1>1 DEF vars, FewInv, Shape, FewRequests
<1> QED
  BY <1>1, FewOutside, FewStep, Zenon DEF Next, Outside

\* However many syncs run, of whatever kinds their requests are, no more stand
\* open for one package than there are processes (resolvecontroller's
\* openRequest and fileRequest).
THEOREM RequestsStayFew == Spec => []FewRequests
<1>1. FewInv => FewRequests
  BY DEF FewInv
<1> QED
  BY <1>1, FewInit, FewNext, PTL DEF Spec

-----------------------------------------------------------------------------
(* What the gate refuses does not resolve. *)

\* A step drops what was resolved, keeps it, or adds one entry: a verbatim
\* version, or what the gate lets through.
Resolves(p) ==
    \E e, v :
        /\ Answered(job[p].out, job'[p].out, e, v)
        /\ \/ ~FromRegister(job[p].specs[e])
           \/ e = job[p].entry /\ ~Refused(p)

Moves(p) == job'[p].out \in {job[p].out, Idle.out} \/ Resolves(p)

LEMMA StepResolves ==
    ASSUME Shape, NEW p \in Process, Begin(p) \/ Step(p)
    PROVE  Moves(p)
<1>1. Turns(p)
  BY StepTurns
<1>j. DOMAIN job[p] = Fields
  BY DEF Shape
<1>2. CASE Ends(p)
  BY <1>2 DEF Ends, Moves
<1>a. CASE Prunes(p)
  BY <1>a, EndingShape DEF Prunes, Moves
<1>b. CASE Opens(p)
  BY <1>b DEF Opens, Fresh, Moves
<1>3. CASE Owns(p)
  BY <1>3, <1>j, AnswerShape DEF Owns, Moves, Resolves
<1>4. CASE Settles(p)
  BY <1>4, <1>j, AnswerShape DEF Settles, Moves, Resolves
<1>5. CASE Lacks(p) \/ Waits(p)
  BY <1>5, <1>j, DoneShape DEF Lacks, Waits, Moves
<1>6. CASE Wants(p)
  BY <1>6, <1>j, WantingShape DEF Wants, Moves
<1>7. CASE Finds(p)
  BY <1>7, <1>j, FindingShape DEF Finds, Moves
<1>8. CASE Decides(p) \/ Passes(p)
  BY <1>8, <1>j, MovedShape DEF Decides, Passes, Moves
<1> QED
  BY <1>1, <1>2, <1>a, <1>b, <1>3, <1>4, <1>5, <1>6, <1>7, <1>8 DEF Turns

\* The gate's refusal covers every record that is not safe to resolve.
LEMMA UnsafeIsRefused ==
    ASSUME NEW p, ~Refused(p)
    PROVE  Safe(job[p].found, SpecOf(p))
  BY DEF Refused, GateRefuses, Contradicts, Unaccepted, Holds, DeprecationRefuses,
         Safe, Deprecated

\* Every job has a slot for each entry, and for nothing else.
OutInv == Shape /\ \A p \in Process : DOMAIN job[p].out = Entry

LEMMA OutInit == Init => OutInv
<1> SUFFICES ASSUME Init PROVE OutInv
  OBVIOUS
<1>1. job = [p \in Process |-> Idle]
  BY DEF Init
<1>2. Idle.out = [e \in Entry |-> 0]
  BY DEF Idle
<1> QED
  BY <1>1, <1>2, IdleShape DEF OutInv, Shape

LEMMA OutStep == OutInv /\ [Next]_vars => OutInv'
<1> SUFFICES ASSUME OutInv, [Next]_vars PROVE OutInv'
  OBVIOUS
<1>1. CASE Outside \/ UNCHANGED vars
  <2>1. job' = job
    BY <1>1, OutsideMoves DEF vars
  <2> QED
    BY <2>1 DEF OutInv, Shape
<1>2. ASSUME NEW p \in Process, Begin(p) \/ Step(p) PROVE OutInv'
  <2>1. Shape' /\ \A q \in Process : q # p => job'[q] = job[q]
    BY <1>2, StepMoves DEF OutInv
  <2>2. Moves(p)
    BY <1>2, StepResolves DEF OutInv
  <2>3. Idle.out = [e \in Entry |-> 0]
    BY DEF Idle
  <2>4. DOMAIN job'[p].out = Entry
    <3>1. CASE Resolves(p)
      BY <3>1 DEF OutInv, Resolves, Answered
    <3> QED
      BY <2>2, <2>3, <3>1 DEF OutInv, Moves
  <2> QED
    BY <2>1, <2>4 DEF OutInv
<1> QED
  BY <1>1, <1>2, Zenon DEF Next, Outside

-----------------------------------------------------------------------------
(* Types. *)

\* A factory's entry is of the specs it may be, without its pin too.
LEMMA PrunedMay ==
    ASSUME NEW e \in Entry, NEW s \in May(e)
    PROVE  Pruned(s) \in May(e)
<1>1. s \in Specs /\ IF e \in Tool THEN MayPin(s) ELSE MayDepend(s)
  BY DEF May
<1>2. /\ DOMAIN s = {"version", "track", "pin", "mode", "expires", "acks"}
      /\ Pruned(s) \in Specs
  BY <1>1, ResolveAssumption DEF Pruned
<1>3. Pruned(s).pin = 0 /\ Pruned(s).mode = "none" /\ Pruned(s).track = s.track
  BY <1>2 DEF Pruned
<1> QED
  BY <1>1, <1>2, <1>3 DEF May, MayPin, MayDepend

LEMMA IdleTyped ==
    ASSUME Entry # {}, specs \in Declarations
    PROVE  Idle \in Job
<1>1. (CHOOSE d \in Declarations : TRUE) \in Declarations
  OBVIOUS
<1>2. (CHOOSE e \in Entry : TRUE) \in Entry
  OBVIOUS
<1>3. [e \in Entry |-> 0] \in [Entry -> Versions]
  BY DEF Versions
<1> DEFINE d == CHOOSE d \in Declarations : TRUE
           e == CHOOSE e \in Entry : TRUE
           o == [x \in Entry |-> 0]
<1> HIDE DEF d, e, o
<1>4. [pc |-> "idle", head |-> FALSE, prune |-> FALSE, pinned |-> FALSE,
       specs |-> d, todo |-> {}, seen |-> {}, entry |-> e, track |-> NoVersion,
       found |-> Absent, kind |-> "admission", out |-> o, missing |-> {}, dead |-> {}] \in Job
  BY <1>1, <1>2, <1>3 DEF d, e, o, Job, Kinds
<1> QED
  BY <1>4 DEF Idle, d, e, o

LEMMA JobShape ==
    ASSUME NEW j \in Job
    PROVE  DOMAIN j = Fields
  BY DEF Job, Fields

\* What stays a job.
LEMMA DoneTyped ==
    ASSUME NEW j \in Job, NEW e, Idle \in Job
    PROVE  Done(j, e) \in Job
<1>1. Idle.entry \in Entry /\ Idle.kind \in Kinds
  BY DEF Job
<1> QED
  BY <1>1 DEF Done, Job

LEMMA MissesTyped ==
    ASSUME NEW j \in Job, NEW e \in Entry, Idle \in Job
    PROVE  Misses(j, e) \in Job
<1> DEFINE d == Done(j, e)
<1>1. d \in Job
  BY DoneTyped
<1> HIDE DEF d
<1>2. [d EXCEPT !.missing = @ \cup {e}] \in Job
  BY <1>1 DEF Job
<1> QED
  BY <1>2 DEF Misses, d

LEMMA AnsweringTyped ==
    ASSUME NEW j \in Job, NEW e \in Entry, NEW v \in Versions, Idle \in Job
    PROVE  Answering(j, e, v) \in Job
<1> DEFINE d == Done(j, e)
<1>1. d \in Job
  BY DoneTyped
<1> HIDE DEF d
<1>2. [d EXCEPT !.out[e] = v] \in Job
  BY <1>1 DEF Job
<1> QED
  BY <1>2 DEF Answering, d

LEMMA FindingTyped ==
    ASSUME NEW j \in Job, NEW e \in Entry, NEW track \in TrackNames, NEW t \in Records,
           NEW pc \in {"look", "gate"}, NEW kind \in Kinds, NEW dead \in SUBSET Entry
    PROVE  Finding(j, e, track, t, pc, kind, dead) \in Job
  BY DEF Finding, Job

LEMMA WantingTyped ==
    ASSUME NEW j \in Job, NEW e \in Entry, NEW kind \in Kinds
    PROVE  Wanting(j, e, kind) \in Job
  BY DEF Wanting, Job

LEMMA MovedTyped ==
    ASSUME NEW j \in Job, NEW pc \in {"file", "gate"}
    PROVE  Moved(j, pc) \in Job
  BY DEF Moved, Job

\* A version is answered by the factory or by the record that was read.
LEMMA ResolvedTyped ==
    ASSUME NEW s \in Specs, NEW t \in Records \cup {Absent}
    PROVE  Resolved(s, t) \in Versions
<1>1. s.pin \in Versions
  BY DEF Versions
<1>2. t.current \in Versions
  BY DEF Versions, Absent
<1> QED
  BY <1>1, <1>2 DEF Resolved

\* A track that was read is one of the index it was read from.
LEMMA ReadTyped ==
    ASSUME NEW index \in Index, NEW e \in Entry, NEW track
    PROVE  /\ Read(index, e, track) \in Records \cup {Absent}
           /\ Read(index, e, track) # Absent => track \in TrackNames
  BY DEF Index, Read

LEMMA TypedShape ==
    ASSUME TypeOK
    PROVE  Shape
  BY JobShape DEF TypeOK, Shape

LEMMA InitTyped ==
    ASSUME Entry # {}, Init
    PROVE  TypeOK
<1>1. PICK start \in Starts :
        origin = [e \in Entry |-> [n \in TrackNames |-> IF n = Names[1] THEN start[e]
                                                        ELSE Absent]]
  BY DEF Init
<1>2. origin \in Index
  <2>1. start \in [Entry -> Records \cup {Absent}]
    BY ResolveAssumption
  <2> QED
    BY <1>1, <2>1 DEF Index
<1>3. job \in [Process -> Job]
  BY IdleTyped DEF Init
<1>4. now \in 1..MaxTime /\ syncs \in 0..MaxSyncs /\ changes \in 0..MaxChanges
  BY ResolveBounds DEF Init
<1>5. /\ \A g \in DOMAIN manifest : manifest[g] \in Bases(g) \cup {<<>>}
      /\ DOMAIN manifest = Groups
  BY DEF Init
<1> QED
  BY <1>2, <1>3, <1>4, <1>5 DEF Init, TypeOK

LEMMA OutsideTyped ==
    ASSUME TypeOK, Outside
    PROVE  TypeOK'
<1>1. CASE Tick
  BY <1>1, ResolveBounds DEF Tick, TypeOK
<1>2. CASE Publish
  <2>1. PICK e \in Entry, n \in TrackNames, t \in Records :
            origin' = [origin EXCEPT ![e][n] = t]
    BY <1>2 DEF Publish
  <2>2. origin' \in Index
    BY <2>1 DEF TypeOK, Index
  <2>3. changes' \in 0..MaxChanges
    BY <1>2, ResolveBounds DEF Publish, TypeOK
  <2> QED
    BY <1>2, <2>2, <2>3 DEF Publish, TypeOK
<1>3. CASE Answer
  BY <1>3 DEF Answer, TypeOK
<1>4. CASE Pull
  BY <1>4 DEF Pull, TypeOK
<1>5. CASE EditFactory
  <2>1. specs' \in Declarations
    BY <1>5 DEF EditFactory, TypeOK, Declarations, May
  <2>2. changes' \in 0..MaxChanges
    BY <1>5, ResolveBounds DEF EditFactory, TypeOK
  <2> QED
    BY <1>5, <2>1, <2>2 DEF EditFactory, TypeOK
<1> QED
  BY <1>1, <1>2, <1>3, <1>4, <1>5 DEF Outside

\* What a step of a sync leaves its process is a job.
LEMMA TurnTyped ==
    ASSUME Entry # {}, TypeOK, NEW p \in Process, Turns(p), ~Opens(p)
    PROVE  job'[p] \in Job
<1> DEFINE j == job[p]
<1>0. j \in Job /\ Idle \in Job
  BY IdleTyped DEF TypeOK
<1>1. /\ j.todo \subseteq Entry /\ j.entry \in Entry /\ j.kind \in Kinds
      /\ j.found \in Records \cup {Absent} /\ j.dead \subseteq Entry
      /\ j.head \in BOOLEAN
      /\ \A e \in Entry : j.specs[e] \in Specs
  BY <1>0 DEF Job, Declarations
<1>2. \A s \in Specs : s.version \in Versions
  BY DEF Versions
<1>3. {"admission", "open-track", "upgrade"} = Kinds
  BY DEF Kinds
<1>4. View(p) \in Index
  BY DEF View, TypeOK
<1> HIDE DEF j
<1> USE DEF j
<1>a. CASE Ends(p)
  BY <1>a, <1>0 DEF Ends
<1>b. CASE Prunes(p)
  <2> DEFINE d == job[p].dead
             h == job[p].head
  <2>1. d \in SUBSET Entry /\ h \in BOOLEAN
    BY <1>1
  <2> HIDE DEF d, h
  <2>2. Ending(d, h) \in Job
    BY <1>0, <2>1 DEF Ending, Job
  <2> QED
    BY <1>b, <2>2 DEF Prunes, d, h
<1>c. CASE Owns(p)
  BY <1>c, <1>0, <1>1, <1>2, AnsweringTyped DEF Owns
<1>d. CASE Lacks(p)
  BY <1>d, <1>0, <1>1, MissesTyped DEF Lacks
<1>e. CASE Wants(p)
  BY <1>e, <1>0, <1>1, <1>3, WantingTyped DEF Wants
<1>f. CASE Finds(p)
  <2>1. PICK e \in job[p].todo, pc \in {"look", "gate"}, kind \in {"upgrade", job[p].kind} :
        \E track, t :
            /\ t = Read(View(p), e, track) /\ t # Absent
            /\ job'[p] = Finding(job[p], e, track, t, pc, kind,
                   job[p].dead \cup IF PinDead(job[p].specs[e], t) THEN {e} ELSE {})
    BY <1>f, ZenonT(60) DEF Finds
  <2>2. PICK track, t :
            /\ t = Read(View(p), e, track) /\ t # Absent
            /\ job'[p] = Finding(job[p], e, track, t, pc, kind,
                   job[p].dead \cup IF PinDead(job[p].specs[e], t) THEN {e} ELSE {})
    BY <2>1
  <2>3. e \in Entry /\ kind \in Kinds
    BY <1>1, <1>3
  <2>4. t \in Records /\ track \in TrackNames
    BY <1>4, <2>2, <2>3, ReadTyped
  <2> DEFINE dead == job[p].dead \cup IF PinDead(job[p].specs[e], t) THEN {e} ELSE {}
  <2>5. dead \in SUBSET Entry
    BY <1>1, <2>3
  <2> HIDE DEF dead
  <2>6. Finding(job[p], e, track, t, pc, kind, dead) \in Job
    BY <1>0, <2>3, <2>4, <2>5, FindingTyped
  <2> QED
    BY <2>2, <2>6 DEF dead
<1>g. CASE Decides(p)
  BY <1>g, <1>0, MovedTyped DEF Decides
<1>h. CASE Waits(p)
  BY <1>h, <1>0, <1>1, MissesTyped DEF Waits
<1>i. CASE Passes(p)
  BY <1>i, <1>0, MovedTyped DEF Passes
<1>k. CASE Settles(p)
  <2>1. SpecOf(p) \in Specs
    BY <1>1 DEF SpecOf
  <2>2. Resolved(SpecOf(p), job[p].found) \in Versions
    BY <1>1, <2>1, ResolvedTyped
  <2> QED
    BY <1>k, <1>0, <1>1, <2>2, AnsweringTyped DEF Settles
<1> QED
  BY <1>a, <1>b, <1>c, <1>d, <1>e, <1>f, <1>g, <1>h, <1>i, <1>k DEF Turns

\* What a language or the toolchain is rendered from.
LEMMA FromTyped ==
    ASSUME TypeOK, NEW p \in Process, NEW g
    PROVE  From(p, g) \in Bases(g)
<1>1. job[p].pinned \in BOOLEAN /\ job[p].specs \in Declarations /\ job[p].out \in [Entry -> Versions]
  BY DEF TypeOK, Job
<1>2. Of(g) \subseteq Entry
  BY DEF Of
<1>3. Restrict(job[p].specs, Of(g)) \in [Of(g) -> Specs]
  BY <1>1, <1>2 DEF Restrict, Declarations
<1>4. Restrict(job[p].out, Of(g)) \in [Of(g) -> Versions]
  BY <1>1, <1>2 DEF Restrict
<1> QED
  BY <1>1, <1>3, <1>4 DEF From, Bases

LEMMA StepTyped ==
    ASSUME Entry # {}, TypeOK, NEW p \in Process, Begin(p) \/ Step(p)
    PROVE  TypeOK'
<1>0. Idle \in Job /\ Shape /\ DOMAIN Idle = Fields
  BY IdleTyped, TypedShape, IdleShape DEF TypeOK
<1>1. Turns(p) /\ \A q \in Process : q # p => job'[q] = job[q]
  BY <1>0, StepTurns
<1>2. job' = [q \in Process |-> job'[q]]
  BY <1>0, StepTurns DEF Shape
<1>e. ASSUME NEW j, job' = [job EXCEPT ![p] = j] PROVE job'[p] = j
  BY <1>e, <1>0 DEF Shape
<1>3. CASE Begin(p)
  <2>1. PICK head \in Heads :
            job' = [job EXCEPT ![p] = [Idle EXCEPT
                !.pc = "next", !.head = head, !.prune = TRUE, !.pinned = ~head,
                !.specs = specs, !.todo = Entry, !.seen = verdicts]]
    BY <1>3 DEF Begin
  <2> DEFINE pinned == ~head
             j == [Idle EXCEPT
                !.pc = "next", !.head = head, !.prune = TRUE, !.pinned = pinned,
                !.specs = specs, !.todo = Entry, !.seen = verdicts]
  <2>2. head \in BOOLEAN /\ pinned \in BOOLEAN
    BY ResolveAssumption
  <2>3. j \in Job
    <3>1. verdicts \in SUBSET Request /\ specs \in Declarations
      BY DEF TypeOK
    <3>2. PICK h \in BOOLEAN, b \in BOOLEAN : h = head /\ b = pinned
      BY <2>2
    <3>3. [Idle EXCEPT !.pc = "next", !.head = h, !.prune = TRUE, !.pinned = b,
                       !.specs = specs, !.todo = Entry, !.seen = verdicts] \in Job
      BY <1>0, <3>1 DEF Job
    <3> QED
      BY <3>2, <3>3
  <2>4. job' = [job EXCEPT ![p] = j]
    BY <2>1
  <2> HIDE DEF j
  <2>5. job' \in [Process -> Job]
    BY <2>3, <2>4 DEF TypeOK
  <2>6. syncs' \in 0..MaxSyncs
    <3>1. syncs < MaxSyncs /\ syncs' = syncs + 1 /\ syncs \in 0..MaxSyncs
      BY <1>3, Zenon DEF Begin, TypeOK
    <3> QED
      BY <3>1, ResolveBounds
  <2> QED
    BY <1>3, <2>5, <2>6 DEF Begin, TypeOK
<1>4. CASE Prune(p)
  <2>1. specs' \in Declarations
    <3>1. /\ specs \in [Entry -> Specs] /\ \A e \in Entry : specs[e] \in May(e)
          /\ \A e \in Entry : Pruned(specs[e]) \in May(e)
      BY PrunedMay DEF TypeOK, Declarations
    <3>2. \A e \in Entry : specs'[e] \in May(e) /\ specs'[e] \in Specs
      BY <1>4, <3>1 DEF Prune, May
    <3>3. specs' = [e \in Entry |-> specs'[e]]
      BY <1>4 DEF Prune
    <3>4. specs' \in [Entry -> Specs]
      BY <3>2, <3>3
    <3> QED
      BY <3>2, <3>4 DEF Declarations
  <2> DEFINE d == specs'
             h == job[p].head
             j == [Idle EXCEPT !.pc = "next", !.head = h, !.pinned = TRUE,
                               !.specs = d, !.todo = Entry, !.seen = verdicts]
  <2>2. h \in BOOLEAN /\ verdicts \in SUBSET Request /\ d \in Declarations
    BY <2>1 DEF TypeOK, Job
  <2>3. job' = [job EXCEPT ![p] = j]
    BY <1>4 DEF Prune
  <2>4. j \in Job
    <3> HIDE DEF d, h
    <3>1. [Idle EXCEPT !.pc = "next", !.head = h, !.pinned = TRUE,
                               !.specs = d, !.todo = Entry, !.seen = verdicts] \in Job
      BY <1>0, <2>2 DEF Job
    <3> QED
      BY <3>1
  <2> HIDE DEF j
  <2>5. job' \in [Process -> Job]
    BY <2>3, <2>4 DEF TypeOK
  <2> QED
    BY <1>4, <2>1, <2>5 DEF Prune, TypeOK, world
<1>5. CASE Take(p) \/ Look(p) \/ File(p) \/ Gate(p) \/ Finish(p)
  <2>1. job'[p] \in Job
    <3>1. ~Opens(p)
      <4>1. job[p].pc \notin {"idle", "prune"}
        BY <1>5, Zenon DEF Take, Look, File, Gate, Finish
      <4> QED
        BY <4>1, Zenon DEF Opens, Begin, Prune
    <3> QED
      BY <1>1, <3>1, TurnTyped
  <2>2. job' \in [Process -> Job]
    BY <1>1, <1>2, <2>1 DEF TypeOK
  <2>3. requests' \subseteq Request
    <3>1. [entry |-> job[p].entry, kind |-> job[p].kind, at |-> now] \in Request
      BY DEF TypeOK, Job, Request
    <3> QED
      BY <3>1, StepFiles DEF TypeOK
  <2>4. /\ \A g \in DOMAIN manifest' : manifest'[g] \in Bases(g) \cup {<<>>}
        /\ DOMAIN manifest' = Groups
    <3>1. CASE Finish(p)
      BY <3>1, FromTyped DEF Finish, TypeOK
    <3>2. CASE ~Finish(p)
      <4>1. manifest' = manifest
        BY <1>5, <3>2 DEF Take, Look, File, Gate
      <4> QED
        BY <4>1 DEF TypeOK
    <3> QED
      BY <3>1, <3>2
  <2>5. UNCHANGED <<now, checkout, verdicts, specs, world>>
    BY <1>5, Zenon DEF Take, Look, File, Gate, Finish
  <2> QED
    BY <2>2, <2>3, <2>4, <2>5 DEF TypeOK, world
<1> QED
  BY <1>3, <1>4, <1>5 DEF Step

LEMMA NextTyped ==
    ASSUME Entry # {}
    PROVE  TypeOK /\ [Next]_vars => TypeOK'
<1> SUFFICES ASSUME TypeOK, [Next]_vars PROVE TypeOK'
  OBVIOUS
<1>1. CASE UNCHANGED vars
  BY <1>1 DEF vars, TypeOK
<1> QED
  BY <1>1, OutsideTyped, StepTyped, Zenon DEF Next, Outside

\* Whatever the register holds and the factory declares, the job of a sync is
\* one its code could be at, its version one that somebody wrote down, and what
\* is rendered complete (resolvecontroller's Resolve, synccontroller).
THEOREM ResolveTyped ==
    ASSUME Entry # {}
    PROVE  Spec => []TypeOK
<1>1. Init => TypeOK
  BY InitTyped
<1>2. TypeOK /\ [Next]_vars => TypeOK'
  BY NextTyped
<1> QED
  BY <1>1, <1>2, PTL DEF Spec

-----------------------------------------------------------------------------
(* The way out of a refusal. *)

\* Whoever acknowledges what a report lists has acknowledged all that the
\* record names, and what is dropped with the dead acknowledgements was of no
\* use (resolvecontroller's advisoryGate, report and deadAcknowledgements).
THEOREM RefusalsShowTheWay == Spec => []ReportSettles
<1>1. ReportSettles
  <2> SUFFICES ASSUME NEW p \in Process
               PROVE  LET t == job[p].found
                          acks == SpecOf(p).acks
                      IN  IF GateRefuses(t, acks, now)
                          THEN ~Contradicts(t) =>
                               \A dirs \in {{}, {"member"}} : \A answers \in [t.ids -> Verdicts] :
                                   LET report == Report(t, acks, now, dirs, answers)
                                   IN  /\ ~GateRefuses(t, Accepting(acks, report.accept), now)
                                       /\ DOMAIN report.lines \subseteq report.accept
                          ELSE ~GateRefuses(t, acks \ Notes(t, acks).dead, now)
    BY DEF ReportSettles
  <2> DEFINE t == job[p].found
             acks == SpecOf(p).acks
  <2>1. ASSUME ~Contradicts(t), NEW dirs, NEW answers
        PROVE  LET report == Report(t, acks, now, dirs, answers)
               IN  /\ ~GateRefuses(t, Accepting(acks, report.accept), now)
                   /\ DOMAIN report.lines \subseteq report.accept
    <3> DEFINE accept == Unacknowledged(t, acks) \cup Expired(t, acks, now)
               lines == Lines(dirs, Unacknowledged(t, acks), t.imports, answers)
    <3>1. \A id \in t.ids : \E ack \in Accepting(acks, accept) : ack.id = id /\ Holds(ack, now)
      <4> TAKE id \in t.ids
      <4>1. CASE id \in accept
        <5>1. [id |-> id, until |-> 0] \in Accepting(acks, accept)
          BY <4>1 DEF Accepting
        <5> QED
          BY <5>1 DEF Holds
      <4>2. CASE id \notin accept
        <5>1. id \in Named(acks) /\ id \notin Unaccepted(t, acks, now)
          BY <4>2 DEF Unacknowledged, Expired
        <5>2. PICK ack \in acks : ack.id = id /\ Holds(ack, now)
          BY <5>1 DEF Unaccepted
        <5>3. ack \in Accepting(acks, accept)
          BY <4>2, <5>2 DEF Accepting
        <5> QED
          BY <5>2, <5>3
      <4> QED
        BY <4>1, <4>2
    <3>2. ~GateRefuses(t, Accepting(acks, accept), now)
      <4> HIDE DEF accept
      <4> QED
        BY <2>1, <3>1 DEF GateRefuses, Unaccepted
    <3>3. DOMAIN lines \subseteq Unacknowledged(t, acks)
      BY DEF Lines, Restrict
    <3>4. LET report == Report(t, acks, now, dirs, answers)
          IN  report.accept = accept /\ report.lines = lines
      BY DEF Report
    <3> QED
      BY <3>2, <3>3, <3>4
  <2>2. ASSUME ~GateRefuses(t, acks, now)
        PROVE  ~GateRefuses(t, acks \ Notes(t, acks).dead, now)
    <3>1. Notes(t, acks).dead = Dead(t, acks)
      BY DEF Notes
    <3>2. Unaccepted(t, acks \ Dead(t, acks), now) \subseteq Unaccepted(t, acks, now)
      BY DEF Unaccepted, Dead
    <3> QED
      BY <2>2, <3>1, <3>2 DEF GateRefuses
  <2> QED
    BY <2>1, <2>2
<1> QED
  BY <1>1, PTL

-----------------------------------------------------------------------------
(* A pinned revision. *)

\* What an entry resolves to at the factory's revision.
Chosen(e, s) == IF FromRegister(s) THEN Resolved(s, Followed(e, s)) ELSE s.version

\* A run at a pinned revision has these answers for the entries it is done
\* with, and has found the track of the one at hand.
PinnedJob(j) ==
    /\ \A e \in Entry \ (j.todo \cup j.missing) : j.out[e] = Chosen(e, j.specs[e])
    /\ j.pc = "gate" \/ (j.pc \in {"look", "file"} /\ j.kind = "upgrade") =>
           /\ FromRegister(j.specs[j.entry])
           /\ j.found = Followed(j.entry, j.specs[j.entry])

PinInv ==
    /\ \A p \in Process : job[p].pinned => PinnedJob(job[p])
    /\ \A g \in Groups : manifest[g] # <<>> /\ manifest[g].pinned =>
           \A e \in Of(g) : manifest[g].out[e] = Chosen(e, manifest[g].specs[e])

\* A step of a run at a pinned revision: what it adds was read there.
LEMMA PinnedTurn ==
    ASSUME OutInv, NEW p \in Process, PinnedJob(job[p]), View(p) = revision,
           Turns(p), ~Ends(p), ~Prunes(p), ~Opens(p), revision' = revision
    PROVE  PinnedJob(job[p])'
<1> DEFINE j == job[p]
           k == job'[p]
<1>0. DOMAIN j = Fields /\ DOMAIN j.out = Entry
  BY DEF OutInv, Shape
<1>r. \A e, s : Chosen(e, s)' = Chosen(e, s) /\ Followed(e, s)' = Followed(e, s)
  BY DEF Chosen, Followed
<1>1. SUFFICES
        /\ \A e \in Entry \ (k.todo \cup k.missing) : k.out[e] = Chosen(e, k.specs[e])
        /\ k.pc = "gate" \/ (k.pc \in {"look", "file"} /\ k.kind = "upgrade") =>
               /\ FromRegister(k.specs[k.entry])
               /\ k.found = Followed(k.entry, k.specs[k.entry])
  BY <1>r DEF PinnedJob
<1>d. CASE Owns(p)
  <2>1. PICK e \in j.todo : /\ ~FromRegister(j.specs[e])
                            /\ k = Answering(j, e, j.specs[e].version)
    BY <1>d DEF Owns
  <2>2. /\ k.pc = "next" /\ k.missing = j.missing /\ k.todo = j.todo \ {e}
        /\ k.specs = j.specs
        /\ Answered(j.out, k.out, e, j.specs[e].version)
    BY <1>0, <2>1, AnswerShape
  <2> QED
    BY <1>0, <2>1, <2>2 DEF Answered, PinnedJob, Chosen
<1>e. CASE Lacks(p) \/ Waits(p)
  <2>1. PICK e : k = Misses(j, e)
    BY <1>e DEF Lacks, Waits
  <2>2. /\ k.pc = "next" /\ k.missing = j.missing \cup {e} /\ k.todo = j.todo \ {e}
        /\ k.specs = j.specs /\ k.out = j.out
    BY <1>0, <2>1, DoneShape
  <2> QED
    BY <2>2 DEF PinnedJob
<1>f. CASE Wants(p)
  <2>1. PICK e \in j.todo, kind \in {"admission", "open-track"} : k = Wanting(j, e, kind)
    BY <1>f DEF Wants
  <2>2. /\ k.pc = "look" /\ k.kind = kind /\ k.missing = j.missing /\ k.todo = j.todo
        /\ k.specs = j.specs /\ k.out = j.out
    BY <1>0, <2>1, WantingShape
  <2> QED
    BY <2>2 DEF PinnedJob
<1>g. CASE Finds(p)
  <2>1. PICK e \in j.todo : \E pc, kind, dead, track, t :
          /\ FromRegister(j.specs[e])
          /\ track = TrackOf(View(p), e, j.specs[e])
          /\ t = Read(View(p), e, track)
          /\ k = Finding(j, e, track, t, pc, kind, dead)
    BY <1>g DEF Finds
  <2>2. PICK pc, kind, dead, track, t :
          /\ FromRegister(j.specs[e])
          /\ track = TrackOf(View(p), e, j.specs[e])
          /\ t = Read(View(p), e, track)
          /\ k = Finding(j, e, track, t, pc, kind, dead)
    BY <2>1
  <2>3. /\ k.entry = e /\ k.found = t /\ k.missing = j.missing /\ k.todo = j.todo
        /\ k.specs = j.specs /\ k.out = j.out
    BY <1>0, <2>2, FindingShape
  <2> QED
    BY <2>2, <2>3 DEF PinnedJob, Followed
<1>h. CASE Decides(p) \/ Passes(p)
  <2>1. PICK pc : /\ k = Moved(j, pc) /\ j.pc \in {"look", "file"}
                  /\ pc = "file" \/ (pc = "gate" /\ j.kind = "upgrade")
    BY <1>h DEF Decides, Passes, HasAsked
  <2>2. /\ k.pc = pc /\ k.kind = j.kind /\ k.entry = j.entry /\ k.found = j.found
        /\ k.missing = j.missing /\ k.todo = j.todo
        /\ k.specs = j.specs /\ k.out = j.out
    BY <1>0, <2>1, MovedShape
  <2> QED
    BY <2>1, <2>2 DEF PinnedJob
<1>i. CASE Settles(p)
  <2> DEFINE e == j.entry
             v == Resolved(j.specs[e], j.found)
  <2>1. j.pc = "gate" /\ k = Answering(j, e, v)
    BY <1>i DEF Settles, SpecOf
  <2>2. /\ k.pc = "next" /\ k.missing = j.missing /\ k.todo = j.todo \ {e}
        /\ k.specs = j.specs
        /\ Answered(j.out, k.out, e, v)
    <3> HIDE DEF v
    <3> QED
      BY <1>0, <2>1, AnswerShape
  <2>3. v = Chosen(e, j.specs[e])
    BY <2>1 DEF PinnedJob, Chosen
  <2> HIDE DEF v
  <2> QED
    BY <1>0, <2>1, <2>2, <2>3 DEF Answered, PinnedJob
<1> QED
  BY <1>d, <1>e, <1>f, <1>g, <1>h, <1>i DEF Turns

LEMMA PinnedStays ==
    ASSUME OutInv, NEW p \in Process, Turns(p), ~Opens(p), ~Ends(p), ~Prunes(p)
    PROVE  job'[p].pinned = job[p].pinned
<1>0. DOMAIN job[p] = Fields
  BY DEF OutInv, Shape
<1>2. CASE Owns(p) \/ Settles(p)
  BY <1>0, <1>2, AnswerShape DEF Owns, Settles
<1>3. CASE Lacks(p) \/ Waits(p)
  BY <1>0, <1>3, DoneShape DEF Lacks, Waits
<1>4. CASE Wants(p)
  BY <1>0, <1>4, WantingShape DEF Wants
<1>5. CASE Finds(p)
  BY <1>0, <1>5, FindingShape DEF Finds
<1>6. CASE Decides(p) \/ Passes(p)
  BY <1>0, <1>6, MovedShape DEF Decides, Passes
<1> QED
  BY <1>2, <1>3, <1>4, <1>5, <1>6 DEF Turns

\* What a run at a pinned revision renders is what the factory's words come to
\* there.
LEMMA PinnedFrom ==
    ASSUME NEW p \in Process, NEW g, PinnedJob(job[p]), job[p].todo = {}, g \in Rendered(p)
    PROVE  \A e \in Of(g) : From(p, g).out[e] = Chosen(e, From(p, g).specs[e])
<1>1. Of(g) \cap job[p].missing = {} /\ Of(g) \subseteq Entry
  BY DEF Rendered, Complete, Of
<1>2. \A e \in Of(g) : job[p].out[e] = Chosen(e, job[p].specs[e])
  BY <1>1 DEF PinnedJob
<1> QED
  BY <1>2 DEF From, Restrict

PinIInv == OutInv /\ PinInv

LEMMA PinInit == Init => PinIInv
<1> SUFFICES ASSUME Init PROVE PinIInv
  OBVIOUS
<1>1. job = [p \in Process |-> Idle] /\ manifest = [g \in Groups |-> <<>>]
  BY DEF Init
<1>2. \A p \in Process : ~job[p].pinned
  BY <1>1, IdleShape
<1> QED
  BY <1>1, <1>2, OutInit DEF PinIInv, PinInv

LEMMA PinStep ==
    ASSUME PinIInv, NEW p \in Process, Begin(p) \/ Step(p)
    PROVE  PinInv'
<1>1. Turns(p) /\ \A q \in Process : q # p => job'[q] = job[q]
  BY StepTurns DEF PinIInv, OutInv
<1>2. revision' = revision
  BY Zenon DEF Step, Begin, Take, Look, File, Gate, Finish, Prune, world
<1>r. \A e, s : Chosen(e, s)' = Chosen(e, s) /\ Followed(e, s)' = Followed(e, s)
  BY <1>2 DEF Chosen, Followed
<1>3. ASSUME NEW q \in Process, job'[q].pinned
      PROVE  PinnedJob(job[q])'
  <2>1. CASE q # p
    <3>1. job'[q] = job[q] /\ PinnedJob(job[q])
      BY <1>1, <1>3, <2>1 DEF PinIInv, PinInv
    <3> QED
      BY <3>1, <1>r DEF PinnedJob
  <2>2. CASE q = p /\ Opens(p)
    <3>1. job'[q].todo = Entry /\ job'[q].pc = "next"
      BY <2>2 DEF Opens, Fresh
    <3> QED
      BY <3>1 DEF PinnedJob
  <2>3. CASE q = p /\ ~Opens(p)
    <3>1. job[p].pinned /\ ~Ends(p) /\ ~Prunes(p)
      <4>1. ~Ends(p)
        BY <1>3, <2>3, IdleShape DEF Ends
      <4>2. ~Prunes(p)
        BY <1>3, <2>3, EndingPinned DEF Prunes
      <4>3. job'[p].pinned = job[p].pinned
        BY <1>1, <2>3, <4>1, <4>2, PinnedStays DEF PinIInv
      <4> QED
        BY <1>3, <2>3, <4>1, <4>2, <4>3
    <3>2. PinnedJob(job[p]) /\ View(p) = revision
      BY <3>1 DEF PinIInv, PinInv, View
    <3>3. PinnedJob(job[p])'
      BY <1>1, <1>2, <2>3, <3>1, <3>2, PinnedTurn DEF PinIInv
    <3> QED
      BY <2>3, <3>3
  <2> QED
    BY <2>1, <2>2, <2>3
<1>4. ASSUME NEW g \in Groups, manifest'[g] # <<>>, manifest'[g].pinned
      PROVE  \A e \in Of(g) : manifest'[g].out[e] = Chosen(e, manifest'[g].specs[e])
  <2>1. CASE manifest'[g] = manifest[g]
    BY <1>4, <2>1 DEF PinIInv, PinInv
  <2>2. CASE Finish(p) /\ g \in Rendered(p)
    <3>1. manifest'[g] = From(p, g) /\ job[p].todo = {}
      BY <2>2, Zenon DEF Finish
    <3>2. From(p, g).pinned = job[p].pinned
      BY DEF From
    <3>3. PinnedJob(job[p])
      BY <1>4, <3>1, <3>2 DEF PinIInv, PinInv
    <3> QED
      BY <2>2, <3>1, <3>3, PinnedFrom
  <2>3. \/ manifest' = manifest
        \/ /\ Finish(p)
           /\ manifest' = [h \in Groups |-> IF h \in Rendered(p) THEN From(p, h)
                                            ELSE manifest[h]]
    BY Zenon DEF Step, Begin, Take, Look, File, Gate, Finish, Prune
  <2> QED
    BY <2>1, <2>2, <2>3
<1>5. \A g : Of(g)' = Of(g)
  BY DEF Of
<1> QED
  BY <1>3, <1>4, <1>r, <1>5 DEF PinInv

LEMMA PinNext == PinIInv /\ [Next]_vars => PinIInv'
<1> SUFFICES ASSUME PinIInv, [Next]_vars PROVE PinIInv'
  OBVIOUS
<1>1. OutInv'
  BY OutStep DEF PinIInv
<1>2. CASE Outside \/ UNCHANGED vars
  <2>1. UNCHANGED <<job, manifest, revision>>
    BY <1>2, OutsideMoves DEF Outside, Tick, Publish, Answer, Pull, EditFactory, vars
  <2>2. \A e, s : Chosen(e, s)' = Chosen(e, s) /\ Followed(e, s)' = Followed(e, s)
    BY <2>1 DEF Chosen, Followed
  <2>3. PinInv'
    BY <2>1, <2>2 DEF PinIInv, PinInv, PinnedJob
  <2> QED
    BY <1>1, <2>3 DEF PinIInv
<1>3. ASSUME NEW p \in Process, Begin(p) \/ Step(p) PROVE PinIInv'
  BY <1>1, <1>3, PinStep DEF PinIInv
<1> QED
  BY <1>2, <1>3, Zenon DEF Next, Outside

\* A dead pin that was pruned chose nothing.
LEMMA PrunedChooses ==
    ASSUME NEW e, NEW s \in Specs, PinDead(s, Followed(e, s)), Followed(e, s).current \in Nat
    PROVE  Chosen(e, Pruned(s)) = Chosen(e, s)
<1>1. /\ DOMAIN s = {"version", "track", "pin", "mode", "expires", "acks"}
      /\ s.pin \in Nat
  BY ResolveAssumption
<1> DEFINE r == Pruned(s)
<1>2. r.version = s.version /\ r.track = s.track /\ r.mode = "none"
  BY <1>1 DEF Pruned
<1> HIDE DEF r
<1>3. Followed(e, r) = Followed(e, s)
  BY <1>2 DEF Followed, TrackOf
<1> DEFINE t == Followed(e, s)
<1>4. s.mode = "soft" /\ s.pin <= t.current /\ t.current \in Nat
  BY DEF PinDead
<1> HIDE DEF t
<1>5. Resolved(r, t) = t.current /\ Resolved(s, t) = t.current
  BY <1>1, <1>2, <1>4 DEF Resolved, PinLeads
<1>6. FromRegister(r) <=> FromRegister(s)
  BY <1>2 DEF FromRegister
<1> QED
  BY <1>2, <1>3, <1>5, <1>6 DEF Chosen, t, r

\* A factory's revision is all that a run at it reads: whatever was pulled or
\* asked for between two of them, the same declarations, or those whose dead
\* pins were pruned, render the same versions (resolvecontroller's view,
\* clidriver's pruneDeadPins).
THEOREM PinnedRendersTheSame == Spec => PinnedIsStable
<1> DEFINE Stable ==
        \A g \in Groups :
            /\ manifest[g] # <<>> /\ manifest'[g] # manifest[g]
            /\ manifest[g].pinned /\ manifest'[g].pinned
            /\ SameButDead(manifest[g].specs, manifest'[g].specs)
            => \A e \in Of(g) : manifest'[g].out[e] = manifest[g].out[e]
<1>1. ASSUME Entry # {}
      PROVE  TypeOK /\ PinIInv /\ [Next]_vars => [Stable]_vars
  <2> SUFFICES ASSUME TypeOK, PinIInv, Next,
                      NEW g \in Groups, NEW e \in Of(g),
                      manifest[g] # <<>>, manifest'[g] # manifest[g],
                      manifest[g].pinned, manifest'[g].pinned,
                      SameButDead(manifest[g].specs, manifest'[g].specs)
               PROVE  manifest'[g].out[e] = manifest[g].out[e]
    OBVIOUS
  <2>1. PinIInv' /\ TypeOK'
    BY <1>1, PinNext, NextTyped
  <2>2. revision' = revision
    BY Zenon DEF Next, Step, Tick, Publish, Answer, Pull, EditFactory, Begin, Take, Look,
       File, Gate, Finish, Prune, world
  <2>3. \A d, s : Chosen(d, s)' = Chosen(d, s)
    BY <2>2 DEF Chosen, Followed
  <2>4. manifest'[g] # <<>>
    <3>1. PICK p \in Process : g \in Rendered(p) /\ manifest'[g] = From(p, g)
      <4>1. PICK p \in Process : Finish(p)
        BY Zenon DEF Next, Step, Tick, Publish, Answer, Pull, EditFactory, Begin, Take, Look,
           File, Gate, Prune
      <4>2. manifest' = [h \in Groups |-> IF h \in Rendered(p) THEN From(p, h)
                                          ELSE manifest[h]]
        BY <4>1, Zenon DEF Finish
      <4> QED
        BY <4>2
    <3>2. "pinned" \in DOMAIN From(p, g) /\ "pinned" \notin DOMAIN <<>>
      BY DEF From
    <3> QED
      BY <3>1, <3>2
  <2> DEFINE a == manifest[g].specs
             b == manifest'[g].specs
  <2>5. manifest[g].out[e] = Chosen(e, a[e])
    BY DEF PinIInv, PinInv
  <2>6. manifest'[g].out[e] = Chosen(e, b[e])
    <3>1. \A h : Of(h)' = Of(h)
      BY DEF Of
    <3>2. (manifest[g].out[e] = Chosen(e, manifest[g].specs[e]))'
      BY <2>1, <2>4, <3>1 DEF PinIInv, PinInv
    <3> QED
      BY <3>2, <2>3
  <2>7. a \in [Of(g) -> Specs]
    <3>1. manifest[g] \in Bases(g)
      BY DEF TypeOK
    <3> QED
      BY <3>1 DEF Bases
  <2>8. b[e] = a[e] \/ (b[e] = Pruned(a[e]) /\ PinDead(a[e], Followed(e, a[e])))
    BY <2>7 DEF SameButDead
  <2>9. a[e] \in Specs /\ e \in Entry
    BY <2>7 DEF Of
  <2>10. Followed(e, a[e]).current \in Nat
    <3>1. Followed(e, a[e]) \in Records \cup {Absent}
      BY <2>9, ReadTyped DEF Followed, TypeOK
    <3>2. \A t \in Records : t.current \in Nat
      BY ResolveAssumption
    <3>3. Absent.current \in Nat
      BY DEF Absent
    <3> QED
      BY <3>1, <3>2, <3>3
  <2> HIDE DEF a, b
  <2> QED
    BY <2>5, <2>6, <2>8, <2>9, <2>10, PrunedChooses
<1>2. CASE Entry # {}
  <2>1. TypeOK /\ PinIInv /\ [Next]_vars => [Stable]_vars
    BY <1>1, <1>2
  <2>2. Spec => [][Stable]_vars
    BY <1>2, <2>1, ResolveTyped, PinInit, PinNext, PTL DEF Spec
  <2> QED
    BY <2>2 DEF PinnedIsStable
<1>3. CASE Entry = {}
  <2>1. Stable
    BY <1>3 DEF Of
  <2>2. [][Stable]_vars
    BY <2>1, PTL
  <2> QED
    BY <2>2 DEF PinnedIsStable
<1> QED
  BY <1>2, <1>3

-----------------------------------------------------------------------------
(* The order of versions. *)

\* Natural numbers have a least one, as the finite sets below them have.
LEMMA LeastNatural ==
    ASSUME NEW S \in SUBSET Nat, S # {}
    PROVE  \E x \in S : \A y \in S : x <= y
<1> DEFINE Below(x) == {y \in Nat : y < x}
           T == {Below(x) : x \in S}
<1>1. \A x \in S : Below(x) \in FiniteSubsetsOf(Nat)
  <2> TAKE x \in S
  <2>1. Below(x) \in SUBSET (0..x)
    OBVIOUS
  <2>2. IsFiniteSet(0..x)
    BY FS_Interval
  <2> QED
    BY <2>1, <2>2, FS_Subset DEF FiniteSubsetsOf
<1>2. T \subseteq FiniteSubsetsOf(Nat) /\ T # {}
  BY <1>1
<1>3. PICK t \in T : \A u \in T : <<u, t>> \notin StrictSubsetOrdering(Nat)
  <2> HIDE DEF T
  <2> QED
    BY <1>2, WFMin, FS_StrictSubsetOrderingWellFounded
<1>4. PICK x \in S : t = Below(x)
  OBVIOUS
<1>5. ASSUME NEW y \in S, y < x PROVE FALSE
  <2>1. Below(y) \in SUBSET Nat /\ Below(x) \in SUBSET Nat
    OBVIOUS
  <2>2. y \in Below(x) /\ y \notin Below(y)
    BY <1>5
  <2>3. Below(y) \subseteq Below(x)
    BY <1>5
  <2>4. <<Below(y), Below(x)>> \in StrictSubsetOrdering(Nat)
    <3> HIDE DEF Below
    <3> QED
      BY <2>1, <2>2, <2>3 DEF StrictSubsetOrdering
  <2> QED
    BY <1>3, <1>4, <2>4
<1> QED
  BY <1>5

Places == Nat \ {0}

\* Two versions have the same numbers, or the first that differs is lower.
SameNumbers(a, b) == \A i \in Places : Number(a, i) = Number(b, i)

LowerAt(a, b, i) ==
    /\ Number(a, i) < Number(b, i)
    /\ \A j \in Places : j < i => Number(a, j) = Number(b, j)

PreBefore(a, b) == a.pre # 0 /\ (b.pre = 0 \/ a.pre < b.pre)

LEMMA NumberType ==
    ASSUME NEW v, IsVersion(v)
    PROVE  \A i \in Places : Number(v, i) \in Nat
BY DEF IsVersion, Number, Places

LEMMA DifferIs ==
    ASSUME NEW a, NEW b, IsVersion(a), IsVersion(b)
    PROVE  Differ(a, b) = {i \in Places : Number(a, i) # Number(b, i)}
<1>1. ASSUME NEW v, IsVersion(v)
      PROVE  DOMAIN v.numbers \in SUBSET Places /\ \A i \in Places \ DOMAIN v.numbers : Number(v, i) = 0
  BY <1>1 DEF IsVersion, Number, Places
<1> QED
  BY <1>1 DEF Differ

\* One of the versions is lower, or their numbers are the same.
LEMMA FirstDiffers ==
    ASSUME NEW a, NEW b, IsVersion(a), IsVersion(b), ~SameNumbers(a, b)
    PROVE  LET i == CHOOSE i \in Differ(a, b) : \A j \in Differ(a, b) : i <= j
           IN  /\ i \in Places /\ Number(a, i) # Number(b, i) /\ Differ(a, b) # {}
               /\ \A j \in Places : j < i => Number(a, j) = Number(b, j)
<1> DEFINE D == Differ(a, b)
           i == CHOOSE i \in D : \A j \in D : i <= j
<1>1. D = {j \in Places : Number(a, j) # Number(b, j)}
  BY DifferIs
<1>2. D # {} /\ D \in SUBSET Nat
  BY <1>1 DEF SameNumbers, Places
<1> HIDE DEF D
<1>3. \E x \in D : \A y \in D : x <= y
  BY <1>2, LeastNatural
<1>4. i \in D /\ \A j \in D : i <= j
  BY <1>3
<1> HIDE DEF i
<1>5. \A j \in Places : j < i => Number(a, j) = Number(b, j)
  BY <1>1, <1>4 DEF Places
<1> QED
  BY <1>1, <1>2, <1>4, <1>5 DEF D, i

LEMMA BeforeIs ==
    ASSUME NEW a, NEW b, IsVersion(a), IsVersion(b)
    PROVE  Before(a, b) <=> \/ \E i \in Places : LowerAt(a, b, i)
                            \/ SameNumbers(a, b) /\ PreBefore(a, b)
<1>1. CASE SameNumbers(a, b)
  <2>1. Differ(a, b) = {}
    BY <1>1, DifferIs DEF SameNumbers
  <2>2. \A i \in Places : ~LowerAt(a, b, i)
    BY <1>1, NumberType DEF SameNumbers, LowerAt
  <2> QED
    BY <1>1, <2>1, <2>2 DEF Before, PreBefore
<1>2. CASE ~SameNumbers(a, b)
  <2> DEFINE i == CHOOSE i \in Differ(a, b) : \A j \in Differ(a, b) : i <= j
  <2>1. /\ i \in Places /\ Number(a, i) # Number(b, i) /\ Differ(a, b) # {}
        /\ \A j \in Places : j < i => Number(a, j) = Number(b, j)
    BY <1>2, FirstDiffers
  <2>2. Before(a, b) <=> Number(a, i) < Number(b, i)
    BY <2>1 DEF Before
  <2> HIDE DEF i
  <2>3. ASSUME NEW k \in Places, LowerAt(a, b, k) PROVE k = i
    <3>1. /\ Number(a, k) < Number(b, k) /\ Number(a, k) \in Nat /\ Number(b, k) \in Nat
          /\ \A j \in Places : j < k => Number(a, j) = Number(b, j)
      BY <2>3, NumberType DEF LowerAt
    <3> QED
      BY <2>1, <3>1 DEF Places
  <2>4. Number(a, i) < Number(b, i) => LowerAt(a, b, i)
    BY <2>1 DEF LowerAt
  <2>5. (\E k \in Places : LowerAt(a, b, k)) => Number(a, i) < Number(b, i)
    BY <2>3 DEF LowerAt
  <2> QED
    BY <1>2, <2>1, <2>2, <2>4, <2>5
<1> QED
  BY <1>1, <1>2

\* Two versions whose numbers are not the same are lower and higher.
LEMMA OneIsLower ==
    ASSUME NEW a, NEW b, IsVersion(a), IsVersion(b), ~SameNumbers(a, b)
    PROVE  \E i \in Places : LowerAt(a, b, i) \/ LowerAt(b, a, i)
<1> DEFINE i == CHOOSE i \in Differ(a, b) : \A j \in Differ(a, b) : i <= j
<1>1. /\ i \in Places /\ Number(a, i) # Number(b, i)
      /\ \A j \in Places : j < i => Number(a, j) = Number(b, j)
  BY FirstDiffers
<1> HIDE DEF i
<1>2. Number(a, i) \in Nat /\ Number(b, i) \in Nat
  BY <1>1, NumberType
<1> QED
  BY <1>1, <1>2 DEF LowerAt

LEMMA LowerIsTransitive ==
    ASSUME NEW a, NEW b, NEW c, IsVersion(a), IsVersion(b), IsVersion(c),
           NEW i \in Places, NEW j \in Places, LowerAt(a, b, i), LowerAt(b, c, j)
    PROVE  \E k \in Places : LowerAt(a, c, k)
<1>1. \A k \in Places : Number(a, k) \in Nat /\ Number(b, k) \in Nat /\ Number(c, k) \in Nat
  BY NumberType
<1>2. CASE i <= j
  <2>1. Number(a, i) < Number(c, i)
    <3>1. Number(b, i) <= Number(c, i)
      BY <1>1, <1>2 DEF LowerAt, Places
    <3> QED
      BY <1>1, <3>1 DEF LowerAt
  <2>2. \A k \in Places : k < i => Number(a, k) = Number(c, k)
    BY <1>2 DEF LowerAt, Places
  <2> QED
    BY <2>1, <2>2 DEF LowerAt
<1>3. CASE j < i
  <2>1. Number(a, j) < Number(c, j)
    BY <1>1, <1>3 DEF LowerAt
  <2>2. \A k \in Places : k < j => Number(a, k) = Number(c, k)
    BY <1>3 DEF LowerAt, Places
  <2> QED
    BY <2>1, <2>2 DEF LowerAt
<1> QED
  BY <1>2, <1>3 DEF Places

LEMMA LowerLikeSame ==
    ASSUME NEW a, NEW b, NEW c, SameNumbers(a, b), NEW i \in Places
    PROVE  /\ LowerAt(a, c, i) <=> LowerAt(b, c, i)
           /\ LowerAt(c, a, i) <=> LowerAt(c, b, i)
BY DEF SameNumbers, LowerAt

\* compareVersions is an order, whatever numbers and prereleases versions have: no
\* version is before itself, of two versions only one is before the other, what is
\* before one is before what that one is before, and two of which neither is before
\* the other are the same up to missing zeros.  The highest track of a package does
\* not depend on the order of the listing.
THEOREM VersionsAreOrdered ==
    ASSUME NEW a, NEW b, NEW c, IsVersion(a), IsVersion(b), IsVersion(c)
    PROVE  /\ ~Before(a, a)
           /\ Before(a, b) => ~Before(b, a)
           /\ Before(a, b) /\ Before(b, c) => Before(a, c)
           /\ ~Before(a, b) /\ ~Before(b, a) => SameNumbers(a, b) /\ a.pre = b.pre
<1>1. \A k \in Places : Number(a, k) \in Nat /\ Number(b, k) \in Nat
  BY NumberType
<1>2. a.pre \in Nat /\ b.pre \in Nat /\ c.pre \in Nat
  BY DEF IsVersion
<1>3. /\ SameNumbers(a, b) => SameNumbers(b, a)
      /\ SameNumbers(a, b) /\ SameNumbers(b, c) => SameNumbers(a, c)
      /\ SameNumbers(b, c) => SameNumbers(c, b)
  BY DEF SameNumbers
<1>4. ~Before(a, a)
  <2>1. \A i \in Places : ~LowerAt(a, a, i)
    BY <1>1 DEF LowerAt
  <2>2. ~PreBefore(a, a)
    BY <1>2 DEF PreBefore
  <2> QED
    BY <2>1, <2>2, BeforeIs
<1>5. Before(a, b) => ~Before(b, a)
  <2>1. ASSUME NEW i \in Places, NEW j \in Places, LowerAt(a, b, i) PROVE ~LowerAt(b, a, j)
    BY <1>1, <2>1 DEF LowerAt, Places
  <2>2. ASSUME NEW i \in Places, SameNumbers(a, b) PROVE ~LowerAt(a, b, i) /\ ~LowerAt(b, a, i)
    BY <1>1, <2>2 DEF LowerAt, SameNumbers
  <2>3. PreBefore(a, b) => ~PreBefore(b, a)
    BY <1>2 DEF PreBefore
  <2>4. SameNumbers(b, a) => SameNumbers(a, b)
    BY DEF SameNumbers
  <2> QED
    BY <2>1, <2>2, <2>3, <2>4, BeforeIs
<1>6. Before(a, b) /\ Before(b, c) => Before(a, c)
  <2> SUFFICES ASSUME Before(a, b), Before(b, c) PROVE Before(a, c)
    OBVIOUS
  <2>1. CASE SameNumbers(a, b) /\ SameNumbers(b, c) /\ PreBefore(a, b) /\ PreBefore(b, c)
    <3>1. PreBefore(a, c)
      BY <1>2, <2>1 DEF PreBefore
    <3> QED
      BY <1>3, <2>1, <3>1, BeforeIs
  <2>2. CASE SameNumbers(a, b) /\ \E j \in Places : LowerAt(b, c, j)
    BY <2>2, LowerLikeSame, BeforeIs
  <2>3. CASE SameNumbers(b, c) /\ \E i \in Places : LowerAt(a, b, i)
    BY <2>3, LowerLikeSame, BeforeIs
  <2>4. CASE (\E i \in Places : LowerAt(a, b, i)) /\ (\E j \in Places : LowerAt(b, c, j))
    <3>1. \E k \in Places : LowerAt(a, c, k)
      BY <2>4, LowerIsTransitive
    <3> QED
      BY <3>1, BeforeIs
  <2> QED
    BY <2>1, <2>2, <2>3, <2>4, BeforeIs
<1>7. ~Before(a, b) /\ ~Before(b, a) => SameNumbers(a, b) /\ a.pre = b.pre
  <2> SUFFICES ASSUME ~Before(a, b), ~Before(b, a) PROVE SameNumbers(a, b) /\ a.pre = b.pre
    OBVIOUS
  <2>1. SameNumbers(a, b)
    BY OneIsLower, BeforeIs
  <2>2. ~PreBefore(a, b) /\ ~PreBefore(b, a)
    BY <1>3, <2>1, BeforeIs
  <2> QED
    BY <1>2, <2>1, <2>2 DEF PreBefore
<1> QED
  BY <1>4, <1>5, <1>6, <1>7

-----------------------------------------------------------------------------
(* The highest track. *)

\* How the highest of the first names of a listing changes at the next.
Better(names, there, i, best) ==
    IF names[i] \in there /\ (best = NoVersion \/ Before(best, names[i]))
    THEN names[i]
    ELSE best

\* The highest of each beginning of a listing, up to n names.
Walk(names, there, n, f) ==
    f = [i \in 0..n |-> IF i = 0 THEN NoVersion ELSE Better(names, there, i, f[i - 1])]

\* A walk goes on.
LEMMA WalkOn ==
    ASSUME NEW names, NEW there, NEW n \in Nat, NEW f, Walk(names, there, n, f)
    PROVE  \E g : Walk(names, there, n + 1, g)
<1> DEFINE g == [i \in 0..(n + 1) |-> IF i = n + 1 THEN Better(names, there, n + 1, f[n]) ELSE f[i]]
<1>1. \A i \in 0..(n + 1) :
          g[i] = IF i = 0 THEN NoVersion ELSE Better(names, there, i, g[i - 1])
  <2> TAKE i \in 0..(n + 1)
  <2>1. CASE i = n + 1
    <3>1. g[i] = Better(names, there, i, f[n]) /\ g[i - 1] = f[n] /\ i # 0 /\ i - 1 = n
      BY <2>1
    <3> HIDE DEF g
    <3> QED
      BY <3>1
  <2>2. CASE i = 0
    <3>1. g[i] = f[i] /\ i \in 0..n
      BY <2>2
    <3> HIDE DEF g
    <3> QED
      BY <2>2, <3>1 DEF Walk
  <2>3. CASE i \in 1..n
    <3>1. g[i] = f[i] /\ g[i - 1] = f[i - 1] /\ i # 0 /\ i \in 0..n
      BY <2>3
    <3>2. f[i] = Better(names, there, i, f[i - 1])
      BY <3>1 DEF Walk
    <3> HIDE DEF g
    <3> QED
      BY <3>1, <3>2
  <2> QED
    BY <2>1, <2>2, <2>3
<1>2. g = [i \in 0..(n + 1) |-> g[i]]
  OBVIOUS
<1> HIDE DEF g
<1>3. Walk(names, there, n + 1, g)
  BY <1>1, <1>2 DEF Walk
<1> QED
  BY <1>3

LEMMA WalkThere ==
    ASSUME NEW names, NEW there, NEW n \in Nat
    PROVE  \E f : Walk(names, there, n, f)
<1> DEFINE S == {k \in Nat : ~\E f : Walk(names, there, k, f)}
<1>1. CASE S = {}
  BY <1>1
<1>2. CASE S # {}
  <2>1. PICK k \in S : \A y \in S : k <= y
    BY <1>2, LeastNatural
  <2>2. k # 0
    <3>1. Walk(names, there, 0, [i \in 0..0 |-> NoVersion])
      BY DEF Walk
    <3> QED
      BY <2>1, <3>1
  <2>3. k - 1 \in Nat /\ k - 1 \notin S /\ (k - 1) + 1 = k
    BY <2>1, <2>2
  <2>4. PICK f : Walk(names, there, k - 1, f)
    BY <2>3
  <2>5. \E g : Walk(names, there, (k - 1) + 1, g)
    BY <2>3, <2>4, WalkOn
  <2> QED
    BY <2>1, <2>3, <2>5
<1> QED
  BY <1>1, <1>2

\* The loop of defaultTrack computes the walk of the whole listing.
LEMMA HighestWalks ==
    ASSUME NEW names, NEW there, Len(names) \in Nat
    PROVE  \E f : Walk(names, there, Len(names), f) /\ Highest(names, there) = f[Len(names)]
<1> DEFINE W(f) == f = [i \in 0..Len(names) |->
                           IF i = 0 THEN NoVersion
                           ELSE IF names[i] \in there
                                   /\ (f[i - 1] = NoVersion \/ Before(f[i - 1], names[i]))
                           THEN names[i]
                           ELSE f[i - 1]]
           best == CHOOSE f : W(f)
<1>1. \E f : W(f)
  <2>1. PICK f : Walk(names, there, Len(names), f)
    BY WalkThere
  <2>2. W(f)
    BY <2>1 DEF Walk, Better
  <2> QED
    BY <2>2
<1>2. W(best)
  BY <1>1
<1>3. Highest(names, there) = best[Len(names)]
  BY DEF Highest
<1>4. Walk(names, there, Len(names), best)
  <2> HIDE DEF best
  <2> QED
    BY <1>2 DEF Walk, Better
<1> QED
  BY <1>3, <1>4

\* What a walk has come to: none of the names it passed that are there is higher.
Tops(names, there, k, best) ==
    /\ best = NoVersion \/ \E i \in 1..k : best = names[i] /\ best \in there
    /\ \A i \in 1..k : names[i] \in there => best # NoVersion /\ ~Before(best, names[i])

LEMMA WalkTops ==
    ASSUME NEW names, NEW there, NEW n \in Nat, NEW f, Walk(names, there, n, f),
           \A i \in 1..n : names[i] \in there => IsVersion(names[i]) /\ names[i] # NoVersion,
           NEW m \in 0..n
    PROVE  Tops(names, there, m, f[m])
<1> DEFINE S == {k \in 0..n : ~Tops(names, there, k, f[k])}
<1>1. CASE S = {}
  BY <1>1
<1>2. CASE S # {}
  <2>1. PICK k \in S : \A y \in S : k <= y
    <3>1. S \in SUBSET Nat
      OBVIOUS
    <3> HIDE DEF S
    <3> QED
      BY <1>2, <3>1, LeastNatural
  <2>2. k # 0
    <3>1. f[0] = NoVersion
      BY DEF Walk
    <3>2. Tops(names, there, 0, f[0])
      BY <3>1 DEF Tops
    <3> QED
      BY <2>1, <3>2
  <2>3. k \in 1..n /\ k - 1 \in 0..n /\ k - 1 \notin S
    BY <2>1, <2>2
  <2> DEFINE was == f[k - 1]
             now_ == f[k]
  <2>4. Tops(names, there, k - 1, was)
    BY <2>3
  <2>5. now_ = Better(names, there, k, was)
    BY <2>3 DEF Walk
  <2>6. \A i \in 1..k : i = k \/ i \in 1..(k - 1)
    BY <2>3
  <2>7. 1..(k - 1) \subseteq 1..k /\ 1..k \subseteq 1..n /\ k \in 1..k
    BY <2>3
  <2> HIDE DEF was, now_
  <2>8. was = NoVersion \/ IsVersion(was)
    BY <2>4, <2>7 DEF Tops
  <2>9. Tops(names, there, k, now_)
    <3>1. CASE names[k] \in there /\ was = NoVersion
      <4>1. now_ = names[k] /\ IsVersion(names[k]) /\ names[k] # NoVersion
        BY <2>5, <2>3, <3>1 DEF Better
      <4>2. ~Before(names[k], names[k])
        BY <4>1, VersionsAreOrdered
      <4>3. \A i \in 1..(k - 1) : names[i] \notin there
        BY <2>4, <3>1 DEF Tops
      <4> QED
        BY <2>6, <2>7, <3>1, <4>1, <4>2, <4>3 DEF Tops
    <3>2. CASE names[k] \in there /\ was # NoVersion /\ Before(was, names[k])
      <4>1. now_ = names[k] /\ IsVersion(names[k]) /\ names[k] # NoVersion
        BY <2>5, <2>3, <3>2 DEF Better
      <4>2. ~Before(names[k], names[k])
        BY <4>1, VersionsAreOrdered
      <4>3. ASSUME NEW i \in 1..(k - 1), names[i] \in there
            PROVE  ~Before(names[k], names[i])
        <5>1. ~Before(was, names[i])
          BY <2>4, <4>3 DEF Tops
        <5>2. IsVersion(names[i])
          BY <2>7, <4>3
        <5> QED
          BY <2>8, <3>2, <4>1, <5>1, <5>2, VersionsAreOrdered
      <4> QED
        BY <2>6, <2>7, <3>2, <4>1, <4>2, <4>3 DEF Tops
    <3>3. CASE names[k] \in there /\ was # NoVersion /\ ~Before(was, names[k])
      <4>1. now_ = was
        BY <2>5, <3>3 DEF Better
      <4> QED
        BY <2>4, <2>6, <2>7, <3>3, <4>1 DEF Tops
    <3>4. CASE names[k] \notin there
      <4>1. now_ = was
        BY <2>5, <3>4 DEF Better
      <4> QED
        BY <2>4, <2>6, <2>7, <3>4, <4>1 DEF Tops
    <3> QED
      BY <3>1, <3>2, <3>3, <3>4
  <2> QED
    BY <2>1, <2>9 DEF now_
<1> QED
  BY <1>1, <1>2

\* Of any listing whose names can be compared, the highest is one that is there,
\* if any is, and none that is there is higher.
LEMMA HighestIsHighest ==
    ASSUME NEW names, NEW there, Len(names) \in Nat, DOMAIN names = 1..Len(names),
           \A i \in DOMAIN names : names[i] \in there => IsVersion(names[i]) /\ names[i] # NoVersion
    PROVE  \A i \in DOMAIN names : names[i] \in there =>
               /\ Highest(names, there) \in there
               /\ ~Before(Highest(names, there), names[i])
<1>1. PICK f : Walk(names, there, Len(names), f) /\ Highest(names, there) = f[Len(names)]
  BY HighestWalks
<1> DEFINE n == Len(names)
<1>2. n \in Nat /\ n \in 0..n
  OBVIOUS
<1>3. \A i \in 1..n : names[i] \in there => IsVersion(names[i]) /\ names[i] # NoVersion
  OBVIOUS
<1>4. Walk(names, there, n, f)
  BY <1>1
<1> HIDE DEF n
<1>5. Tops(names, there, n, f[n])
  BY <1>2, <1>3, <1>4, WalkTops
<1> QED
  BY <1>1, <1>5 DEF Tops, n

\* A process that takes up its next entry has found no track yet.
LookInv == Shape /\ \A p \in Process : job[p].pc = "next" => job[p].found = Absent

LEMMA DoneFinds ==
    ASSUME NEW j, DOMAIN j = Fields, NEW e, NEW v
    PROVE  /\ Done(j, e).found = Absent
           /\ Misses(j, e).found = Absent
           /\ Answering(j, e, v).found = Absent
<1> DEFINE d == Done(j, e)
<1>1. DOMAIN d = Fields /\ d.found = Absent
  BY DEF Done, Fields
<1>2. Misses(j, e) = [d EXCEPT !.missing = j.missing \cup {e}]
  BY DoneShape
<1>3. Answering(j, e, v) = [d EXCEPT !.out[e] = v]
  BY DEF Answering
<1> HIDE DEF d
<1>4. [d EXCEPT !.missing = j.missing \cup {e}].found = Absent
  BY <1>1 DEF Fields
<1>5. [d EXCEPT !.out[e] = v].found = Absent
  BY <1>1 DEF Fields
<1> QED
  BY <1>1, <1>2, <1>3, <1>4, <1>5 DEF d

LEMMA WantingFinds ==
    ASSUME NEW j, DOMAIN j = Fields, NEW e, NEW kind
    PROVE  Wanting(j, e, kind).found = j.found
  BY DEF Wanting, Fields

LEMMA LookTurn ==
    ASSUME Shape, NEW p \in Process, Turns(p), job'[p].pc = "next"
    PROVE  job'[p].found = Absent
<1>0. DOMAIN job[p] = Fields
  BY DEF Shape
<1>1. CASE Ends(p) \/ Prunes(p) \/ Opens(p)
  BY <1>1, IdleShape, EndingShape DEF Ends, Prunes, Opens, Fresh
<1>2. CASE Owns(p) \/ Settles(p)
  BY <1>0, <1>2, DoneFinds DEF Owns, Settles
<1>3. CASE Lacks(p) \/ Waits(p)
  BY <1>0, <1>3, DoneFinds DEF Lacks, Waits
<1>4. CASE Wants(p)
  BY <1>0, <1>4, WantingShape DEF Wants
<1>5. CASE Finds(p)
  <2>1. PICK pc \in {"look", "gate"} : \E e, kind, track, t, dead :
            job'[p] = Finding(job[p], e, track, t, pc, kind, dead)
    BY <1>5 DEF Finds
  <2> QED
    BY <1>0, <2>1, FindingShape
<1>6. CASE Decides(p) \/ Passes(p)
  BY <1>0, <1>6, MovedShape DEF Decides, Passes
<1> QED
  BY <1>1, <1>2, <1>3, <1>4, <1>5, <1>6 DEF Turns

LEMMA LookStep == LookInv /\ [Next]_vars => LookInv'
<1> SUFFICES ASSUME LookInv, [Next]_vars PROVE LookInv'
  OBVIOUS
<1>1. CASE Outside \/ UNCHANGED vars
  <2>1. job' = job
    BY <1>1, OutsideMoves DEF vars
  <2> QED
    BY <2>1 DEF LookInv, Shape
<1>2. ASSUME NEW p \in Process, Begin(p) \/ Step(p) PROVE LookInv'
  <2>1. Shape' /\ Turns(p) /\ \A q \in Process : q # p => job'[q] = job[q]
    BY <1>2, StepTurns DEF LookInv
  <2>2. job'[p].pc = "next" => job'[p].found = Absent
    BY <2>1, LookTurn DEF LookInv
  <2> QED
    BY <2>1, <2>2 DEF LookInv
<1> QED
  BY <1>1, <1>2, Zenon DEF Next, Outside

\* Whoever leaves its last entry with a record in hand has just looked one up.
LEMMA LooksUp ==
    ASSUME LookInv, NEW p \in Process, Next,
           job[p].pc = "next", job'[p].pc \in {"look", "gate"}, job'[p].found # Absent
    PROVE  Finds(p)
<1>0. DOMAIN job[p] = Fields /\ job[p].found = Absent
  BY DEF LookInv, Shape
<1>1. Turns(p)
  <2>1. ~Outside
    <3>1. CASE Outside
      BY <3>1, OutsideMoves
    <3> QED
      BY <3>1
  <2>2. PICK q \in Process : Begin(q) \/ Step(q)
    BY <2>1, Zenon DEF Next, Outside
  <2>3. Turns(q) /\ \A r \in Process : r # q => job'[r] = job[r]
    BY <2>2, StepTurns DEF LookInv
  <2> QED
    BY <2>3
<1>2. ~Wants(p)
  BY <1>0, WantingFinds DEF Wants
<1>3. ~Ends(p) /\ ~Prunes(p) /\ ~Opens(p)
  BY IdleShape, EndingShape DEF Ends, Prunes, Opens, Fresh
<1>4. ~Owns(p) /\ ~Settles(p)
  BY <1>0, AnswerShape DEF Owns, Settles
<1>5. ~Lacks(p) /\ ~Waits(p)
  BY <1>0, DoneShape DEF Lacks, Waits
<1>6. ~Decides(p) /\ ~Passes(p)
  BY DEF Decides, Passes, HasAsked
<1> QED
  BY <1>1, <1>2, <1>3, <1>4, <1>5, <1>6 DEF Turns

LEMMA LookInit == Init => LookInv
<1> SUFFICES ASSUME Init PROVE LookInv
  OBVIOUS
<1>1. job = [p \in Process |-> Idle]
  BY DEF Init
<1> QED
  BY <1>1, IdleShape DEF LookInv, Shape

\* Whatever a register lists, and whoever reads it while others change it, an entry
\* without a track of its own follows the highest of those that have a file
\* (defaultTrack).
THEOREM HighestIsFollowed == Spec => FollowsHighest
<1> DEFINE Follows(p) ==
        job[p].pc = "next" /\ job'[p].pc \in {"look", "gate"} /\ job'[p].found # Absent
        /\ job[p].specs[job'[p].entry].track = NoVersion =>
            \A i, j \in DOMAIN Ranks :
                i < j /\ job'[p].track = Ranks[i] => View(p)[job'[p].entry][Ranks[j]] = Absent
<1>2. ASSUME LookInv, NEW p \in Process, Next PROVE Follows(p)
  <2> SUFFICES ASSUME job[p].pc = "next", job'[p].pc \in {"look", "gate"},
                      job'[p].found # Absent,
                      job[p].specs[job'[p].entry].track = NoVersion,
                      NEW i \in DOMAIN Ranks, NEW j \in DOMAIN Ranks, i < j,
                      job'[p].track = Ranks[i],
                      View(p)[job'[p].entry][Ranks[j]] # Absent
               PROVE  FALSE
    BY Zenon
  <2>0. DOMAIN job[p] = Fields /\ job[p].found = Absent
    BY <1>2 DEF LookInv, Shape
  <2>2. Finds(p)
    BY <1>2, LooksUp
  <2>3. PICK e \in job[p].todo, pc \in {"look", "gate"}, kind \in {"upgrade", job[p].kind} :
            \E track, t, dead :
                /\ track = TrackOf(View(p), e, job[p].specs[e])
                /\ job'[p] = Finding(job[p], e, track, t, pc, kind, dead)
    BY <2>2 DEF Finds
  <2>4. job'[p].entry = e /\ job'[p].track = TrackOf(View(p), e, job[p].specs[e])
    BY <2>0, <2>3, FindingShape
  <2> DEFINE there == TracksOf(View(p), e)
  <2>5. Ranks[i] = Highest(Names, there)
    BY <2>4 DEF TrackOf
  <2>6. Ranks[j] \in there
    BY <2>4, ResolveAssumption DEF TracksOf
  <2>7. PICK k \in DOMAIN Names : Ranks[j] = Names[k]
    BY <2>6 DEF TracksOf, TrackNames
  <2>8. Len(Names) \in Nat /\ DOMAIN Names = 1..Len(Names)
    BY TrackAssumption
  <2>9. \A n \in DOMAIN Names : IsVersion(Names[n]) /\ Names[n] # NoVersion
    BY TrackAssumption DEF TrackNames
  <2> HIDE DEF there
  <2>10. ~Before(Highest(Names, there), Names[k])
    BY <2>6, <2>7, <2>8, <2>9, HighestIsHighest
  <2> QED
    BY <2>5, <2>7, <2>10, TrackAssumption
<1>3. LookInv /\ [Next]_vars => [\A p \in Process : Follows(p)]_vars
  BY <1>2
<1> QED
  BY LookInit, <1>3, LookStep, PTL DEF Spec, FollowsHighest, Follows
-----------------------------------------------------------------------------
(* What a pin and a gate let through. *)

\* A record with findings resolves only while each of them is acknowledged, and
\* a deprecated one only through the grace or with findings that have no fix,
\* whatever pin chose the version; and an entry whose hard pin is over when it
\* is looked up goes no further (resolvecontroller's resolveEntry, applyPin,
\* advisoryGate and deprecationNote).
THEOREM GateAlwaysHolds == Spec => GateHolds
<1>1. ASSUME OutInv, Next, NEW q \in Process, NEW e \in Entry PROVE SafelyResolved(q, e)
  <2>1. CASE Outside
    BY <2>1, OutsideMoves DEF SafelyResolved
  <2>2. ASSUME NEW p \in Process, Begin(p) \/ Step(p) PROVE SafelyResolved(q, e)
    <3> SUFFICES ASSUME job'[q].out[e] \notin {0, job[q].out[e]},
                        FromRegister(job[q].specs[e])
                 PROVE  Safe(job[q].found, job[q].specs[e])
      BY DEF SafelyResolved
    <3>1. q = p
      BY <1>1, <2>2, StepMoves DEF OutInv
    <3>2. Moves(p) /\ DOMAIN job[p].out = Entry
      BY <1>1, <2>2, StepResolves DEF OutInv
    <3>3. Idle.out = [x \in Entry |-> 0]
      BY DEF Idle
    <3>4. Resolves(p)
      BY <3>1, <3>2, <3>3 DEF Moves
    <3>5. e = job[p].entry /\ ~Refused(p)
      BY <3>1, <3>2, <3>4 DEF Resolves, Answered
    <3> QED
      BY <3>1, <3>5, UnsafeIsRefused DEF SpecOf
  <2> QED
    BY <1>1, <2>1, <2>2, Zenon DEF Next, Outside
<1>2. ASSUME LookInv, Next, NEW p \in Process, NEW e \in Entry PROVE LookedUpPinned(p, e)
  <2> SUFFICES ASSUME job[p].pc = "next", job'[p].pc \in {"look", "gate"},
                      job'[p].found # Absent, job'[p].entry = e
               PROVE  StillPinned(job[p].specs[e])
    BY Zenon DEF LookedUpPinned
  <2>1. DOMAIN job[p] = Fields
    BY <1>2 DEF LookInv, Shape
  <2>2. PICK f \in job[p].todo, pc \in {"look", "gate"}, kind \in {"upgrade", job[p].kind} :
            \E track, t :
                /\ ~PinExpired(job[p].specs[f], now)
                /\ job'[p] = Finding(job[p], f, track, t, pc, kind,
                       job[p].dead \cup IF PinDead(job[p].specs[f], t) THEN {f} ELSE {})
    <3>1. Finds(p)
      BY <1>2, LooksUp
    <3> QED
      BY <3>1, ZenonT(60) DEF Finds
  <2>3. job'[p].entry = f
    BY <2>1, <2>2, FindingShape
  <2> QED
    BY <2>2, <2>3 DEF PinExpired, StillPinned
<1> DEFINE Holding == \A p \in Process, e \in Entry :
                        SafelyResolved(p, e) /\ LookedUpPinned(p, e)
<1>3. OutInv /\ LookInv /\ [Next]_vars => [Holding]_vars
  BY <1>1, <1>2
<1>4. Spec => [][Holding]_vars
  <2> HIDE DEF Holding
  <2> QED
    BY <1>3, OutInit, OutStep, LookInit, LookStep, PTL DEF Spec
<1> QED
  BY <1>4 DEF GateHolds
=============================================================================
