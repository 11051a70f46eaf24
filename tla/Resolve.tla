------------------------------ MODULE Resolve ------------------------------
(***************************************************************************)
(* How a sync turns the entries of forge-factory.yaml into versions: the   *)
(* register's checkout it reads, at a pinned revision or as it stands, the *)
(* requests it files for what the register lacks, the pins and the gate of *)
(* module Tracks, and what is rendered when some entry has no answer       *)
(* (resolvecontroller, synccontroller's resolveToolchain and renderMembers,*)
(* clidriver's runSync and pruneDeadPins).                                 *)
(*                                                                         *)
(* Syncs interleave with each other, with the register's pipeline, which   *)
(* publishes and answers requests in a later half day than they were filed,*)
(* with pulls of the checkout and with edits of the factory.  A request is *)
(* its package, kind and second; those of other factories are left out.    *)
(* Rendering is one step: RenderRecord has what happens inside it.         *)
(***************************************************************************)
EXTENDS Advice, FiniteSets

CONSTANTS
    Process,     \* forge-factory processes
    Entry,       \* what the factory declares
    Tool,        \* the entries of its toolchain; the others are of a language
    Names,       \* the prefixes a track may have, in the order of their text
    Records,     \* records a register may hold
    Starts,      \* what the first track of each entry may be when the system starts
    Specs,       \* what the factory may say of an entry
    Ranks,       \* the same prefixes in the order of their versions
    Grace,       \* how long a deprecated track resolves
    Heads,       \* the values --register-head may have
    MaxTime,     \* bound: half days
    MaxSyncs,    \* bound: syncs
    MaxChanges   \* bound: what the register's pipeline and the person change

TrackNames == {Names[i] : i \in DOMAIN Names}

Index == [Entry -> [TrackNames -> Records \cup {Absent}]]

\* A dependency's pin has a mode, and a mode a pin.
MayDepend(s) == s.pin # 0 <=> s.mode # "none"

\* A tool has a version of its own or the highest track of its package: no pin.
MayPin(s) == s.track = NoVersion /\ s.pin = 0

May(e) == {s \in Specs : IF e \in Tool THEN MayPin(s) ELSE MayDepend(s)}

Declarations == {d \in [Entry -> Specs] : \A e \in Entry : d[e] \in May(e)}

ASSUME ResolveAssumption ==
    /\ IsFiniteSet(Process)
    /\ Tool \subseteq Entry
    /\ {Ranks[i] : i \in DOMAIN Ranks} = TrackNames
    /\ Heads \subseteq BOOLEAN
    /\ \A s \in Specs : /\ DOMAIN s = {"version", "track", "pin", "mode", "expires", "acks"}
                        /\ s.track \in TrackNames \cup {NoVersion}
                        /\ s.pin \in Nat
                        /\ [s EXCEPT !.pin = 0, !.mode = "none", !.expires = 0] \in Specs
    /\ Absent \notin Records
    /\ \A t \in Records : t.current \in Nat
    /\ Starts \subseteq [Entry -> Records \cup {Absent}]

ASSUME TrackAssumption ==
    /\ Names \in Seq(TrackNames)
    /\ \A n \in TrackNames : IsVersion(n) /\ n # NoVersion
    /\ \A i, j \in DOMAIN Ranks : i < j => Before(Ranks[i], Ranks[j])

ASSUME ResolveBounds == MaxTime \in Nat \ {0} /\ MaxSyncs \in Nat /\ MaxChanges \in Nat /\ Grace \in Nat

VARIABLES
    cache,     \* whether the checkout is a worktree of a run's cache
    now,       \* the time
    origin,    \* the index on the register's main
    checkout,  \* the index in the checkout's working tree
    revision,  \* the index at the revision the factory names
    answered,  \* requests the pipeline has answered
    verdicts,  \* those whose verdict the checkout holds
    requests,  \* the request files of the checkout
    specs,     \* specs[e]: what the factory file says of e
    job,       \* job[p]: what the process p is doing
    manifest,  \* manifest[g]: what g was last rendered, or provisioned, from
    syncs,     \* how many were begun
    changes    \* how often the register or the factory was changed

vars == <<cache, now, origin, checkout, revision, answered, verdicts, requests,
          specs, job, manifest, syncs, changes>>

world == <<cache, origin, answered, revision, syncs, changes>>

-----------------------------------------------------------------------------
Verdicts == {"reached", "not-reached", "unknown"}

Kinds == {"admission", "open-track", "upgrade"}

Request == [entry : Entry, kind : Kinds, at : 1..MaxTime]

\* The entries that are rendered, or provisioned, together.
Groups == {"tool", "language"}
GroupOf(e) == IF e \in Tool THEN "tool" ELSE "language"
Of(g) == {e \in Entry : GroupOf(e) = g}

Versions == {0} \cup {t.current : t \in Records} \cup {s.pin : s \in Specs}
                \cup {s.version : s \in Specs}

Job == [pc : {"idle", "next", "look", "file", "gate", "prune"},
        head : BOOLEAN, prune : BOOLEAN, pinned : BOOLEAN,
        specs : Declarations, todo : SUBSET Entry, seen : SUBSET Request,
        entry : Entry, track : TrackNames \cup {NoVersion},
        found : Records \cup {Absent}, kind : Kinds,
        out : [Entry -> Versions], missing : SUBSET Entry, dead : SUBSET Entry]

Idle == [pc |-> "idle", head |-> FALSE, prune |-> FALSE, pinned |-> FALSE,
         specs |-> CHOOSE d \in Declarations : TRUE, todo |-> {}, seen |-> {},
         entry |-> CHOOSE e \in Entry : TRUE, track |-> NoVersion,
         found |-> Absent, kind |-> "admission",
         out |-> [e \in Entry |-> 0], missing |-> {}, dead |-> {}]

\* What a group was rendered from.
Bases(g) == [pinned : BOOLEAN, specs : [Of(g) -> Specs], out : [Of(g) -> Versions]]

\* The type of every variable, and the bounds of the counters.
TypeOK ==
    /\ cache \in BOOLEAN /\ now \in 1..MaxTime
    /\ {origin, checkout, revision} \subseteq Index
    /\ verdicts \subseteq Request /\ answered \subseteq Request
    /\ requests \subseteq Request
    /\ specs \in Declarations
    /\ job \in [Process -> Job]
    /\ \A g \in DOMAIN manifest : manifest[g] \in Bases(g) \cup {<<>>}
    /\ DOMAIN manifest = Groups
    /\ syncs \in 0..MaxSyncs /\ changes \in 0..MaxChanges

Init ==
    /\ cache \in BOOLEAN
    /\ now = 1
    /\ \E start \in Starts :
           origin = [e \in Entry |-> [n \in TrackNames |-> IF n = Names[1] THEN start[e]
                                                           ELSE Absent]]
    /\ checkout = origin
    /\ revision = origin
    /\ answered = {} /\ verdicts = {} /\ requests = {}
    /\ specs \in Declarations
    /\ job = [p \in Process |-> Idle]
    /\ manifest = [g \in Groups |-> <<>>]
    /\ syncs = 0 /\ changes = 0

-----------------------------------------------------------------------------
(* The register and the person. *)

Tick ==
    /\ now < MaxTime
    /\ now' = now + 1
    /\ UNCHANGED <<cache, origin, checkout, revision, answered, verdicts, requests,
                   specs, job, manifest, syncs, changes>>

\* The pipeline opens a track or publishes what it measured on one.
Publish ==
    \E e \in Entry, n \in TrackNames, t \in Records :
        /\ changes < MaxChanges
        /\ origin[e][n] # t
        /\ origin' = [origin EXCEPT ![e][n] = t]
        /\ changes' = changes + 1
        /\ UNCHANGED <<cache, now, checkout, revision, answered, verdicts, requests,
                       specs, job, manifest, syncs>>

\* It answers a request by hand of a publication, or refuses it.
Answer ==
    \E r \in requests \ answered :
        /\ r.at < now
        /\ answered' = answered \cup {r}
        /\ UNCHANGED <<cache, now, origin, checkout, revision, verdicts, requests,
                       specs, job, manifest, syncs, changes>>

Pull ==
    /\ <<checkout, verdicts>> # <<origin, answered>>
    /\ checkout' = origin
    /\ verdicts' = answered
    /\ UNCHANGED <<cache, now, origin, revision, answered, requests, specs, job,
                   manifest, syncs, changes>>

EditFactory ==
    \E e \in Entry : \E s \in May(e) \ {specs[e]} :
        /\ changes < MaxChanges
        /\ specs' = [specs EXCEPT ![e] = s]
        /\ changes' = changes + 1
        /\ UNCHANGED <<cache, now, origin, checkout, revision, answered, verdicts,
                       requests, job, manifest, syncs>>

-----------------------------------------------------------------------------
(* A sync. *)

\* load: the factory is read once, and --register-head drops its revision.
Begin(p) ==
    /\ job[p].pc = "idle" /\ syncs < MaxSyncs
    /\ syncs' = syncs + 1
    /\ \E head \in Heads :
           job' = [job EXCEPT ![p] = [Idle EXCEPT
               !.pc = "next", !.head = head, !.prune = TRUE, !.pinned = ~head,
               !.specs = specs, !.todo = Entry, !.seen = verdicts]]
    /\ UNCHANGED <<cache, now, origin, checkout, revision, answered, verdicts, requests,
                   specs, manifest, changes>>

\* Faulty: the checkout, whatever revision the factory names.
ViewCheckout(p) == checkout

\* The index an entry is read from, and the prefixes of its tracks in it.
View(p) == IF job[p].pinned THEN revision ELSE checkout
TracksOf(index, e) == {n \in TrackNames : index[e][n] # Absent}

\* An entry without a track of its own gets the highest (defaultTrack).
TrackOf(index, e, s) == IF s.track # NoVersion THEN s.track ELSE Highest(Names, TracksOf(index, e))

\* The track's file, which need not be there.
Read(index, e, track) == IF track \in DOMAIN index[e] THEN index[e][track] ELSE Absent

SpecOf(p) == job[p].specs[job[p].entry]

Goes(p, pc) == job' = [job EXCEPT ![p].pc = pc]

\* The error is printed, and the process ends.
Fail(p) == job' = [job EXCEPT ![p] = Idle]

\* An entry that is done with leaves nothing to the next one.
Done(j, e) ==
    [j EXCEPT !.pc = "next", !.todo = @ \ {e}, !.entry = Idle.entry, !.track = NoVersion,
              !.found = Absent, !.kind = Idle.kind]

Misses(j, e) == [Done(j, e) EXCEPT !.missing = @ \cup {e}]

\* An entry without an answer: a real checkout is asked for it.
Missing(p, e, kind) ==
    job' = [job EXCEPT ![p] =
        IF cache THEN Misses(@, e)
        ELSE [@ EXCEPT !.pc = "look", !.entry = e, !.kind = kind]]

\* track and applyPin: a soft pin that leads asks for the upgrade that retires it.
Found(p, e, track) ==
    LET t == Read(View(p), e, track)
        s == job[p].specs[e]
        asks == PinLeads(s, t) /\ ~cache
    IN  IF t = Absent
        THEN Missing(p, e, IF TracksOf(View(p), e) = {} THEN "admission" ELSE "open-track")
        ELSE IF ~Readable(t) \/ PinExpired(s, now) THEN Fail(p)
        ELSE job' = [job EXCEPT ![p] = [job[p] EXCEPT
                 !.pc = IF asks THEN "look" ELSE "gate",
                 !.kind = IF asks THEN "upgrade" ELSE job[p].kind,
                 !.entry = e, !.track = track, !.found = t,
                 !.dead = job[p].dead \cup IF PinDead(s, t) THEN {e} ELSE {}]]

\* The toolchain's entries come first.  A verbatim version is its own answer.
Take(p) ==
    /\ job[p].pc = "next"
    /\ \E e \in job[p].todo :
           /\ e \notin Tool => job[p].todo \cap Tool = {}
           /\ LET s == job[p].specs[e]
                  track == TrackOf(View(p), e, s)
              IN  IF ~FromRegister(s)
                  THEN job' = [job EXCEPT ![p] = [Done(@, e) EXCEPT !.out[e] = s.version]]
                  ELSE IF track = NoVersion THEN Missing(p, e, "admission")
                  ELSE Found(p, e, track)
    /\ UNCHANGED <<now, checkout, verdicts, requests, specs, manifest, world>>

\* Faulty: only a request of the same kind is looked for.
OpenOfKind(p) == {r \in requests \ verdicts : r.entry = job[p].entry /\ r.kind = job[p].kind}

\* Faulty: a request that was answered still counts.
OpenEver(p) == {r \in requests : r.entry = job[p].entry}

\* openRequest: any request for the package without a verdict of its name.
Open(p) == {r \in requests \ verdicts : r.entry = job[p].entry}

\* After its request, an entry that leads goes on and one that is missing waits.
Asked(p) ==
    job' = [job EXCEPT ![p] =
        IF @.kind = "upgrade" THEN [@ EXCEPT !.pc = "gate"] ELSE Misses(@, @.entry)]

Look(p) ==
    /\ job[p].pc = "look"
    /\ IF Open(p) = {} THEN Goes(p, "file") ELSE Asked(p)
    /\ UNCHANGED <<now, checkout, verdicts, requests, specs, manifest, world>>

\* fileRequest.
File(p) ==
    /\ job[p].pc = "file"
    /\ requests' = requests \cup
           {[entry |-> job[p].entry, kind |-> job[p].kind, at |-> now]}
    /\ Asked(p)
    /\ UNCHANGED <<now, checkout, verdicts, specs, manifest, world>>

\* Faulty: a hard pin is taken at its word.
RefusedUnpinned(p) ==
    /\ SpecOf(p).mode # "hard"
    /\ \/ GateRefuses(job[p].found, SpecOf(p).acks, now)
       \/ DeprecationRefuses(job[p].found, Grace, now)

\* The gate and the grace judge the track's record, whatever the pin chose.
Refused(p) ==
    \/ GateRefuses(job[p].found, SpecOf(p).acks, now)
    \/ DeprecationRefuses(job[p].found, Grace, now)

Gate(p) ==
    /\ job[p].pc = "gate"
    /\ IF Refused(p) THEN Fail(p)
       ELSE job' = [job EXCEPT ![p] =
                [Done(@, @.entry) EXCEPT !.out[job[p].entry] = Resolved(SpecOf(p), job[p].found)]]
    /\ UNCHANGED <<now, checkout, verdicts, requests, specs, manifest, world>>

-----------------------------------------------------------------------------
(* What a sync leaves. *)

From(p, g) ==
    [pinned |-> job[p].pinned, specs |-> Restrict(job[p].specs, Of(g)),
     out |-> Restrict(job[p].out, Of(g))]

Complete(p, g) == Of(g) \cap job[p].missing = {}

\* A language with an entry missing is left as it was, and a sync with any
\* entry missing fails before it provisions the toolchain.
Rendered(p) == {g \in Groups : job[p].missing = {} \/ (g = "language" /\ Complete(p, g))}

Finish(p) ==
    /\ job[p].pc = "next" /\ job[p].todo = {}
    /\ \E prune \in {FALSE, job[p].prune} :
           job' = [job EXCEPT ![p] =
               IF prune /\ @.missing = {} /\ @.dead # {}
               THEN [Idle EXCEPT !.pc = "prune", !.head = job[p].head, !.dead = job[p].dead]
               ELSE Idle]
    /\ manifest' = [g \in Groups |-> IF g \in Rendered(p) THEN From(p, g) ELSE manifest[g]]
    /\ UNCHANGED <<now, checkout, verdicts, requests, specs, world>>

\* pruneDeadPins: the file, as it is by now, loses the pins the notes named,
\* and is parsed again for a second sync: at the revision it names.
Prune(p) ==
    /\ job[p].pc = "prune"
    /\ specs' = [e \in Entry |-> IF e \in job[p].dead THEN Pruned(specs[e]) ELSE specs[e]]
    /\ job' = [job EXCEPT ![p] = [Idle EXCEPT
           !.pc = "next", !.head = job[p].head, !.pinned = TRUE,
           !.specs = specs', !.todo = Entry, !.seen = verdicts]]
    /\ UNCHANGED <<now, checkout, verdicts, requests, manifest, world>>

Step(p) ==
    \/ Take(p) \/ Look(p) \/ File(p) \/ Gate(p) \/ Finish(p) \/ Prune(p)

Next ==
    \/ Tick \/ Publish \/ Answer \/ Pull \/ EditFactory
    \/ \E p \in Process : Begin(p) \/ Step(p)

Spec == Init /\ [][Next]_vars

-----------------------------------------------------------------------------
(* Properties. *)

\* A missing package is asked for: a sync that reports an entry missing leaves
\* a request for it that the register had not answered when the sync began.
MissIsAsked ==
    ~cache => \A p \in Process : \A e \in job[p].missing :
        \E r \in requests \ job[p].seen : r.entry = e

\* Requests do not pile up: whatever the kinds asked for and the number of
\* syncs, no more stand open for a package than processes asked at one moment.
FewRequests ==
    \A e \in Entry :
        Cardinality({r \in requests \ verdicts : r.entry = e})
            + Cardinality({p \in Process : job[p].pc = "file" /\ job[p].entry = e})
            <= Cardinality(Process)

\* A cache's copy of the register is written to by no path: a request there
\* would reach nobody.
CacheUntouched == cache => requests = {}

\* A record that names findings, or says it has some, resolves only while each
\* of them is acknowledged; a deprecated one only through the grace or with
\* findings that have no fix.
Safe(t, s) ==
    /\ t.outcome = "findings" \/ t.named => t.ids # {}
    /\ t.named => \A id \in t.ids : \E ack \in s.acks :
           ack.id = id /\ (ack.until # 0 => now <= ack.until + Day)
    /\ Deprecated(t) /\ now - t.since > Grace => t.deprecated = "no-fix" /\ t.ids # {}

SafelyResolved(p, e) ==
    /\ job'[p].out[e] \notin {0, job[p].out[e]}
    /\ FromRegister(job[p].specs[e])
    => Safe(job[p].found, job[p].specs[e])

\* A hard pin is over when the day it names begins.
StillPinned(s) == s.mode = "hard" /\ s.expires # 0 => ~(now > s.expires)

LookedUpPinned(p, e) ==
    /\ job[p].pc = "next" /\ job'[p].pc \in {"look", "gate"}
    /\ job'[p].found # Absent /\ job'[p].entry = e
    => StillPinned(job[p].specs[e])

\* Whatever a pin chose, the record it was measured against is safe; and no entry
\* goes on to its version by a hard pin that was over when it was looked up.
GateHolds ==
    [][\A p \in Process, e \in Entry : SafelyResolved(p, e) /\ LookedUpPinned(p, e)]_vars

\* At a pinned revision a later sync of the same factory, or of the one whose
\* dead pins were pruned, renders the same versions, whatever was pulled.
Followed(e, s) == Read(revision, e, TrackOf(revision, e, s))

SameButDead(a, b) ==
    \A e \in DOMAIN a : \/ b[e] = a[e]
                       \/ /\ b[e] = Pruned(a[e])
                          /\ PinDead(a[e], Followed(e, a[e]))

PinnedIsStable ==
    [][\A g \in Groups :
         /\ manifest[g] # <<>> /\ manifest'[g] # manifest[g]
         /\ manifest[g].pinned /\ manifest'[g].pinned
         /\ SameButDead(manifest[g].specs, manifest'[g].specs)
         => \A e \in Of(g) : manifest'[g].out[e] = manifest[g].out[e]]_vars

\* An entry without a track of its own follows the highest one, in the order of
\* versions and not in that of a listing.
FollowsHighest ==
    [][\A p \in Process : job[p].pc = "next" /\ job'[p].pc \in {"look", "gate"} /\ job'[p].found # Absent
             /\ job[p].specs[job'[p].entry].track = NoVersion =>
         \A i, j \in DOMAIN Ranks :
             i < j /\ job'[p].track = Ranks[i] => View(p)[job'[p].entry][Ranks[j]] = Absent]_vars

\* A refusal shows the way out: acknowledging what its report lists lets the
\* record through, whatever the reachability engine answered and though it may
\* have called all of it unreached; and removing the acknowledgements that a
\* resolution calls dead refuses nothing it let through.
ReportSettles ==
    \A p \in Process : job[p].pc = "gate" =>
        LET t == job[p].found
            acks == SpecOf(p).acks
        IN  IF GateRefuses(t, acks, now)
            THEN ~Contradicts(t) =>
                 \A dirs \in {{}, {"member"}} : \A answers \in [t.ids -> Verdicts] :
                     LET report == Report(t, acks, now, dirs, answers)
                     IN  /\ ~GateRefuses(t, Accepting(acks, report.accept), now)
                         /\ DOMAIN report.lines \subseteq report.accept
            ELSE ~GateRefuses(t, acks \ Notes(t, acks).dead, now)
=============================================================================
