------------------------------- MODULE Advice -------------------------------
(***************************************************************************)
(* What a sync says about the findings of a dependency, whether it goes on *)
(* or stops: the notes, and the report that lists the ways past the gate   *)
(* (resolvecontroller's advisoryGate, reachability).                       *)
(*                                                                         *)
(* The reachability engine is a subprocess: answers is what it said of     *)
(* some ids, and empty when it is missing, hung, or not to be understood.  *)
(***************************************************************************)
EXTENDS Tracks

\* A package nothing was asked about, or nothing could be.
Unmeasured(t) == t.outcome \in {"proof", "not-found", "unreachable"}

Named(acks) == {ack.id : ack \in acks}

Expired(t, acks, now) == Unaccepted(t, acks, now) \cap Named(acks)
Unacknowledged(t, acks) == t.ids \ Named(acks)

\* deadAcknowledgements: those of ids the register no longer reports.
Dead(t, acks) == {ack \in acks : ack.id \notin t.ids}

\* The notes of an entry the gate lets through.
Notes(t, acks) ==
    [unmeasured |-> Unmeasured(t), dead |-> Dead(t, acks)]

\* reachability.lines: the engine speaks only of what it was asked, and is not
\* asked without a module to read and a scope to look for.
Lines(dirs, ids, imports, answers) ==
    IF dirs = {} \/ ids = {} \/ imports = {} THEN <<>>
    ELSE Restrict(answers, {id \in DOMAIN answers \cap ids :
                               answers[id] \in {"reached", "not-reached"}})

\* Faulty: only what was never acknowledged is listed.
ReportUnacknowledged(t, acks, now, dirs, answers) ==
    [lines |-> Lines(dirs, Unacknowledged(t, acks), t.imports, answers),
     accept |-> Unacknowledged(t, acks)]

\* Of a record that contradicts itself the report is another: nothing to accept.
Report(t, acks, now, dirs, answers) ==
    [lines |-> Lines(dirs, Unacknowledged(t, acks), t.imports, answers),
     accept |-> Unacknowledged(t, acks) \cup Expired(t, acks, now)]

\* The factory once its person did as told; an id is acknowledged once.
Accepting(acks, ids) ==
    {ack \in acks : ack.id \notin ids} \cup {[id |-> id, until |-> 0] : id \in ids}
=============================================================================
