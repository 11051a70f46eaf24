------------------------------- MODULE Tracks -------------------------------
(***************************************************************************)
(* What a register's track and a factory's entry for a dependency come to: *)
(* pins, the advisory gate, deprecation and the order of versions, as      *)
(* operators (resolvecontroller's applyPin, advisoryGate, deprecationNote, *)
(* compareVersions).                                                       *)
(*                                                                         *)
(* A track t: the current version, the outcome of its measurement, whether *)
(* vulnerabilities are counted, whether it has an advisory (named) and the *)
(* ids that one names, why and since when it is deprecated.  An entry s:   *)
(* a version of its own or 0 for the register's, the track it asks for or  *)
(* 0, a pin or 0 with its mode and expiry, and the acknowledged ids.       *)
(* Times are half days from 1, dates are their midnight; 0 is no date.     *)
(***************************************************************************)
EXTENDS Integers, SequencesExt

Day == 2

Absent == [current |-> 0, outcome |-> "absent", counted |-> FALSE, named |-> FALSE,
           ids |-> {}, imports |-> {}, deprecated |-> "no", since |-> 0]

\* An outcome the reader knows, or none on a record with a provenance.
Readable(t) == t.outcome \in {"findings", "clean", "not-found", "unreachable", "proof"}

-----------------------------------------------------------------------------
(* The advisory gate. *)

\* A record whose own fields disagree.
Contradicts(t) ==
    \/ t.outcome = "findings" /\ (~t.named \/ ~t.counted)
    \/ t.named /\ t.ids = {}
    \/ t.outcome = "clean" /\ t.counted

\* An acknowledgement holds through the day it names.
Holds(ack, now) == ack.until = 0 \/ now <= ack.until + Day

Unaccepted(t, acks, now) ==
    {id \in t.ids : ~\E ack \in acks : ack.id = id /\ Holds(ack, now)}

GateRefuses(t, acks, now) ==
    Contradicts(t) \/ (t.named /\ Unaccepted(t, acks, now) # {})

-----------------------------------------------------------------------------
(* Deprecation. *)

Deprecated(t) == t.deprecated # "no"

\* A package without a fix resolves past the grace for whoever acknowledged it.
DeprecationRefuses(t, grace, now) ==
    /\ Deprecated(t)
    /\ now - t.since > grace
    /\ ~(t.deprecated = "no-fix" /\ t.named /\ t.ids # {})

-----------------------------------------------------------------------------
(* Pins. *)

FromRegister(s) == s.version = 0

\* Faulty: a pin holds through the day it names, as an acknowledgement does.
PinExpiredLate(s, now) == s.mode = "hard" /\ s.expires # 0 /\ now > s.expires + Day

PinExpired(s, now) == s.mode = "hard" /\ s.expires # 0 /\ now > s.expires

\* A soft pin ahead of its track leads, and one that is not is dead.
PinLeads(s, t) == s.mode = "soft" /\ s.pin > t.current
PinDead(s, t) == s.mode = "soft" /\ s.pin <= t.current

Resolved(s, t) == IF s.mode = "hard" \/ PinLeads(s, t) THEN s.pin ELSE t.current

\* Faulty: the line of the mode stays.
PrunedHalf(s) == [s EXCEPT !.pin = 0]

\* PrunePins: the pin goes, and the track and the acknowledgements stay.
Pruned(s) == [s EXCEPT !.pin = 0, !.mode = "none", !.expires = 0]

-----------------------------------------------------------------------------
(* The order of versions, and the track it picks.  A version is the numbers *)
(* between its dots and its prerelease, 0 for a release; a version that is  *)
(* not there is NoVersion.                                                  *)

NoVersion == [numbers |-> <<>>, pre |-> 0]

\* Missing numbers are zeros.
Number(v, i) == IF i <= Len(v.numbers) THEN v.numbers[i] ELSE 0

Differ(a, b) == {i \in DOMAIN a.numbers \cup DOMAIN b.numbers : Number(a, i) # Number(b, i)}

\* compareVersions(a, b) < 0: the first number that differs decides, then the
\* prerelease, a release being the last of its numbers.
Before(a, b) ==
    IF Differ(a, b) # {}
    THEN LET i == CHOOSE i \in Differ(a, b) : \A j \in Differ(a, b) : i <= j
         IN  Number(a, i) < Number(b, i)
    ELSE a.pre # 0 /\ (b.pre = 0 \/ a.pre < b.pre)

\* A version that can be compared.
IsVersion(v) == v.numbers \in Seq(Nat) /\ v.pre \in Nat

\* Faulty: as internalCurrent of a remote run does, names are compared as text, so the last of a listing.
LastListed(names, there) ==
    Last(<<NoVersion>> \o SelectSeq(names, LAMBDA n : n \in there))

\* defaultTrack: of the names, in the order of their text, the highest that is
\* there, the first of equal ones.
Highest(names, there) ==
    LET best[i \in 0..Len(names)] ==
            IF i = 0 THEN NoVersion
            ELSE IF names[i] \in there
                    /\ (best[i - 1] = NoVersion \/ Before(best[i - 1], names[i]))
            THEN names[i]
            ELSE best[i - 1]
    IN  best[Len(names)]
=============================================================================
