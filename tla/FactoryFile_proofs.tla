------------------------- MODULE FactoryFile_proofs -------------------------
(***************************************************************************)
(* What an edit of forge-factory.yaml leaves of what the file says.        *)
(***************************************************************************)
EXTENDS FactoryFile, SequenceTheorems, FiniteSetTheorems, WellFoundedInduction, TLAPS

-----------------------------------------------------------------------------
(* First and last lines. *)

\* Natural numbers have a least one, as the finite sets below them have.
LEMMA LeastNatural ==
    ASSUME NEW S \in SUBSET Nat, S # {}
    PROVE  \E x \in S : \A y \in S : x <= y
<1> DEFINE Below(x) == {y \in Nat : y < x}
           T == {Below(x) : x \in S}
<1>1. \A x \in S : Below(x) \in FiniteSubsetsOf(Nat)
  <2> TAKE x \in S
  <2>1. Below(x) \in SUBSET (0..x)
    OBVIOUS
  <2>2. IsFiniteSet(0..x)
    BY FS_Interval
  <2> QED
    BY <2>1, <2>2, FS_Subset DEF FiniteSubsetsOf
<1>2. T \subseteq FiniteSubsetsOf(Nat) /\ T # {}
  BY <1>1
<1>3. PICK t \in T : \A u \in T : <<u, t>> \notin StrictSubsetOrdering(Nat)
  <2> HIDE DEF T
  <2> QED
    BY <1>2, WFMin, FS_StrictSubsetOrderingWellFounded
<1>4. PICK x \in S : t = Below(x)
  OBVIOUS
<1>5. ASSUME NEW y \in S, y < x PROVE FALSE
  <2>1. Below(y) \in SUBSET Nat /\ Below(x) \in SUBSET Nat
    OBVIOUS
  <2>2. y \in Below(x) /\ y \notin Below(y)
    BY <1>5
  <2>3. Below(y) \subseteq Below(x)
    BY <1>5
  <2>4. <<Below(y), Below(x)>> \in StrictSubsetOrdering(Nat)
    <3> HIDE DEF Below
    <3> QED
      BY <2>1, <2>2, <2>3 DEF StrictSubsetOrdering
  <2> QED
    BY <1>3, <1>4, <2>4
<1> QED
  BY <1>5

LEMMA Least ==
    ASSUME NEW S \in SUBSET Nat, S # {}
    PROVE  Min(S) \in S /\ \A y \in S : Min(S) <= y
BY LeastNatural DEF Min

LEMMA Greatest ==
    ASSUME NEW n \in Nat, NEW S \in SUBSET (0..n), S # {}
    PROVE  Max(S) \in S /\ \A y \in S : Max(S) >= y
<1> DEFINE T == {n - x : x \in S}
<1>1. T \in SUBSET Nat /\ T # {}
  <2>1. \A x \in S : x \in Int /\ 0 <= x /\ x <= n
    OBVIOUS
  <2>2. \A x \in S : n - x \in Nat
    BY <2>1
  <2> QED
    BY <2>2
<1>2. PICK t \in T : \A u \in T : t <= u
  BY <1>1, LeastNatural
<1>3. PICK x \in S : t = n - x
  OBVIOUS
<1>4. \A y \in S : x >= y
  BY <1>2, <1>3
<1> QED
  BY <1>4 DEF Max

\* The last line before i is one of them.
LEMMA LastBeforeIn ==
    ASSUME NEW f, NEW i \in Nat, NEW at, LastBefore(f, i, at) # 0
    PROVE  /\ LastBefore(f, i, at) \in 1..(i - 1)
           /\ f[LastBefore(f, i, at)].at = at
           /\ \A j \in 1..(i - 1) : f[j].at = at => j <= LastBefore(f, i, at)
<1> DEFINE S == {j \in 1..(i - 1) : f[j].at = at}
<1>1. S \in SUBSET (0..i)
  OBVIOUS
<1>2. S # {} /\ LastBefore(f, i, at) = Max(S)
  BY DEF LastBefore
<1>3. Max(S) \in S /\ \A y \in S : Max(S) >= y
  BY <1>1, <1>2, Greatest
<1> QED
  BY <1>2, <1>3

LEMMA LastBeforeType ==
    ASSUME NEW f, NEW i \in Nat, NEW at
    PROVE  LastBefore(f, i, at) \in Nat
<1>1. CASE LastBefore(f, i, at) # 0
  <2>1. LastBefore(f, i, at) \in 1..(i - 1)
    BY <1>1, LastBeforeIn
  <2> QED
    BY <2>1
<1> QED
  BY <1>1

\* There is none only where it says that there is none.
LEMMA LastBeforeNone ==
    ASSUME NEW f, NEW i \in Nat, NEW at, LastBefore(f, i, at) = 0
    PROVE  \A j \in 1..(i - 1) : f[j].at # at
<1> DEFINE S == {j \in 1..(i - 1) : f[j].at = at}
<1>1. ASSUME S # {} PROVE FALSE
  <2>1. S \in SUBSET (0..i)
    OBVIOUS
  <2>2. LastBefore(f, i, at) = Max(S)
    BY <1>1 DEF LastBefore
  <2>3. Max(S) \in S
    BY <1>1, <2>1, Greatest
  <2> QED
    BY <2>2, <2>3
<1> QED
  BY <1>1

-----------------------------------------------------------------------------
(* An edit that rewrites lines of dependencies. *)

\* g has the lines of f, but for the values of dependencies.
Rewrites(f, g) ==
    /\ DOMAIN g = DOMAIN f
    /\ \A i \in DOMAIN f : /\ g[i].at = f[i].at /\ g[i].name = f[i].name
                           /\ f[i].at # "dep" => g[i] = f[i]

LEMMA RewriteKeepsPlaces ==
    ASSUME NEW f, NEW n \in Nat, DOMAIN f = 1..n, NEW g, Rewrites(f, g), NEW i \in DOMAIN f
    PROVE  /\ SectionOf(g, i) = SectionOf(f, i)
           /\ LanguageOf(g, i) = LanguageOf(f, i)
<1>1. \A j \in 1..(i - 1) : j \in DOMAIN f /\ g[j].at = f[j].at /\ g[j].name = f[j].name
  BY DEF Rewrites
<1>2. \A at : {j \in 1..(i - 1) : g[j].at = at} = {j \in 1..(i - 1) : f[j].at = at}
  BY <1>1
<1>3. \A at : LastBefore(g, i, at) = LastBefore(f, i, at)
  BY <1>2 DEF LastBefore
<1>4. \A at : LastBefore(f, i, at) # 0
              => g[LastBefore(f, i, at)].name = f[LastBefore(f, i, at)].name
  BY <1>1, LastBeforeIn
<1> DEFINE top == LastBefore(f, i, "top")
           language == LastBefore(f, i, "language")
<1>5. top \in Nat /\ language \in Nat
  BY LastBeforeType
<1>6. /\ LastBefore(g, i, "top") = top /\ LastBefore(g, i, "language") = language
      /\ top # 0 => g[top].name = f[top].name
      /\ language # 0 => g[language].name = f[language].name
  BY <1>3, <1>4
<1>7. SectionOf(g, i) = SectionOf(f, i)
  BY <1>6 DEF SectionOf
<1>8. LanguageOf(g, i) = LanguageOf(f, i)
  <2>1. CASE language <= top
    BY <1>6, <2>1 DEF LanguageOf
  <2>2. CASE ~(language <= top)
    <3>1. language # 0
      BY <1>5, <2>2
    <3> QED
      BY <1>6, <2>2, <3>1 DEF LanguageOf
  <2> QED
    BY <2>1, <2>2
<1> QED
  BY <1>7, <1>8

\* Such an edit leaves the members alone.
LEMMA RewriteKeepsMembers ==
    ASSUME NEW f, NEW n \in Nat, DOMAIN f = 1..n, NEW g, Rewrites(f, g)
    PROVE  ItemsOf(g) = ItemsOf(f) /\ MembersOf(g) = MembersOf(f) /\ (Valid(f) => Valid(g))
<1>1. \A i \in DOMAIN f : SectionOf(g, i) = SectionOf(f, i)
  BY RewriteKeepsPlaces
<1>2. ItemsOf(g) = ItemsOf(f)
  BY <1>1 DEF ItemsOf, Rewrites
<1>3. \A i \in ItemsOf(f) : g[i].name = f[i].name
  BY DEF ItemsOf, Rewrites
<1>4. MembersOf(g) = MembersOf(f)
  BY <1>2, <1>3 DEF MembersOf
<1>5. Valid(f) => Valid(g)
  BY <1>2, <1>3 DEF Valid
<1> QED
  BY <1>2, <1>4, <1>5

LEMMA BumpRewrites ==
    ASSUME NEW f, NEW language, NEW name, NEW value
    PROVE  Rewrites(f, Bumped(f, language, name, value))
BY DEF Rewrites, Bumped, BumpMatches, Line

Sections == {"dependencies", "devDependencies"}

\* What a prune looks for, it finds, if either section has it.
LEMMA DepIsFound ==
    ASSUME NEW f, NEW n \in Nat, DOMAIN f = 1..n, NEW language, NEW name,
           DepLines(f, language, name) # {}
    PROVE  LET i == FindDep(f, language, name)
           IN  /\ i \in DOMAIN f /\ f[i].at = "dep" /\ SectionOf(f, i) \in Sections
               /\ LanguageOf(f, i) = language /\ f[i].name = name
<1>1. DepLines(f, language, name) \in SUBSET Nat
  BY DEF DepLines
<1>2. Min(DepLines(f, language, name)) \in DepLines(f, language, name)
  BY <1>1, Least
<1> QED
  BY <1>2 DEF FindDep, DepLines, Sections

LEMMA PruneRewrites ==
    ASSUME NEW f, NEW n \in Nat, DOMAIN f = 1..n, NEW dead, CanPrune(f, dead)
    PROVE  Rewrites(f, Pruned(f, dead))
<1>1. \A d \in dead : f[FindDep(f, d.language, d.name)].at = "dep"
  BY DepIsFound DEF CanPrune
<1> QED
  BY <1>1 DEF Rewrites, Pruned, Line

\* A pruned pin leaves a version that was declared under one of its name.
LEMMA UnpinnedValue ==
    ASSUME NEW f, NEW i \in DOMAIN f, f[i].at = "dep", SectionOf(f, i) \in Sections
    PROVE  \E section \in Sections : \E d \in DepsIn(f, section) :
               /\ d.language = LanguageOf(f, i) /\ d.name = f[i].name
               /\ Unpinned(f, LanguageOf(f, i), f[i].name) = Version(d.value)
               /\ section \in {SectionOf(f, i), "dependencies"}
<1> DEFINE In(section) ==
        {d \in DepsIn(f, section) : d.language = LanguageOf(f, i) /\ d.name = f[i].name}
           entry == IF In("dependencies") # {} THEN In("dependencies") ELSE In("devDependencies")
<1>1. PICK section \in Sections : SectionOf(f, i) = section
  OBVIOUS
<1>2. [language |-> LanguageOf(f, i), name |-> f[i].name, value |-> f[i].value] \in In(section)
  BY <1>1 DEF DepsIn
<1>3. entry # {}
  BY <1>2 DEF Sections
<1>4. (CHOOSE d \in entry : TRUE) \in entry
  BY <1>3
<1>5. Unpinned(f, LanguageOf(f, i), f[i].name) = Version((CHOOSE d \in entry : TRUE).value)
  BY DEF Unpinned
<1>6. PICK d \in entry : Unpinned(f, LanguageOf(f, i), f[i].name) = Version(d.value)
  BY <1>4, <1>5
<1>7. \E s \in Sections : d \in In(s) /\ s \in {section, "dependencies"}
  <2>1. CASE In("dependencies") # {}
    BY <2>1 DEF Sections
  <2>2. CASE In("dependencies") = {}
    BY <1>2, <2>2 DEF Sections
  <2> QED
    BY <2>1, <2>2
<1> QED
  BY <1>1, <1>6, <1>7

-----------------------------------------------------------------------------
(* An edit that inserts a line. *)

LEMMA LastBeforeIs ==
    ASSUME NEW f, NEW i \in Nat, NEW at, NEW j \in 1..(i - 1), f[j].at = at,
           \A k \in (j + 1)..(i - 1) : f[k].at # at
    PROVE  LastBefore(f, i, at) = j
<1>1. LastBefore(f, i, at) # 0
  BY LastBeforeNone
<1>2. /\ LastBefore(f, i, at) \in 1..(i - 1)
      /\ f[LastBefore(f, i, at)].at = at
      /\ j <= LastBefore(f, i, at)
  BY <1>1, LastBeforeIn
<1> QED
  BY <1>2

LEMMA LastBeforeIsNone ==
    ASSUME NEW f, NEW i \in Nat, NEW at, \A k \in 1..(i - 1) : f[k].at # at
    PROVE  LastBefore(f, i, at) = 0
BY LastBeforeIn

\* g is f with the line e at k; After is where a line of f is in g.
Inserts(f, n, k, e, g) ==
    /\ DOMAIN f = 1..n /\ DOMAIN g = 1..(n + 1)
    /\ \A i \in 1..n : g[IF i < k THEN i ELSE i + 1] = f[i]
    /\ g[k] = e

After(k, i) == IF i < k THEN i ELSE i + 1

LEMMA InsertAtInserts ==
    ASSUME NEW S, NEW f \in Seq(S), NEW k \in 1..(Len(f) + 1), NEW e \in S
    PROVE  Inserts(f, Len(f), k, e, InsertAt(f, k, e)) /\ InsertAt(f, k, e) \in Seq(S)
<1> DEFINE n == Len(f)
           before == SubSeq(f, 1, k - 1)
           after == SubSeq(f, k, n)
           g == before \o <<e>> \o after
<1>1. n \in Nat /\ DOMAIN f = 1..n /\ \A i \in 1..n : f[i] \in S
  BY LenProperties, ElementOfSeq
<1>2. before \in Seq(S) /\ Len(before) = k - 1 /\ \A i \in 1..(k - 1) : before[i] = f[i]
  <2>1. /\ before \in Seq(S)
        /\ Len(before) = IF 1 <= k - 1 THEN k - 1 - 1 + 1 ELSE 0
        /\ \A i \in 1..(k - 1 - 1 + 1) : before[i] = f[1 + i - 1]
    BY <1>1, SubSeqProperties
  <2> QED
    BY <1>1, <2>1
<1>3. /\ after \in Seq(S) /\ Len(after) = n - k + 1
      /\ \A i \in 1..(n - k + 1) : after[i] = f[k + i - 1]
  <2>1. /\ after \in Seq(S)
        /\ Len(after) = IF k <= n THEN n - k + 1 ELSE 0
        /\ \A i \in 1..(n - k + 1) : after[i] = f[k + i - 1]
    BY <1>1, SubSeqProperties
  <2> QED
    BY <1>1, <2>1
<1>4. <<e>> \in Seq(S) /\ Len(<<e>>) = 1 /\ <<e>>[1] = e
  OBVIOUS
<1> DEFINE head == before \o <<e>>
<1>5. /\ head \in Seq(S) /\ Len(head) = k
      /\ \A i \in 1..k : head[i] = IF i <= k - 1 THEN before[i] ELSE <<e>>[i - (k - 1)]
  <2> HIDE DEF before
  <2>1. /\ head \in Seq(S) /\ Len(head) = Len(before) + Len(<<e>>)
        /\ \A i \in 1..(Len(before) + Len(<<e>>)) :
               head[i] = IF i <= Len(before) THEN before[i] ELSE <<e>>[i - Len(before)]
    BY <1>2, <1>4, ConcatProperties
  <2> QED
    BY <1>1, <1>2, <1>4, <2>1
<1>6. /\ g \in Seq(S) /\ Len(g) = n + 1
      /\ \A i \in 1..(n + 1) : g[i] = IF i <= k THEN head[i] ELSE after[i - k]
  <2> HIDE DEF before, after, head
  <2>1. /\ head \o after \in Seq(S) /\ Len(head \o after) = Len(head) + Len(after)
        /\ \A i \in 1..(Len(head) + Len(after)) :
               (head \o after)[i] = IF i <= Len(head) THEN head[i] ELSE after[i - Len(head)]
    BY <1>3, <1>5, ConcatProperties
  <2>2. g = head \o after
    BY DEF head
  <2>3. Len(head) + Len(after) = n + 1
    BY <1>1, <1>3, <1>5
  <2> QED
    BY <1>5, <2>1, <2>2, <2>3
<1>7. g = InsertAt(f, k, e)
  BY DEF InsertAt
<1>8. DOMAIN g = 1..(n + 1)
  <2> HIDE DEF g
  <2> QED
    BY <1>6, LenProperties
<1> HIDE DEF before, after, head, g
<1>9. g[k] = e
  BY <1>1, <1>4, <1>5, <1>6
<1>10. ASSUME NEW i \in 1..n PROVE g[IF i < k THEN i ELSE i + 1] = f[i]
  <2>1. CASE i < k
    <3>1. i \in 1..k /\ i \in 1..(n + 1) /\ i <= k /\ i <= k - 1 /\ i \in 1..(k - 1)
      BY <1>1, <2>1
    <3>2. g[i] = head[i] /\ head[i] = before[i] /\ before[i] = f[i]
      BY <1>2, <1>5, <1>6, <3>1
    <3> QED
      BY <2>1, <3>2
  <2>2. CASE ~(i < k)
    <3>1. i + 1 \in 1..(n + 1) /\ ~(i + 1 <= k) /\ i + 1 - k \in 1..(n - k + 1)
          /\ k + (i + 1 - k) - 1 = i
      BY <1>1, <2>2
    <3>2. g[i + 1] = after[i + 1 - k] /\ after[i + 1 - k] = f[k + (i + 1 - k) - 1]
      BY <1>3, <1>6, <3>1
    <3> QED
      BY <2>2, <3>1, <3>2
  <2> QED
    BY <2>1, <2>2
<1> QED
  BY <1>1, <1>6, <1>7, <1>8, <1>9, <1>10 DEF Inserts

LEMMA InsertedLine ==
    ASSUME NEW f, NEW n \in Nat, NEW k \in 1..(n + 1), NEW e, NEW g, Inserts(f, n, k, e, g),
           NEW p \in 1..(n + 1)
    PROVE  \/ p < k /\ p \in 1..n /\ g[p] = f[p]
           \/ p = k /\ g[p] = e
           \/ p > k /\ p - 1 \in 1..n /\ g[p] = f[p - 1]
<1>1. \A i \in 1..n : g[IF i < k THEN i ELSE i + 1] = f[i]
  BY DEF Inserts
<1>2. CASE p < k
  BY <1>1, <1>2
<1>3. CASE p = k
  BY <1>3 DEF Inserts
<1>4. CASE p > k
  <2>1. p - 1 \in 1..n /\ ~(p - 1 < k) /\ p - 1 + 1 = p
    BY <1>4
  <2> QED
    BY <1>1, <1>4, <2>1
<1> QED
  BY <1>2, <1>3, <1>4

LEMMA InsertHolds ==
    ASSUME NEW f, NEW n \in Nat, NEW k \in 1..(n + 1), NEW e, NEW g, Inserts(f, n, k, e, g)
    PROVE  \A i \in DOMAIN g : g[i] = e \/ \E j \in DOMAIN f : g[i] = f[j]
<1>1. DOMAIN f = 1..n /\ DOMAIN g = 1..(n + 1)
  BY DEF Inserts
<1>2. \A i \in 1..n : g[IF i < k THEN i ELSE i + 1] = f[i]
  BY DEF Inserts
<1>3. ASSUME NEW i \in 1..(n + 1), i < k PROVE \E j \in 1..n : g[i] = f[j]
  <2>1. i \in 1..n /\ g[i] = f[i]
    BY <1>2, <1>3
  <2> QED
    BY <2>1
<1>4. ASSUME NEW i \in 1..(n + 1), i > k PROVE \E j \in 1..n : g[i] = f[j]
  <2>1. i - 1 \in 1..n /\ ~(i - 1 < k) /\ i - 1 + 1 = i
    BY <1>4
  <2>2. g[i] = f[i - 1]
    BY <1>2, <2>1
  <2> QED
    BY <2>1, <2>2
<1>5. g[k] = e
  BY DEF Inserts
<1> QED
  BY <1>1, <1>3, <1>4, <1>5

LEMMA InsertedBefore ==
    ASSUME NEW f, NEW n \in Nat, NEW k \in 1..(n + 1), NEW e, NEW g, Inserts(f, n, k, e, g),
           NEW i \in 1..n, NEW p \in 1..(After(k, i) - 1)
    PROVE  \/ p < k /\ p \in 1..(i - 1) /\ g[p] = f[p]
           \/ p = k /\ g[p] = e
           \/ p > k /\ p - 1 \in 1..(i - 1) /\ g[p] = f[p - 1]
<1>1. p \in 1..(n + 1)
  BY DEF After
<1>2. p < k => p \in 1..(i - 1)
  BY DEF After
<1>3. p > k => p - 1 \in 1..(i - 1)
  BY DEF After
<1> QED
  BY <1>1, <1>2, <1>3, InsertedLine

\* The last line of a kind before another stays it.
LEMMA InsertMovesLast ==
    ASSUME NEW f, NEW n \in Nat, NEW k \in 1..(n + 1), NEW e, NEW g, Inserts(f, n, k, e, g),
           NEW i \in 1..n, NEW at, e.at # at
    PROVE  LastBefore(g, After(k, i), at) =
               IF LastBefore(f, i, at) = 0 THEN 0 ELSE After(k, LastBefore(f, i, at))
<1> DEFINE h == After(k, i)
           j == LastBefore(f, i, at)
<1>1. h \in Nat /\ h \in 1..(n + 1) /\ h # k
  BY DEF After
<1>2. \A p \in 1..(h - 1) : \/ p < k /\ p \in 1..(i - 1) /\ g[p] = f[p]
                            \/ p = k /\ g[p] = e
                            \/ p > k /\ p - 1 \in 1..(i - 1) /\ g[p] = f[p - 1]
  BY InsertedBefore
<1>3. CASE j = 0
  <2>1. \A p \in 1..(i - 1) : f[p].at # at
    BY <1>3, LastBeforeNone
  <2>2. \A p \in 1..(h - 1) : g[p].at # at
    BY <1>2, <2>1
  <2> QED
    BY <1>1, <1>3, <2>2, LastBeforeIsNone
<1>4. CASE j # 0
  <2>1. /\ j \in 1..(i - 1) /\ f[j].at = at
        /\ \A p \in 1..(i - 1) : f[p].at = at => p <= j
    BY <1>4, LastBeforeIn
  <2> DEFINE t == After(k, j)
  <2>2. t \in 1..(h - 1)
    BY <2>1 DEF After
  <2>3. g[t].at = at
    BY <2>1 DEF After, Inserts
  <2>4. \A p \in (t + 1)..(h - 1) : g[p].at # at
    <3> TAKE p \in (t + 1)..(h - 1)
    <3>1. p \in 1..(h - 1)
      BY <2>2
    <3>2. CASE p < k /\ p \in 1..(i - 1) /\ g[p] = f[p]
      BY <2>1, <3>2 DEF After
    <3>3. CASE p = k /\ g[p] = e
      BY <3>3
    <3>4. CASE p > k /\ p - 1 \in 1..(i - 1) /\ g[p] = f[p - 1]
      <4>1. p - 1 > j
        BY <2>1, <3>4 DEF After
      <4> QED
        BY <2>1, <3>4, <4>1
    <3> QED
      BY <1>2, <3>1, <3>2, <3>3, <3>4
  <2>5. LastBefore(g, h, at) = t
    <3> HIDE DEF t, h
    <3> QED
      BY <1>1, <2>2, <2>3, <2>4, LastBeforeIs
  <2> QED
    BY <1>4, <2>5
<1> QED
  BY <1>3, <1>4

\* A line that opens neither a section nor a language leaves each line in its own.
LEMMA InsertKeepsPlaces ==
    ASSUME NEW f, NEW n \in Nat, NEW k \in 1..(n + 1), NEW e, NEW g, Inserts(f, n, k, e, g),
           e.at \notin {"top", "language"}, NEW i \in 1..n
    PROVE  /\ SectionOf(g, After(k, i)) = SectionOf(f, i)
           /\ LanguageOf(g, After(k, i)) = LanguageOf(f, i)
<1> DEFINE top == LastBefore(f, i, "top")
           language == LastBefore(f, i, "language")
<1>1. top \in 0..n /\ language \in 0..n
  BY LastBeforeIn
<1>2. /\ LastBefore(g, After(k, i), "top") = IF top = 0 THEN 0 ELSE After(k, top)
      /\ LastBefore(g, After(k, i), "language") = IF language = 0 THEN 0 ELSE After(k, language)
  BY InsertMovesLast
<1>3. \A p \in 1..n : g[After(k, p)] = f[p]
  BY DEF Inserts, After
<1>4. SectionOf(g, After(k, i)) = SectionOf(f, i)
  <2>1. CASE top = 0
    BY <1>2, <2>1 DEF SectionOf
  <2>2. CASE top # 0
    <3>1. top \in 1..n
      BY <1>1, <2>2
    <3>2. After(k, top) # 0 /\ g[After(k, top)].name = f[top].name
      BY <1>3, <3>1 DEF After
    <3> QED
      BY <1>2, <2>2, <3>2 DEF SectionOf
  <2> QED
    BY <2>1, <2>2
<1>5. LanguageOf(g, After(k, i)) = LanguageOf(f, i)
  <2>1. LastBefore(g, After(k, i), "language") <= LastBefore(g, After(k, i), "top")
        <=> language <= top
    BY <1>1, <1>2 DEF After
  <2>2. CASE language <= top
    BY <2>1, <2>2 DEF LanguageOf
  <2>3. CASE ~(language <= top)
    <3>1. language \in 1..n /\ language # 0
      BY <1>1, <2>3
    <3>2. g[LastBefore(g, After(k, i), "language")].name = f[language].name
      BY <1>2, <1>3, <3>1
    <3> QED
      BY <2>1, <2>3, <3>2 DEF LanguageOf
  <2> QED
    BY <2>2, <2>3
<1> QED
  BY <1>4, <1>5

\* The lines of repos that Add looks for are those under its first line.
LEMMA RepoLines ==
    ASSUME NEW S, NEW f \in Seq(S), Repos(f) # {}
    PROVE  \E start \in 1..Len(f) :
               /\ f[start].at = "top" /\ f[start].name = "repos"
               /\ LastRepoLine(f) \in start..Len(f)
               /\ \A j \in (start + 1)..LastRepoLine(f) : Indented(f[j])
<1> DEFINE start == Min(Repos(f))
           T == {i \in start..Len(f) : \A j \in (start + 1)..i : Indented(f[j])}
<1>1. Len(f) \in Nat /\ DOMAIN f = 1..Len(f)
  BY LenProperties
<1>2. Repos(f) \in SUBSET Nat
  BY <1>1 DEF Repos
<1>3. start \in Repos(f)
  BY <1>2, Least
<1>4. start \in 1..Len(f) /\ f[start].at = "top" /\ f[start].name = "repos"
  BY <1>1, <1>3 DEF Repos
<1>5. T \in SUBSET (0..Len(f)) /\ start \in T
  <2> HIDE DEF start
  <2> QED
    BY <1>1, <1>4
<1>6. LastRepoLine(f) = Max(T)
  BY DEF LastRepoLine
<1>7. Max(T) \in T
  <2> HIDE DEF T
  <2> QED
    BY <1>1, <1>5, Greatest
<1> QED
  BY <1>4, <1>6, <1>7

LEMMA AddInserts ==
    ASSUME NEW S, NEW f \in Seq(S), NEW name, Line("item", name, 0) \in S, Repos(f) # {}
    PROVE  /\ LastRepoLine(f) + 1 \in 1..(Len(f) + 1)
           /\ Inserts(f, Len(f), LastRepoLine(f) + 1, Line("item", name, 0), Added(f, name))
           /\ Added(f, name) \in Seq(S)
<1>1. LastRepoLine(f) + 1 \in 1..(Len(f) + 1)
  BY RepoLines, LenProperties
<1> QED
  BY <1>1, InsertAtInserts DEF Added

LEMMA AddIsInRepos ==
    ASSUME NEW S, NEW f \in Seq(S), NEW name, Line("item", name, 0) \in S, Repos(f) # {}
    PROVE  SectionOf(Added(f, name), LastRepoLine(f) + 1) = "repos"
<1> DEFINE n == Len(f)
           k == LastRepoLine(f) + 1
           e == Line("item", name, 0)
           g == Added(f, name)
<1>1. n \in Nat /\ k \in 1..(n + 1) /\ Inserts(f, n, k, e, g)
  BY AddInserts, LenProperties
<1>2. PICK start \in 1..n :
          /\ f[start].at = "top" /\ f[start].name = "repos"
          /\ LastRepoLine(f) \in start..n
          /\ \A j \in (start + 1)..LastRepoLine(f) : Indented(f[j])
  BY RepoLines
<1> HIDE DEF e, g
<1>3. \A p \in 1..(k - 1) : g[p] = f[p]
  <2> TAKE p \in 1..(k - 1)
  <2>1. p \in 1..(n + 1) /\ p < k
    BY <1>1, <1>2
  <2> HIDE DEF n, k
  <2> QED
    BY <1>1, <2>1, InsertedLine
<1>4. start \in 1..(k - 1) /\ k \in Nat
  BY <1>1, <1>2
<1>5. g[start].at = "top" /\ g[start].name = "repos"
  BY <1>2, <1>3, <1>4
<1>6. \A j \in (start + 1)..(k - 1) : g[j].at # "top"
  <2> TAKE j \in (start + 1)..(k - 1)
  <2>1. j \in 1..(k - 1) /\ j \in (start + 1)..LastRepoLine(f)
    BY <1>2
  <2> QED
    BY <1>2, <1>3, <2>1 DEF Indented
<1>7. LastBefore(g, k, "top") = start
  <2> HIDE DEF k
  <2> QED
    BY <1>4, <1>5, <1>6, LastBeforeIs
<1>8. start # 0
  BY <1>2
<1> HIDE DEF k
<1> QED
  BY <1>5, <1>7, <1>8 DEF SectionOf, g, k

\* An add names one more member, and leaves every dependency as it was.
LEMMA AddAddsOne ==
    ASSUME NEW S, NEW f \in Seq(S), NEW name, Line("item", name, 0) \in S, Repos(f) # {}
    PROVE  /\ MembersOf(Added(f, name)) = MembersOf(f) \cup {name}
           /\ \A section : DepsIn(Added(f, name), section) = DepsIn(f, section)
<1> DEFINE n == Len(f)
           k == LastRepoLine(f) + 1
           e == Line("item", name, 0)
           g == Added(f, name)
<1>1. n \in Nat /\ k \in 1..(n + 1) /\ Inserts(f, n, k, e, g) /\ SectionOf(g, k) = "repos"
  BY AddInserts, AddIsInRepos, LenProperties
<1>2. e.at = "item" /\ e.name = name
  BY DEF Line
<1> HIDE DEF n, k, e, g
<1>3. DOMAIN f = 1..n /\ DOMAIN g = 1..(n + 1) /\ g[k] = e /\ k \in DOMAIN g
  BY <1>1 DEF Inserts
<1>4. \A i \in 1..n : After(k, i) \in DOMAIN g /\ g[After(k, i)] = f[i]
  BY <1>1 DEF Inserts, After
<1>5. \A j \in DOMAIN g : j # k => \E i \in 1..n : j = After(k, i)
  <2> TAKE j \in DOMAIN g
  <2>1. CASE j < k
    <3>1. j \in 1..n /\ j = After(k, j)
      BY <1>1, <1>3, <2>1 DEF After
    <3> QED
      BY <3>1
  <2>2. CASE j > k
    <3>1. j - 1 \in 1..n /\ j = After(k, j - 1)
      BY <1>1, <1>3, <2>2 DEF After
    <3> QED
      BY <3>1
  <2> QED
    BY <1>1, <1>3, <2>1, <2>2
<1>6. \A i \in 1..n : /\ SectionOf(g, After(k, i)) = SectionOf(f, i)
                      /\ LanguageOf(g, After(k, i)) = LanguageOf(f, i)
  <2>1. e.at \notin {"top", "language"}
    BY <1>2
  <2> QED
    BY <1>1, <2>1, InsertKeepsPlaces
<1>7. MembersOf(g) \subseteq MembersOf(f) \cup {name}
  <2> SUFFICES ASSUME NEW j \in ItemsOf(g) PROVE g[j].name \in MembersOf(f) \cup {name}
    BY DEF MembersOf
  <2>1. CASE j = k
    BY <1>2, <1>3, <2>1
  <2>2. CASE j # k
    <3>1. PICK i \in 1..n : j = After(k, i)
      BY <1>5, <2>2 DEF ItemsOf
    <3>2. i \in ItemsOf(f) /\ g[j].name = f[i].name
      BY <1>3, <1>4, <1>6, <3>1 DEF ItemsOf
    <3> QED
      BY <3>2 DEF MembersOf
  <2> QED
    BY <2>1, <2>2
<1>8. name \in MembersOf(g)
  BY <1>1, <1>2, <1>3 DEF MembersOf, ItemsOf
<1>9. MembersOf(f) \subseteq MembersOf(g)
  <2> SUFFICES ASSUME NEW i \in ItemsOf(f) PROVE f[i].name \in MembersOf(g)
    BY DEF MembersOf
  <2>1. After(k, i) \in ItemsOf(g) /\ g[After(k, i)].name = f[i].name
    BY <1>3, <1>4, <1>6 DEF ItemsOf
  <2> QED
    BY <2>1 DEF MembersOf
<1>10. ASSUME NEW section PROVE DepsIn(g, section) = DepsIn(f, section)
  <2>1. ASSUME NEW d \in DepsIn(g, section) PROVE d \in DepsIn(f, section)
    <3>1. PICK j \in DOMAIN g :
              /\ g[j].at = "dep" /\ SectionOf(g, j) = section
              /\ d = [language |-> LanguageOf(g, j), name |-> g[j].name, value |-> g[j].value]
      BY DEF DepsIn
    <3>2. j # k
      BY <1>2, <1>3, <3>1
    <3>3. PICK i \in 1..n : j = After(k, i)
      BY <1>5, <3>2
    <3>4. /\ f[i].at = "dep" /\ SectionOf(f, i) = section
          /\ d = [language |-> LanguageOf(f, i), name |-> f[i].name, value |-> f[i].value]
      BY <1>4, <1>6, <3>1, <3>3
    <3> QED
      BY <1>3, <3>4 DEF DepsIn
  <2>2. ASSUME NEW d \in DepsIn(f, section) PROVE d \in DepsIn(g, section)
    <3>1. PICK i \in DOMAIN f :
              /\ f[i].at = "dep" /\ SectionOf(f, i) = section
              /\ d = [language |-> LanguageOf(f, i), name |-> f[i].name, value |-> f[i].value]
      BY DEF DepsIn
    <3>2. /\ After(k, i) \in DOMAIN g
          /\ g[After(k, i)].at = "dep" /\ SectionOf(g, After(k, i)) = section
          /\ d = [language |-> LanguageOf(g, After(k, i)), name |-> g[After(k, i)].name,
                  value |-> g[After(k, i)].value]
      BY <1>3, <1>4, <1>6, <3>1
    <3> QED
      BY <3>2 DEF DepsIn
  <2> QED
    BY <2>1, <2>2
<1> QED
  BY <1>7, <1>8, <1>9, <1>10 DEF g

-----------------------------------------------------------------------------
(* Which dependencies an edit changes. *)

DepAt(f, i) == [language |-> LanguageOf(f, i), name |-> f[i].name, value |-> f[i].value]

LEMMA DepAtParts ==
    ASSUME NEW f, NEW i, NEW g, NEW j, DepAt(f, i) = DepAt(g, j)
    PROVE  /\ LanguageOf(f, i) = LanguageOf(g, j)
           /\ f[i].name = g[j].name /\ f[i].value = g[j].value
BY DEF DepAt

LEMMA DepIsAt ==
    ASSUME NEW f, NEW section, NEW d
    PROVE  d \in DepsIn(f, section)
           <=> \E i \in DOMAIN f : f[i].at = "dep" /\ SectionOf(f, i) = section /\ d = DepAt(f, i)
BY DEF DepsIn, DepAt

\* What the factory names, whatever the versions.
Named(f, section) == {[d EXCEPT !.value = 0] : d \in DepsIn(f, section)}

LEMMA RewriteKeepsNames ==
    ASSUME NEW f, NEW n \in Nat, DOMAIN f = 1..n, NEW g, Rewrites(f, g), NEW section
    PROVE  Named(g, section) = Named(f, section)
<1>1. \A i \in DOMAIN f : /\ g[i].at = f[i].at /\ SectionOf(g, i) = SectionOf(f, i)
                          /\ [DepAt(g, i) EXCEPT !.value = 0] = [DepAt(f, i) EXCEPT !.value = 0]
  <2> TAKE i \in DOMAIN f
  <2>1. g[i].at = f[i].at /\ g[i].name = f[i].name
    BY DEF Rewrites
  <2>2. SectionOf(g, i) = SectionOf(f, i) /\ LanguageOf(g, i) = LanguageOf(f, i)
    BY RewriteKeepsPlaces
  <2> QED
    BY <2>1, <2>2 DEF DepAt
<1>2. DOMAIN g = DOMAIN f
  BY DEF Rewrites
<1>3. ASSUME NEW x \in Named(g, section) PROVE x \in Named(f, section)
  <2>1. PICK d \in DepsIn(g, section) : x = [d EXCEPT !.value = 0]
    BY DEF Named
  <2>2. PICK i \in DOMAIN f :
            g[i].at = "dep" /\ SectionOf(g, i) = section /\ d = DepAt(g, i)
    BY <1>2, <2>1, DepIsAt
  <2>3. DepAt(f, i) \in DepsIn(f, section)
    BY <1>1, <2>2, DepIsAt
  <2>4. x = [DepAt(f, i) EXCEPT !.value = 0]
    BY <1>1, <2>1, <2>2
  <2> QED
    BY <2>3, <2>4 DEF Named
<1>4. ASSUME NEW x \in Named(f, section) PROVE x \in Named(g, section)
  <2>1. PICK d \in DepsIn(f, section) : x = [d EXCEPT !.value = 0]
    BY DEF Named
  <2>2. PICK i \in DOMAIN f :
            f[i].at = "dep" /\ SectionOf(f, i) = section /\ d = DepAt(f, i)
    BY <2>1, DepIsAt
  <2>3. DepAt(g, i) \in DepsIn(g, section)
    BY <1>1, <1>2, <2>2, DepIsAt
  <2>4. x = [DepAt(g, i) EXCEPT !.value = 0]
    BY <1>1, <2>1, <2>2
  <2> QED
    BY <2>3, <2>4 DEF Named
<1> QED
  BY <1>3, <1>4

\* A dependency that an edit changed stands on a line that it changed.
LEMMA ChangedIsRewritten ==
    ASSUME NEW f, NEW n \in Nat, DOMAIN f = 1..n, NEW g, Rewrites(f, g), NEW section,
           NEW d \in DepsIn(g, section) \ DepsIn(f, section)
    PROVE  \E i \in DOMAIN f : /\ f[i].at = "dep" /\ SectionOf(f, i) = section
                               /\ d = DepAt(g, i) /\ LanguageOf(g, i) = LanguageOf(f, i)
                               /\ g[i] # f[i]
<1>1. DOMAIN g = DOMAIN f
  BY DEF Rewrites
<1>2. PICK i \in DOMAIN f : g[i].at = "dep" /\ SectionOf(g, i) = section /\ d = DepAt(g, i)
  BY <1>1, DepIsAt
<1>3. f[i].at = "dep" /\ SectionOf(f, i) = section /\ LanguageOf(g, i) = LanguageOf(f, i)
  <2>1. SectionOf(f, i) = SectionOf(g, i) /\ LanguageOf(g, i) = LanguageOf(f, i)
    BY RewriteKeepsPlaces
  <2>2. f[i].at = g[i].at
    BY DEF Rewrites
  <2> QED
    BY <1>2, <2>1, <2>2
<1>4. g[i] # f[i]
  <2>1. ASSUME g[i] = f[i] PROVE d = DepAt(f, i)
    BY <1>2, <1>3, <2>1 DEF DepAt
  <2> QED
    BY <1>3, <2>1, DepIsAt
<1> QED
  BY <1>2, <1>3, <1>4

\* Every line has a kind, a name and a value.
Lines(f) == \A i \in DOMAIN f : f[i] = Line(f[i].at, f[i].name, f[i].value)

\* A bump changes the one dependency that it means.
LEMMA BumpChangesOne ==
    ASSUME NEW f, NEW n \in Nat, DOMAIN f = 1..n, Lines(f),
           NEW language, NEW name, NEW value,
           CanBump(f, language, name), \E i \in 1..n : Bumped(f, language, name, value)[i] # f[i]
    PROVE  LET g == Bumped(f, language, name, value)
               Changed(section) == DepsIn(g, section) \ DepsIn(f, section)
           IN  /\ Changed("devDependencies") = {}
               /\ \E d : Changed("dependencies") = {d}
<1> DEFINE g == Bumped(f, language, name, value)
           M == BumpMatches(f, language, name)
           Changed(section) == DepsIn(g, section) \ DepsIn(f, section)
<1>1. DOMAIN f = 1..n /\ Rewrites(f, g)
  BY BumpRewrites
<1>2. M \in SUBSET (1..n) /\ \A i \in DOMAIN f : i \notin M => g[i] = f[i]
  BY <1>1 DEF BumpMatches, Bumped
<1>3. IsFiniteSet(M)
  <2>1. IsFiniteSet(1..n) /\ M \in SUBSET (1..n)
    BY <1>2, FS_Interval
  <2> HIDE DEF M
  <2> QED
    BY <2>1, FS_Subset
<1>4. PICK i \in 1..n : M = {i}
  <2>1. Cardinality(M) = 1
    BY DEF CanBump
  <2>2. \E i : M = {i}
    BY <1>3, <2>1, FS_Singleton
  <2> QED
    BY <1>2, <2>2
<1>5. /\ f[i].at = "dep" /\ f[i].name = name /\ SectionOf(f, i) = "dependencies"
      /\ language \in {"", LanguageOf(f, i)}
  BY <1>4 DEF BumpMatches
<1>13. g[i] = Line("dep", name, value)
  BY <1>1, <1>4 DEF Bumped
<1>14. g[i].name = name /\ g[i].value = value
  <2> HIDE DEF g
  <2> QED
    BY <1>13 DEF Line
<1>6. g[i] # f[i]
  BY <1>1, <1>2, <1>4
<1>7. value # f[i].value
  <2>1. f[i] = Line("dep", name, f[i].value)
    BY <1>1, <1>5 DEF Lines
  <2> QED
    BY <1>6, <1>13, <2>1
<1>8. DepAt(g, i) \in DepsIn(g, "dependencies")
  <2>1. SectionOf(g, i) = SectionOf(f, i) /\ i \in DOMAIN g /\ g[i].at = "dep"
    BY <1>1, <1>5, RewriteKeepsPlaces, ZenonT(60) DEF Rewrites
  <2> QED
    BY <1>5, <2>1, DepIsAt
<1>9. DepAt(g, i) \notin DepsIn(f, "dependencies")
  <2>1. SUFFICES ASSUME NEW j \in DOMAIN f, f[j].at = "dep", SectionOf(f, j) = "dependencies",
                        DepAt(g, i) = DepAt(f, j)
                 PROVE  FALSE
    BY DepIsAt
  <2>2. LanguageOf(g, i) = LanguageOf(f, i)
    BY <1>1, RewriteKeepsPlaces
  <2>3. LanguageOf(f, j) = LanguageOf(f, i) /\ f[j].name = name /\ f[j].value = value
    <3>1. /\ LanguageOf(g, i) = LanguageOf(f, j) /\ g[i].name = f[j].name
          /\ g[i].value = f[j].value
      <4> HIDE DEF g, M
      <4> QED
        BY <2>1, DepAtParts
    <3> QED
      BY <1>14, <2>2, <3>1
  <2>4. j \in M
    BY <1>5, <2>1, <2>3 DEF BumpMatches
  <2> QED
    BY <1>4, <1>7, <2>3, <2>4
<1>10. ASSUME NEW section, NEW d \in Changed(section)
       PROVE  section = "dependencies" /\ d = DepAt(g, i)
  <2>1. d \in DepsIn(g, section) \ DepsIn(f, section)
    BY <1>10
  <2> HIDE DEF g
  <2>2. PICK j \in DOMAIN f : /\ f[j].at = "dep" /\ SectionOf(f, j) = section
                             /\ d = DepAt(g, j) /\ LanguageOf(g, j) = LanguageOf(f, j)
                             /\ g[j] # f[j]
    BY <1>1, <2>1, ChangedIsRewritten
  <2>3. j = i
    BY <1>2, <1>4, <2>2
  <2> QED
    BY <1>5, <2>2, <2>3
<1>11. Changed("devDependencies") = {}
  BY <1>10
<1>12. Changed("dependencies") = {DepAt(g, i)}
  <2> HIDE DEF g
  <2> QED
    BY <1>8, <1>9, <1>10
<1> QED
  BY <1>11, <1>12

\* Where no key is there twice, what a prune changed is a pin that leaves its version,
\* or an entry of devDependencies that takes the version of its name in dependencies.
LEMMA PruneUnpins ==
    ASSUME NEW f, NEW n \in Nat, DOMAIN f = 1..n, Lines(f), KeyedOnce(f),
           \A i \in DOMAIN f : f[i].at = "dep" => f[i].value \in Int,
           NEW dead, CanPrune(f, dead),
           NEW section \in Sections,
           NEW d \in DepsIn(Pruned(f, dead), section) \ DepsIn(f, section)
    PROVE  /\ d.value >= 0
           /\ \/ [d EXCEPT !.value = -d.value] \in DepsIn(f, section)
              \/ /\ \/ [d EXCEPT !.value = d.value] \in DepsIn(f, "dependencies")
                    \/ [d EXCEPT !.value = -d.value] \in DepsIn(f, "dependencies")
                 /\ \E e \in DepsIn(f, "devDependencies") :
                        e.language = d.language /\ e.name = d.name
<1> DEFINE g == Pruned(f, dead)
<1>1. Rewrites(f, g)
  BY PruneRewrites
<1>2. PICK i \in DOMAIN f : /\ f[i].at = "dep" /\ SectionOf(f, i) = section
                            /\ d = DepAt(g, i) /\ LanguageOf(g, i) = LanguageOf(f, i)
                            /\ g[i] # f[i]
  <2> HIDE DEF g
  <2>1. d \in DepsIn(g, section) \ DepsIn(f, section)
    BY DEF g
  <2> QED
    BY <1>1, <2>1, ChangedIsRewritten
<1>3. g[i] = Line("dep", f[i].name, Unpinned(f, LanguageOf(f, i), f[i].name))
  BY <1>2 DEF Pruned
<1>4. PICK ys \in Sections : ys \in {section, "dependencies"} /\ \E y \in DepsIn(f, ys) :
           /\ y.language = LanguageOf(f, i) /\ y.name = f[i].name
           /\ Unpinned(f, LanguageOf(f, i), f[i].name) = Version(y.value)
  BY <1>2, UnpinnedValue
<1>5. PICK y \in DepsIn(f, ys) :
           /\ y.language = LanguageOf(f, i) /\ y.name = f[i].name
           /\ Unpinned(f, LanguageOf(f, i), f[i].name) = Version(y.value)
  BY <1>4
<1>6. PICK j \in DOMAIN f : f[j].at = "dep" /\ SectionOf(f, j) = ys /\ y = DepAt(f, j)
  BY DepIsAt
<1>7. LanguageOf(f, j) = y.language /\ f[j].name = y.name /\ f[j].value = y.value
  BY <1>6 DEF DepAt
<1>8. y.value \in Int
  BY <1>6, <1>7
<1>9. g[i].name = f[i].name /\ g[i].value = Version(y.value)
  BY <1>3, <1>5 DEF Line
<1>10. d = [language |-> LanguageOf(f, i), name |-> f[i].name, value |-> Version(y.value)]
  BY <1>2, <1>9 DEF DepAt
<1>11. d.value = Version(y.value) /\ d.value >= 0 /\ d.language = y.language /\ d.name = y.name
  BY <1>5, <1>8, <1>10 DEF Version
<1>12. CASE ys = section
  <2>1. j = i
    BY <1>2, <1>5, <1>6, <1>7, <1>12 DEF KeyedOnce
  <2>2. y.value < 0
    <3>1. ASSUME ~(y.value < 0) PROVE FALSE
      <4>1. g[i] = Line("dep", f[i].name, f[i].value)
        BY <1>3, <1>5, <1>7, <2>1, <3>1 DEF Version
      <4> QED
        BY <1>2, <4>1 DEF Lines
    <3> QED
      BY <3>1
  <2>3. [d EXCEPT !.value = -d.value] = DepAt(f, i)
    BY <1>7, <1>8, <1>10, <2>1, <2>2 DEF Version, DepAt
  <2> QED
    BY <1>2, <1>11, <2>3, DepIsAt
<1>13. CASE ys # section
  <2>1. ys = "dependencies" /\ section = "devDependencies"
    BY <1>4, <1>13 DEF Sections
  <2>2. [d EXCEPT !.value = y.value] = y
    BY <1>6, <1>7, <1>10, <1>5 DEF DepAt
  <2>3. y.value = d.value \/ y.value = -d.value
    BY <1>8, <1>11 DEF Version
  <2>4. \/ [d EXCEPT !.value = d.value] \in DepsIn(f, "dependencies")
        \/ [d EXCEPT !.value = -d.value] \in DepsIn(f, "dependencies")
    BY <2>1, <2>2, <2>3
  <2>5. DepAt(f, i) \in DepsIn(f, "devDependencies")
    BY <1>2, <2>1, DepIsAt
  <2>6. DepAt(f, i).language = d.language /\ DepAt(f, i).name = d.name
    BY <1>10 DEF DepAt
  <2> QED
    BY <1>11, <2>4, <2>5, <2>6
<1> QED
  BY <1>12, <1>13

\* No edit of values makes a key of another.
LEMMA RewriteKeepsKeys ==
    ASSUME NEW f, NEW n \in Nat, DOMAIN f = 1..n, NEW g, Rewrites(f, g), KeyedOnce(f)
    PROVE  KeyedOnce(g)
<1>1. DOMAIN g = DOMAIN f /\ \A i \in DOMAIN f : g[i].at = f[i].at /\ g[i].name = f[i].name
  BY DEF Rewrites
<1>2. \A i \in DOMAIN f : /\ SectionOf(g, i) = SectionOf(f, i)
                          /\ LanguageOf(g, i) = LanguageOf(f, i)
  BY RewriteKeepsPlaces
<1> QED
  BY <1>1, <1>2 DEF KeyedOnce

LEMMA AddKeepsKeys ==
    ASSUME NEW S, NEW f \in Seq(S), NEW name, Line("item", name, 0) \in S, Repos(f) # {},
           KeyedOnce(f)
    PROVE  KeyedOnce(Added(f, name))
<1> DEFINE n == Len(f)
           k == LastRepoLine(f) + 1
           e == Line("item", name, 0)
           g == Added(f, name)
<1>1. n \in Nat /\ k \in 1..(n + 1) /\ Inserts(f, n, k, e, g)
  BY AddInserts, LenProperties
<1>2. e.at = "item"
  BY DEF Line
<1> HIDE DEF n, k, e, g
<1>3. DOMAIN f = 1..n /\ DOMAIN g = 1..(n + 1) /\ g[k] = e
  BY <1>1 DEF Inserts
<1>4. \A i \in 1..n : /\ g[After(k, i)] = f[i]
                      /\ SectionOf(g, After(k, i)) = SectionOf(f, i)
                      /\ LanguageOf(g, After(k, i)) = LanguageOf(f, i)
  <2>1. e.at \notin {"top", "language"}
    BY <1>2
  <2>2. \A i \in 1..n : g[After(k, i)] = f[i]
    BY <1>1 DEF Inserts, After
  <2>3. \A i \in 1..n : /\ SectionOf(g, After(k, i)) = SectionOf(f, i)
                        /\ LanguageOf(g, After(k, i)) = LanguageOf(f, i)
    BY <1>1, <2>1, InsertKeepsPlaces
  <2> QED
    BY <2>2, <2>3
<1>5. \A j \in DOMAIN g : g[j].at = "dep" => \E i \in 1..n : j = After(k, i)
  <2> TAKE j \in DOMAIN g
  <2>1. CASE j < k
    <3>1. j \in 1..n /\ j = After(k, j)
      BY <1>1, <1>3, <2>1 DEF After
    <3> QED
      BY <3>1
  <2>2. CASE j > k
    <3>1. j - 1 \in 1..n /\ j = After(k, j - 1)
      BY <1>1, <1>3, <2>2 DEF After
    <3> QED
      BY <3>1
  <2> QED
    BY <1>1, <1>2, <1>3, <2>1, <2>2
<1>6. \A i, j \in {q \in DOMAIN g : g[q].at = "dep"} :
          /\ SectionOf(g, i) = SectionOf(g, j)
          /\ LanguageOf(g, i) = LanguageOf(g, j) /\ g[i].name = g[j].name
          => i = j
  <2> SUFFICES ASSUME NEW i \in DOMAIN g, NEW j \in DOMAIN g,
                      g[i].at = "dep", g[j].at = "dep", SectionOf(g, i) = SectionOf(g, j),
                      LanguageOf(g, i) = LanguageOf(g, j), g[i].name = g[j].name
               PROVE  i = j
    OBVIOUS
  <2>1. PICK x \in 1..n : i = After(k, x)
    BY <1>5
  <2>2. PICK y \in 1..n : j = After(k, y)
    BY <1>5
  <2>3. x = y
    BY <1>3, <1>4, <2>1, <2>2 DEF KeyedOnce
  <2> QED
    BY <2>1, <2>2, <2>3
<1> QED
  BY <1>6 DEF KeyedOnce, g

=============================================================================
