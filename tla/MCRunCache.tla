------------------------------ MODULE MCRunCache ----------------------------
(***************************************************************************)
(* Instances of RunCache for TLC: interchangeable processes, and the run   *)
(* roots that RunTarget finds for requests of one member, at a commit that *)
(* is named and at the one the register proved, before and after every     *)
(* repository has moved on.                                                *)
(***************************************************************************)
EXTENDS RunCache, Sequences, TLC

T == INSTANCE RunTarget

CONSTANTS p1, p2, p3,   \* processes
          r1, r2,       \* run roots of remote runs
          l1            \* a run root of a local checkout

Symmetry == Permutations(Proc)

-----------------------------------------------------------------------------
(* The repositories. *)

App == <<"host", "/", "org", "/", "app">>
UrlOf(name) == <<"git", "@", "host", ":", "org", "/", name>>
Serve == <<".", "/", "cmd", "/", "serve">>

Commits == {<<c>> : c \in {"a1", "a2", "a3", "f1", "f2", "g1", "g2", "s1"}}
Refs(names) == names @@ [c \in Commits |-> c]

\* All of them at one moment, and when they have moved.
World(moved) ==
    LET now == [c \in {"a", "f", "g"} |->
            CASE c = "a" -> IF moved THEN <<"a3">> ELSE <<"a2">>
              [] c = "f" -> IF moved THEN <<"f2">> ELSE <<"f1">>
              [] OTHER -> IF moved THEN <<"g2">> ELSE <<"g1">>]
        repos == <<[name |-> "app", url |-> UrlOf("app")], [name |-> "sta", url |-> UrlOf("sta")]>>
        Track(version, proof) == [current |-> <<version>>, provenance |-> proof]
    IN  [dotted |-> {"host"}, directories |-> {}, shas |-> Commits, order |-> <<"v10", "v9">>,
         refs |-> UrlOf("app") :> Refs((T!DefaultBranch :> now["a"]) @@ (<<"v9">> :> <<"a1">>)
                                       @@ (<<"v10">> :> <<"a2">>))
               @@ UrlOf("fac") :> Refs(T!DefaultBranch :> now["f"])
               @@ UrlOf("reg") :> Refs(T!DefaultBranch :> now["g"])
               @@ UrlOf("sta") :> Refs(T!DefaultBranch :> <<"s1">>),
         forge |-> [c \in {<<"a1">>, <<"a2">>, <<"a3">>} |->
             <<[name |-> "lint", src |-> <<"lint">>, factory |-> <<>>, factoryRevision |-> <<>>],
               [name |-> "serve", src |-> Serve, factory |-> UrlOf("fac"),
                factoryRevision |-> IF c = <<"a3">> THEN <<"f1">> ELSE <<>>]>>],
         factories |-> [c \in {<<"f1">>, <<"f2">>} |->
             [repos |-> repos, register |-> UrlOf("reg"), state |-> "sta",
              registerRev |-> IF c = <<"f2">> THEN <<"g1">> ELSE <<>>]],
         tracks |-> (<<"g1">> :> (App :> [v9 |-> Track("v9", "proof1")]))
                 @@ (<<"g2">> :> (App :> [v9 |-> Track("v9", "proof1"), v10 |-> Track("v10", "")])),
         revisions |-> <<"s1">> :> [proof1 |-> [app |-> <<"a1">>]]]

Requests ==
    [target : {App \o sub \o rev : sub \in {<<>>, <<"/">> \o Tail(Tail(Serve))},
                                   rev \in {<<>>, <<"@", "v10">>, <<"@", "a1">>, <<"@", "a2">>}},
     name : {<<"serve">>, <<"lint">>},
     factory : {<<>>} \cup {UrlOf("fac") \o rev : rev \in {<<>>, <<"@", "f1">>, <<"@", "f2">>}}]

\* A request with a warm tuple means one run root, wherever the branches of the
\* repositories have gone since the tuple was written: entering by it is right.
ASSUME TuplesMeanOneRoot ==
    \A q1, q2 \in Requests : \A m1, m2 \in BOOLEAN :
        LET key == T!warmTupleKey(World(m1), q1)
        IN  key # {} /\ key = T!warmTupleKey(World(m2), q2)
            => Cardinality(T!RootOf(World(m1), q1) \cup T!RootOf(World(m2), q2)) = 1

\* A request that names no commit runs one that a revision proved.
ASSUME FloatingRunsAreProven ==
    \A q \in Requests, moved \in BOOLEAN :
        T!splitTarget(World(moved), q.target).rev = <<>> =>
            \A root \in T!RootOf(World(moved), q) :
                \E p \in DOMAIN World(moved).revisions[<<"s1">>] :
                    root.sha = World(moved).revisions[<<"s1">>][p].app

-----------------------------------------------------------------------------
(* The run roots of the instances. *)

Pair == {[target |-> App, name |-> <<"serve">>, factory |-> <<>>],
         [target |-> App \o <<"@", "a2">>, name |-> <<"serve">>,
          factory |-> UrlOf("fac") \o <<"@", "f2">>]}

RemoteRoots == {IF root.sha = <<"a1">> THEN r1 ELSE r2
                  : root \in UNION {T!RootOf(World(FALSE), q) : q \in Pair}}

Checkout == <<"/", "home", "/", "app">>

\* A checkout in no workspace, by its runnable's factory.
LocalRoots ==
    {l1 : root \in UNION {T!LocalRootOf(World(FALSE), Checkout, f)
       : f \in UNION {T!LocalFactory(<<>>, Checkout, [factory |-> <<>>], r)
           : r \in T!matchRunnable(World(FALSE).forge[<<"a2">>], Serve)}}}

\* Each run root of an instance is one that a request selects.
ASSUME RootsOfRequests == Remote \subseteq RemoteRoots /\ Local \subseteq LocalRoots
=============================================================================
