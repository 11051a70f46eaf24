--------------------------- MODULE MCRuntimeStore ---------------------------
(***************************************************************************)
(* Instances of RuntimeStore for TLC whose descriptions are the answers of *)
(* the engines' tables in Runtimes, and those of an older engine that knew *)
(* one program of uv and pinned another archive.  What the archives hold   *)
(* is chosen here: the tables pin their digests only.                      *)
(***************************************************************************)
EXTENDS RuntimeStore, FiniteSets, TLC

T == INSTANCE Runtimes

CONSTANTS p1, p2,  \* processes
          w1, w2,  \* workspaces
          jre, openapi, uv, uvOld, uvArm  \* descriptions

Pinned(name, platform) ==
    [name |-> name, version |-> T!Versions[name], platform |-> platform, targets |-> {}]

Answer(pin) == CHOOSE d \in T!Described(pin) : TRUE

Amd == "linux/amd64"

Arm == "linux/arm64"

oldArchive == T!PinnedArtifact("uv", T!Versions["uv"], "older", "tar-gz", 1, <<>>)
uvNow == Answer(Pinned("uv", Amd))

Says(d) ==
    CASE d = jre -> Answer(Pinned("jre", Amd))
      [] d = openapi -> Answer(Pinned("openapi", Amd))
      [] d = uvArm -> Answer(Pinned("uv", Arm))
      [] d = uvOld -> [uvNow EXCEPT !.bins = {<<"uv">>}, !.artifacts = {oldArchive}]
      [] OTHER -> uvNow

\* Bytes that some mirror answers in place of an archive.
Junk == [oldArchive EXCEPT !.url = <<"junk">>]

Contents(a) ==
    CASE a = Junk -> {<<"html", "uv">>}
      [] a = oldArchive -> {<<"uv-x86", "uv">>, <<"uv-x86", "LICENSE">>}
      [] a.url[1] = "uv" -> {<<"uv-x86", "uv">>, <<"uv-x86", "uvx">>}
      [] a.url[1] = "jre" -> {<<"jdk-21", "bin", "java">>, <<"jdk-21", "lib">>}
      [] OTHER -> {<<"openapi-generator-cli-7.19.0.jar">>}

ArtifactsOf(descs) == UNION {Says(d).artifacts : d \in descs}
LaysOf(a) == IF a = Junk THEN {<<"uv">>} ELSE T!LaidOut(a, Contents(a))

MCArtifact == ArtifactsOf(Desc)
MCFile == UNION {LaysOf(a) : a \in MCArtifact \cup {Junk}}
MCEntryOf == [d \in Desc |-> Says(d).name]
MCRank == [d \in Desc |-> CASE Says(d).name = "jre" -> 1
                            [] Says(d).name = "openapi" -> 2 [] OTHER -> 3]
MCArtifacts == [d \in Desc |-> Says(d).artifacts]
MCBins == [d \in Desc |-> Says(d).bins]
MCEnv == [d \in Desc |-> Says(d).env # {}]
MCNeeds == [d \in Desc |-> Says(d).needs]
MCProvides == [d \in Desc |-> Says(d).provides]
MCLays == [a \in Bytes |-> LaysOf(a)]
MCServed == [a \in Artifact |-> IF a.url[1] = "uv" THEN {Junk} ELSE {}]
MCSatisfy == [w \in Workspace |-> [c \in Capability |->
                 IF w = w1 THEN "unset" ELSE jre]]
MCPlans == {{jre, openapi}, {openapi}, {uv}, {uvOld}}

ArmSatisfy == [w \in Workspace |-> [c \in Capability |-> "unset"]]
ArmPlans == {{uv}, {uvArm}}

SamePid == [p \in Proc |-> 1]
OwnPid == [p \in Proc |-> p]

\* The engines' tables describe a runtime for each platform they are asked for;
\* every program of a description is a file its archives lay out, and an older
\* engine knows no program that the newer one does not.
ASSUME DescriptionsAreLaidOut == ProgramsLaidOut /\ Growing
=============================================================================
