------------------------------ MODULE JobSpec ------------------------------
(***************************************************************************)
(* What the dispatcher puts into a Job (buildJob and its helpers in         *)
(* internal/dispatch/dispatch.go): a name that is a function of Arrival and *)
(* pack, an environment and resources layered from chart, service and pack, *)
(* and the git refs the runner script tries.  Pure operators.               *)
(***************************************************************************)
EXTENDS Integers, Sequences

CONSTANTS
    Chars,        \* the characters of names,
    ArrivalNames, \* the names of Arrivals
    PackNames,    \* and of packs, as sequences of characters
    EnvVars,      \* entries of environments: [name, value]
    Fold,         \* what lower-casing, and "-" for "_", make of a character
    Digest(_),    \* the hexadecimal SHA-256 digest of a name, cut to HashLen
    HashLen,      \* 8
    NameMax,      \* 63: a Pod of the Job has the same name and a suffix
    Rendered,     \* what a refspec template gives for the version and cluster
    Blank,        \* an empty rendering
    None          \* an amount that is not given

ASSUME JobSpecAssumption ==
    /\ {"a", "r", "-"} \subseteq Chars
    /\ Fold \in [Chars -> Chars]
    /\ ArrivalNames \subseteq Seq(Chars)
    /\ PackNames \subseteq Seq(Chars)
    /\ {HashLen, NameMax} \subseteq Nat
    /\ NameMax > HashLen + 4

-----------------------------------------------------------------------------
(* The name.                                                                 *)

Normal(name) == [i \in DOMAIN name |-> Fold[name[i]]]

\* A digest has HashLen characters, none of them a dash, and no name begins
\* with its own: "collision risk negligible".
ASSUME DigestAssumption ==
    \A a \in ArrivalNames :
        /\ Digest(Normal(a)) \in Seq(Chars \ {"-"})
        /\ Len(Digest(Normal(a))) = HashLen
        /\ SubSeq(Normal(a), 1, HashLen) # Digest(Normal(a))

Prefix == <<"a", "r", "-">>
Joined(front, pack) == Prefix \o front \o <<"-">> \o pack

\* What the hash and the separators leave for the pack: 51.
MaxPack == NameMax - HashLen - 4

\* strings.TrimRight(name, "-"): up to the last character that is no dash.
TrimRight(name) ==
    LET solid == {i \in DOMAIN name : name[i] # "-"}
    IN  IF solid = {} THEN <<>>
        ELSE SubSeq(name, 1, CHOOSE i \in solid : \A j \in solid : j <= i)

CutPack(pack) == IF Len(pack) > MaxPack THEN TrimRight(SubSeq(pack, 1, MaxPack))
                 ELSE pack

\* Mutant: name[:63], which loses the pack of a long name.
CutJobName(arrival, pack) ==
    LET name == Joined(Normal(arrival), Normal(pack))
    IN  IF Len(name) <= NameMax THEN name ELSE SubSeq(name, 1, NameMax)

JobNameFor(arrival, pack) ==
    LET name == Joined(Normal(arrival), Normal(pack))
    IN  IF Len(name) <= NameMax THEN name
        ELSE Joined(Digest(Normal(arrival)), CutPack(Normal(pack)))

-----------------------------------------------------------------------------
(* Environment, resources and refs.                                          *)

\* Layers are sequences of [name, value], one behind the other ...
ResolveEnv(standard, service, pack) == standard \o service \o pack

Sets(layer, name) == {i \in DOMAIN layer : layer[i].name = name}

\* ... of which Kubernetes takes the last entry with the name.
Getenv(layer, name) ==
    layer[CHOOSE i \in Sets(layer, name) : \A j \in Sets(layer, name) : j <= i].value

Empty(resources) == resources.request = None /\ resources.limit = None

Fallback == [request |-> 1, limit |-> 2]

\* Mutant: a rung counts only if it has a limit.
LimitsDecide(pack, service, global) ==
    IF pack.limit # None THEN pack
    ELSE IF service.limit # None THEN service
    ELSE IF ~Empty(global) THEN global
    ELSE Fallback

\* The first rung that gives anything is taken as a whole; a nil rung and an
\* empty one are the same.
ResolveResources(pack, service, global) ==
    IF ~Empty(pack) THEN pack
    ELSE IF ~Empty(service) THEN service
    ELSE IF ~Empty(global) THEN global
    ELSE Fallback

\* Mutant: the least specific ref comes first.
RenderReversed(templates) ==
    LET out[i \in 0..Len(templates)] ==
            IF i = 0 THEN <<>>
            ELSE IF Rendered[templates[i]] = Blank THEN out[i - 1]
            ELSE <<Rendered[templates[i]]>> \o out[i - 1]
    IN  out[Len(templates)]

\* The list in its order, blank entries dropped.
RenderRefFallbacks(templates) ==
    LET out[i \in 0..Len(templates)] ==
            IF i = 0 THEN <<>>
            ELSE IF Rendered[templates[i]] = Blank THEN out[i - 1]
            ELSE Append(out[i - 1], Rendered[templates[i]])
    IN  out[Len(templates)]

\* args: the Arrival and the layers of its service; test: the pack.  A template
\* that does not render is an error instead, and to the controller one of the
\* ways a dispatch fails (DispatchFails).
BuildJob(config, args, test) ==
    [name      |-> JobNameFor(args.arrival, test.name),
     env       |-> ResolveEnv(config.env \o <<[name |-> "TEST_PACK_TYPE", value |-> test.type]>>,
                              args.env, test.env),
     refs      |-> RenderRefFallbacks(config.refs),
     resources |-> ResolveResources(test.resources, args.resources, config.resources)]
=============================================================================
