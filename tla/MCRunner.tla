------------------------------ MODULE MCRunner ------------------------------
EXTENDS Runner

Letters == {"a", "b", "r", "e", "-", "_", "A", "0", "1"}
Folding == [c \in Letters |-> CASE c = "A" -> "a" [] c = "_" -> "-" [] OTHER -> c]
Hash(name) == <<"0", IF Len(name) > 3 THEN "1" ELSE "0">>

Short == <<"b", "A", "b">>
Long  == <<"b", "a", "-", "b">>
Services == {Short, Long}

\* Two that begin alike, one that is cut and then ends in dashes, and one that
\* folds to the first.
Pack1 == <<"a", "-", "b">>
Pack2 == <<"a", "-", "b", "a">>
Pack3 == <<"a", "b", "-", "-", "b">>
Pack4 == <<"A", "_", "b">>
PackList == {Pack1, Pack2, Pack3, Pack4}

Entries == [name : {"HEALTH_SUCCESS_THRESHOLD"}, value : 0..3]
Probes(n) == <<[name |-> "HEALTH_SUCCESS_THRESHOLD", value |-> n]>>

Refs == [tag |-> "v1", branch |-> "release", blank |-> "", main |-> "main"]

Chart == [env |-> Probes(2), refs |-> <<"tag", "blank", "main">>,
          resources |-> [request |-> 1, limit |-> 2]]

NoResources == [request |-> 0, limit |-> 0]
Limited     == [request |-> 1, limit |-> 1]
Requesting  == [request |-> 1, limit |-> 0]

ServiceArgs ==
    {[arrival |-> a, env |-> e, resources |-> r] :
        a \in Services, e \in {<<>>, Probes(1), Probes(0)}, r \in {NoResources, Limited}}

PackTests ==
    {[name |-> Pack1, type |-> "end2end", env |-> Probes(2), resources |-> NoResources],
     [name |-> Pack2, type |-> "end2end", env |-> <<>>, resources |-> Requesting],
     [name |-> Pack3, type |-> "end2end-ui", env |-> Probes(3), resources |-> Limited],
     [name |-> Pack4, type |-> "smoke", env |-> <<>>, resources |-> NoResources]}

Repositories == SUBSET {"v1", "main"}
=============================================================================
