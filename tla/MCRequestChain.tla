--------------------------- MODULE MCRequestChain ---------------------------
(***************************************************************************)
(* Instances of RequestChain for TLC: requests with up to two conditions,  *)
(* and requests with one thing or two wrong otherwise.                     *)
(***************************************************************************)
EXTENDS RequestChain, FiniteSets

Given(r) == {f \in {"match", "none_match", "modified_since", "unmodified_since", "if_range"} :
                r[f] # None}

Both == {"etag", "last_modified"}

\* Up to two conditions, or one on a resource that does not tell its state.
Conditional == {r \in
    [method: {"GET", "PUT", "DELETE"}, match: {None, 1, 2}, none_match: {None, 1},
     modified_since: {None, 1, Invalid}, unmodified_since: {None, 1, Invalid},
     range: BOOLEAN, if_range: {None, 1}, body: {FALSE}, type: {"none"},
     accept: {TRUE}, language: {TRUE}, permitted: {TRUE}, has: {{}, {"etag"}, Both}] :
        /\ Cardinality(Given(r)) <= (IF r.has = Both THEN 2 ELSE 1)
        /\ r.if_range = None => ~r.range
        /\ r.method = "DELETE" => r.has = Both}

Wrong(r) == {f \in {"accept", "language", "permitted"} : ~r[f]}
                \cup {f \in {"type"} : r.type \in {"unknown", "broken"}}

\* At most one thing wrong beside a body where none belongs.
Plain == {r \in
    [method: {"GET", "PUT", "POST", "PATCH"}, match: {None}, none_match: {None},
     modified_since: {None}, unmodified_since: {None},
     range: {FALSE}, if_range: {None}, body: BOOLEAN,
     type: {"none", "known", "unknown", "broken"},
     accept: BOOLEAN, language: BOOLEAN, permitted: BOOLEAN, has: {Both}] :
        Cardinality(Wrong(r)) <= 1}

Update(r) == r.method \in {"PUT", "DELETE"} /\ r.has = Both
             /\ Given(r) \subseteq {"match"} /\ r.match \in {None, 1}

\* One client sends all of them, the others those that change the resource.
First == CHOOSE c \in Clients : TRUE

SomeRequests == [c \in Clients |->
    IF c = First THEN Conditional \cup Plain ELSE {r \in Conditional : Update(r)}]
=============================================================================
