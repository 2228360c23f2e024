----------------------------- MODULE Templates -----------------------------
(***************************************************************************)
(* The templates of a tree of resources: how they are joined, and what     *)
(* they are to mean.  A path is written as elements, texts and variables,  *)
(* and tree.path spells tree.template, perhaps behind slashes that do not  *)
(* count.  tree.own are patterns a resource brings itself.                 *)
(***************************************************************************)
EXTENDS RegexPath

CONSTANTS
    Domains, Resources,
    Requests,
    tree        \* [parent, path, template, own]

\* The path without its leading slashes
LStrip(path) ==
    LET first == SelectInSeq(path, LAMBDA char : char # "/")
    IN IF first = 0 THEN <<>> ELSE SubSeq(path, first, Len(path))

\* A path behind another one, with a slash between them
Behind(above, path) == above \o <<"/">> \o LStrip(path)

-----------------------------------------------------------------------------
(* The meaning of a template *)

Element(kind, text, var) == [kind |-> kind, text |-> text, var |-> var]

Spelled(e) ==
    CASE e.kind = "text" -> e.text
      [] e.kind \in {":", "*"} -> <<e.kind>> \o e.text
      [] e.kind = "{" -> <<"{">> \o e.text \o (IF e.var = <<>> THEN <<>> ELSE <<":">> \o e.var) \o <<"}">>
      [] e.kind = "{." -> <<"{", ".">> \o e.text \o <<"}">>

Permits(e, value) ==
    CASE e.var # <<>>   -> value = e.var
      [] e.kind = "*"  -> value # <<>>
      [] e.kind = "{." -> ~Contains(value, "/") /\ ~Contains(value, ".")
      [] OTHER         -> value # <<>> /\ ~Contains(value, "/")

\* The elements of a resource behind those of its parents
Elements[r \in Resources] ==
    IF tree.parent[r] \in Domains THEN tree.template[r]
    ELSE Elements[tree.parent[r]] \o <<Element("text", <<"/">>, <<>>)>> \o tree.template[r]

\* The path that gives the variables of a resource these values
Instance(r, values) ==
    FlattenSeq([i \in DOMAIN Elements[r] |->
        LET e == Elements[r][i]
        IN IF e.kind = "text" THEN e.text
           ELSE IF e.kind = "{." /\ values[e.text] # <<>> THEN <<".">> \o values[e.text]
           ELSE values[e.text]])

VariablesOf(r) == {e \in Range(Elements[r]) : e.kind # "text"}

\* Whether a path is meant to lead to a resource
IsPathOf(r, path) ==
    \E values \in [{e.text : e \in VariablesOf(r)} -> SubSeqs(path)] :
        /\ \A e \in VariablesOf(r) : Permits(e, values[e.text])
        /\ Instance(r, values) = path

\* What the patterns of its own make of a path
OwnMatches(r, path) == UNION {Match(pattern, path) : pattern \in tree.own[r]}

-----------------------------------------------------------------------------
(* What is built of the resources *)

\* The path of a resource below others, with all it hangs on
PathOf[r \in Resources] ==
    Behind(IF tree.parent[r] \in Resources THEN PathOf[tree.parent[r]] ELSE <<>>, tree.path[r])

\* The template a resource has while it belongs to the tree
FullPath == [r \in Resources |-> IF tree.parent[r] \in Domains THEN tree.path[r] ELSE PathOf[r]]

\* What may be built of it while something it hangs on does not: the end of that
CutPaths[r \in Resources] ==
    {Behind(above, tree.path[r]) :
        above \in {<<>>} \cup (IF tree.parent[r] \in Resources THEN CutPaths[tree.parent[r]] ELSE {})}

\* The template language does what it is for: whatever is built is a pattern,
TemplatesCompile ==
    \A r \in Resources : \A path \in {FullPath[r]} \cup CutPaths[r] : Compiles(Tokenize(path))

\* a path that matches is the template with the values it is given,
TemplatesLead ==
    \A r \in Resources : \A q \in Requests :
        \A values \in Match(Tokenize(FullPath[r]), q.path) : Instance(r, values) = q.path

\* and what is meant to be a path of a resource matches.
PathsMatch ==
    \A r \in Resources : \A q \in Requests :
        IsPathOf(r, q.path) => Match(Tokenize(FullPath[r]), q.path) # {}
=============================================================================
