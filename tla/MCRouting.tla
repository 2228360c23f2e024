----------------------------- MODULE MCRouting -----------------------------
(***************************************************************************)
(* An instance of Routing for TLC: two domains, three resources.           *)
(***************************************************************************)
EXTENDS Routing

CONSTANTS d1, d2, alias, unknown, r1, r2, r3, gateway, peer, c1

Text(t)      == Element("text", t, <<>>)
Colon(n)     == Element(":", <<n>>, <<>>)
Star(n)      == Element("*", <<n>>, <<>>)
Brace(n, re) == Element("{", <<n>>, re)
Dot(n)       == Element("{.", <<n>>, <<>>)

\* A resource below another may be written with leading slashes.
Tree(parent, template, slashes, own) ==
    [parent |-> parent, template |-> template,
     own |-> [r \in Resources |-> {Tokenize(path) : path \in own[r]}],
     path |-> [r \in Resources |->
                  slashes[r] \o FlattenSeq([i \in DOMAIN template[r] |-> Spelled(template[r][i])])]]

NoSlashes == [r \in Resources |-> <<>>]
NoneOwn   == [r \in Resources |-> {}]

\* r2 belongs to r1, r3 to the other domain or to r2
Parents(top) == r1 :> d1 @@ r2 :> r1 @@ r3 :> top

SomeTrees ==
    {Tree(Parents(d2), r1 :> <<Text(<<"/">>), Colon("x")>>
                    @@ r2 :> <<Brace("y", <<"b">>)>>
                    @@ r3 :> <<Text(<<"/">>), Star("z")>>,
          NoSlashes, [NoneOwn EXCEPT ![r3] = {<<"/", "b">>}]),
     Tree(Parents(d2), r1 :> <<Text(<<"/", "a">>), Dot("x")>>
                    @@ r2 :> <<Text(<<"b">>)>>
                    @@ r3 :> <<Text(<<"/">>)>>,
          [NoSlashes EXCEPT ![r2] = <<"/">>], [NoneOwn EXCEPT ![r2] = {<<"/", "b">>, <<"/", ":", "x">>}]),
     Tree(Parents(d1), r1 :> <<Text(<<"/", "a">>)>>
                    @@ r2 :> <<Brace("x", <<>>)>>
                    @@ r3 :> <<Text(<<"/">>), Colon("x"), Text(<<"/">>), Colon("y")>>,
          NoSlashes, NoneOwn),
     Tree(Parents(r2), r1 :> <<Text(<<"/", "a">>)>>
                    @@ r2 :> <<Colon("x"), Text(<<".", "b">>)>>
                    @@ r3 :> <<Text(<<"a">>), Star("y")>>,
          [NoSlashes EXCEPT ![r2] = <<"/", "/">>, ![r3] = <<"/", "/">>], NoneOwn)}

SomeAliases == d1 :> {alias} @@ d2 :> {}

Paths == {<<"/">>, <<"/", "a">>, <<"/", "b">>, <<"/", "a", ".", "b">>, <<"/", "a", "/", "b">>,
          <<"/", "a", ".", "b", "/", "a", "b">>, <<"/", "a", "/", "a", ".", "b">>, <<"/", "a", "/", "a", ".", "b", "/", "a", "b">>}

Request(host, method, path) ==
    [host |-> host, method |-> method, path |-> path, remote |-> peer, forwarded |-> <<>>,
     x_forwarded_for |-> <<>>, x_forwarded_host |-> <<>>]

By(host) == [by |-> host, for |-> peer, host |-> d2]

SomeRequests ==
    {Request(h, "GET", p) : h \in {d1, d2}, p \in Paths}
    \cup {Request(h, "PUT", <<"/", "a">>) : h \in {d2, alias, unknown, NoHost}}
    \cup {[Request(unknown, "GET", <<"/", "a">>) EXCEPT
              !.remote = r, !.forwarded = f, !.x_forwarded_for = x, !.x_forwarded_host = h] :
              r \in {gateway, peer}, f \in {<<>>, <<By(unknown), By(NoHost)>>, <<By(unknown)>>},
              x \in {<<>>, <<peer>>}, h \in {<<>>, <<unknown, d2>>, <<alias>>}}

With(t) == INSTANCE Templates WITH tree <- t

\* For the templates and the paths of this instance the language does what it is
\* for, which the theorems of RoutingProofs presume.
ASSUME LanguageAssumption ==
    \A t \in Trees : /\ With(t)!TemplatesCompile
                    /\ With(t)!TemplatesLead
                    /\ With(t)!PathsMatch
=============================================================================
