----------------------------- MODULE MCCookies -----------------------------
(***************************************************************************)
(* An instance of Cookies for TLC: two hosts of a domain and another host. *)
(***************************************************************************)
EXTENDS Cookies, TLC

CONSTANTS www, api, other, example

Root == <<"/">>
A == <<"/", "a">>
TwoPaths == {Root, A}

SomeCovers == example :> {www, api}

Cookie(host, domain, path, max_age, secure) ==
    [name |-> "sid", host |-> host, domain |-> domain, path |-> path, max_age |-> max_age,
     secure |-> secure]

SomeSetCookies ==
    {Cookie(h, example, p, 2, FALSE) : h \in {www, api}, p \in {Root, A}}
    \cup {Cookie(www, None, p, m, FALSE) : p \in {None, Root}, m \in {0, 1}}
    \cup {Cookie(api, example, None, 0, TRUE), Cookie(other, None, Root, 3, FALSE)}

SomeRequests ==
    {[host |-> h, path |-> p, secure |-> h = api] : h \in {www, api, other}, p \in {Root, A}}
=============================================================================
