------------------------------ MODULE Cookies ------------------------------
(***************************************************************************)
(* The cookies of an HTTP client (circuits/http/client/cookie.py):         *)
(* _on_response stores what `Set-Cookie' says, _on_request adds what       *)
(* matches to a request.  A cookie is an object, so that two with the same *)
(* attributes are two cookies; `value' tells them apart, it counts what    *)
(* servers have set.                                                       *)
(*                                                                         *)
(* Cookie.expired compares the time with the method `expired', which is    *)
(* never less: what `Expires' says has no effect and is left out.  A       *)
(* `Max-Age' of 0 counts as none.                                          *)
(***************************************************************************)
EXTENDS Naturals, Sequences, SequencesExt

CONSTANTS
    Names,
    Hosts,
    Domains,       \* values of `Domain'
    Covers,        \* the hosts that end in a domain, for those that start with a dot
    Paths,         \* sequences of characters
    None,
    SetCookies,    \* what servers may set, with the host that sets it
    Requests,      \* what the client may ask for
    MaxTime,       \* bound: seconds
    MaxValue       \* bound: cookies set

SetCookieType ==
    [name: Names, host: Hosts, domain: Domains \cup {None}, path: Paths \cup {None},
     max_age: Nat, secure: BOOLEAN]

RequestType == [host: Hosts, path: Paths, secure: BOOLEAN]

ASSUME CookiesAssumption ==
    /\ None \notin Domains \cup Paths
    /\ Covers \in [Domains -> SUBSET Hosts]
    /\ SetCookies \subseteq SetCookieType /\ Requests \subseteq RequestType
    /\ MaxTime \in Nat /\ MaxValue \in Nat

\* `created' is Cookie.creation_time; `set' is history: when this cookie came
CookieType ==
    [name: Names, host: Hosts, domain: Domains \cup {None}, path: Paths \cup {None},
     max_age: Nat, secure: BOOLEAN, value: Nat, created: Nat, set: Nat]

VARIABLES
    cookies,    \* CookieStorage.cookies
    now,        \* time()
    value,      \* history: cookies set so far
    latest,     \* history: of each cookie the value set last
    mistaken,   \* history: names of which a cookie has replaced another cookie
    sent        \* history: the cookies of the last request

vars == <<cookies, now, value, latest, mistaken, sent>>

\* A name, a domain or else the host that set it, and a path make a cookie.
Keys == Names \X (Domains \cup {None}) \X (Hosts \cup {None}) \X (Paths \cup {None})

Key(c) == <<c.name, c.domain, IF c.domain = None THEN c.host ELSE None, c.path>>

TypeOK ==
    /\ cookies \subseteq CookieType /\ sent \subseteq CookieType
    /\ now \in Nat /\ value \in Nat
    /\ latest \in [Keys -> Nat]
    /\ mistaken \subseteq Names

Init ==
    /\ cookies = {} /\ sent = {} /\ mistaken = {}
    /\ now = 0 /\ value = 0
    /\ latest = [k \in Keys |-> 0]

-----------------------------------------------------------------------------
(* CookieStorage *)

Expired(c) == c.max_age # 0 /\ now >= c.max_age + c.created

GetCookie_OfHost(cookie) ==
    {c \in cookies :
        /\ c.name = cookie.name
        /\ c.host = cookie.host
        /\ (cookie.domain # None) => (c.domain = cookie.domain)
        /\ (cookie.path # None) => (c.path = cookie.path)}

\* The cookies that may be taken for the one that is set; get_cookie returns
\* the first of them in the order of a set.
GetCookie(cookie) ==
    {c \in cookies :
        /\ c.name = cookie.name
        /\ (cookie.domain = None) => (c.host = cookie.host)
        /\ (cookie.domain # None) => (c.domain = cookie.domain)
        /\ (cookie.path # None) => (c.path = cookie.path)}

\* The new cookie keeps the time the old one was created.
AddCookie(cookie) ==
    \/ /\ GetCookie(cookie) = {}
       /\ cookies' = cookies \cup (IF Expired(cookie) THEN {} ELSE {cookie})
       /\ UNCHANGED mistaken
    \/ \E old \in GetCookie(cookie) :
         LET new == [cookie EXCEPT !.created = old.created]
         IN /\ cookies' = (cookies \ {old}) \cup (IF Expired(new) THEN {} ELSE {new})
            /\ mistaken' = mistaken \cup (IF Key(old) = Key(new) THEN {} ELSE {cookie.name})

OnResponse ==
    /\ value < MaxValue
    /\ value' = value + 1
    /\ \E s \in SetCookies :
         LET cookie == [name |-> s.name, host |-> s.host, domain |-> s.domain, path |-> s.path,
                        max_age |-> s.max_age, secure |-> s.secure, value |-> value + 1,
                        created |-> now, set |-> now]
         IN /\ AddCookie(cookie)
            /\ latest' = [latest EXCEPT ![Key(cookie)] = value + 1]
    /\ sent' = {}
    /\ UNCHANGED now

DomainMatches(host, domain) == host = domain \/ host \in Covers[domain]

CookieApplies(request, c) ==
    /\ c.secure => request.secure
    /\ IF c.domain = None THEN request.host = c.host ELSE DomainMatches(request.host, c.domain)
    /\ (c.path # None) => IsPrefix(c.path, request.path)

Sends_Stale(request) == {c \in cookies : CookieApplies(request, c)}

\* cookie_matches: the cookies the request is sent with
Sends(request) == {c \in cookies : CookieApplies(request, c) /\ ~Expired(c)}

OnRequest ==
    /\ \E request \in Requests :
         /\ sent' = Sends(request)
         /\ cookies' = {c \in cookies : ~(CookieApplies(request, c) /\ Expired(c))}
    /\ UNCHANGED <<now, value, latest, mistaken>>

Tick ==
    /\ now < MaxTime
    /\ now' = now + 1
    /\ sent' = {}
    /\ UNCHANGED <<cookies, value, latest, mistaken>>

Next == OnResponse \/ OnRequest \/ Tick

Spec == Init /\ [][Next]_vars

-----------------------------------------------------------------------------

\* Which cookie one replaces is certain if it has a domain and a path.  One that
\* lacks either may be taken for any of several, and then its own stays.
Certain(c) == (c.domain # None /\ c.path # None) \/ c.name \notin mistaken

\* Set-Cookie replaces the cookie it set before, from whatever host it came, as
\* long as that is certain: the storage never has two of them.
OneOfAKind ==
    \A c, d \in cookies : (Certain(c) /\ Key(c) = Key(d)) => c = d

IsLatest(c) == Certain(c) => c.value = latest[Key(c)]

CookiesInvariant ==
    /\ TypeOK
    /\ OneOfAKind
    /\ \A c \in cookies : c.value <= value /\ c.created <= c.set /\ c.set <= now
    /\ \A c \in cookies : IsLatest(c)
    /\ \A c \in sent : IsLatest(c)
    /\ \A c \in sent : c.created <= c.set /\ ~Expired(c)

\* A value of a cookie that its server has replaced is not sent any more: never
\* if it has a domain and a path, and if it lacks either as long as no cookie of
\* this name has been taken for another one (_on_request, add_cookie, get_cookie).
ReplacedIsNotSent ==
    \A c \in sent : Certain(c) => c.value = latest[Key(c)]

\* No cookie is sent when its Max-Age has passed since the response that set
\* it, be it the first or a later one of its kind (cookie_matches, expired).
NotSentWhenOver ==
    \A c \in sent : c.max_age # 0 => now < c.set + c.max_age
=============================================================================
