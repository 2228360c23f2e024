--------------------------- MODULE CookiesProofs ---------------------------
(***************************************************************************)
(* CookiesInvariant is an invariant of Cookies: the storage holds at most  *)
(* one cookie of a name, domain and path, and it is the one set last, as   *)
(* far as it is certain which cookie a Set-Cookie replaces.                *)
(***************************************************************************)
EXTENDS Cookies, TLAPS

\* The value cookies were set last is that of the storage.
LatestStored == \A c \in cookies : IsLatest(c)

\* What is true of the times of a cookie.
Timed == \A c \in cookies : c.value <= value /\ c.created <= c.set /\ c.set <= now

SentIsLatest == \A c \in sent : IsLatest(c)

SentIsFresh == \A c \in sent : c.created <= c.set /\ ~Expired(c)

LEMMA Parts ==
    CookiesInvariant <=>
        /\ TypeOK /\ OneOfAKind /\ Timed
        /\ LatestStored /\ SentIsLatest /\ SentIsFresh
BY DEF CookiesInvariant, Timed, LatestStored, SentIsLatest, SentIsFresh

LEMMA InitInvariant == Init => CookiesInvariant
<1> SUFFICES ASSUME Init PROVE CookiesInvariant
  OBVIOUS
<1>1. TypeOK
  BY DEF Init, TypeOK
<1>2. OneOfAKind /\ Timed /\ LatestStored /\ SentIsLatest /\ SentIsFresh
  BY DEF Init, OneOfAKind, Timed, LatestStored, SentIsLatest, SentIsFresh
<1> QED
  BY <1>1, <1>2, Parts

\* The key of a cookie does not depend on the time it was created.
LEMMA KeyOfCreated ==
    ASSUME NEW cookie \in CookieType, NEW old \in CookieType,
           NEW new, new = [cookie EXCEPT !.created = old.created]
    PROVE  /\ new \in CookieType
           /\ Key(new) = Key(cookie) /\ new.created = old.created
           /\ new.value = cookie.value /\ new.set = cookie.set
<1>1. new.name = cookie.name /\ new.domain = cookie.domain /\ new.path = cookie.path
      /\ new.host = cookie.host
  BY DEF CookieType
<1>2. Key(new) = Key(cookie)
  BY <1>1 DEF Key
<1> QED
  BY <1>2 DEF CookieType

LEMMA KeyTyped ==
    ASSUME NEW cookie \in CookieType
    PROVE  Key(cookie) \in Keys
BY DEF Key, Keys, CookieType

LEMMA KeyParts ==
    ASSUME NEW c, NEW d, Key(c) = Key(d)
    PROVE  /\ c.name = d.name /\ c.domain = d.domain /\ c.path = d.path
           /\ c.domain = None => c.host = d.host
BY DEF Key

\* Cookies of its key are among those a cookie is taken for, and if it has a
\* domain and a path there are no others.
LEMMA GetCookieOfKey ==
    ASSUME NEW cookie, NEW c \in cookies
    PROVE  /\ Key(c) = Key(cookie) => c \in GetCookie(cookie)
           /\ (c \in GetCookie(cookie) /\ cookie.domain # None /\ cookie.path # None)
                 => Key(c) = Key(cookie)
<1>1. ASSUME Key(c) = Key(cookie) PROVE c \in GetCookie(cookie)
  BY <1>1, KeyParts DEF GetCookie
<1>2. ASSUME c \in GetCookie(cookie), cookie.domain # None, cookie.path # None
      PROVE  Key(c) = Key(cookie)
  BY <1>2 DEF GetCookie, Key
<1> QED
  BY <1>1, <1>2

\* add_cookie leaves no other cookie of the key it was given, if that is certain.
LEMMA AddCookieEffect ==
    ASSUME CookiesInvariant,
           NEW cookie \in CookieType, AddCookie(cookie), cookie.value = value + 1,
           cookie.created = now, cookie.set = now
    PROVE  /\ \A c \in cookies' :
                \/ c \in cookies /\ (Certain(c)' => Key(c) # Key(cookie))
                \/ /\ c \in CookieType /\ Key(c) = Key(cookie)
                   /\ c.value = value + 1 /\ c.set = now /\ c.created <= now
           /\ \A c, d \in cookies' \ cookies : c = d
           /\ mistaken \subseteq mistaken' /\ mistaken' \subseteq Names
<1>1. /\ now \in Nat /\ value \in Nat /\ cookies \subseteq CookieType
      /\ mistaken \subseteq Names /\ OneOfAKind /\ Timed
  BY Parts DEF TypeOK
<1>2. CASE /\ GetCookie(cookie) = {}
           /\ cookies' = cookies \cup (IF Expired(cookie) THEN {} ELSE {cookie})
           /\ UNCHANGED mistaken
  <2>1. \A c \in cookies : Key(c) # Key(cookie)
    BY <1>2, GetCookieOfKey
  <2>2. \A c \in cookies' : c \in cookies \/ c = cookie
    BY <1>2
  <2> QED
    BY <1>1, <1>2, <2>1, <2>2
<1>3. CASE \E old \in GetCookie(cookie) :
             LET new == [cookie EXCEPT !.created = old.created]
             IN /\ cookies' = (cookies \ {old}) \cup (IF Expired(new) THEN {} ELSE {new})
                /\ mistaken' = mistaken \cup (IF Key(old) = Key(new) THEN {} ELSE {cookie.name})
  <2>1. PICK old \in GetCookie(cookie) :
             LET new == [cookie EXCEPT !.created = old.created]
             IN /\ cookies' = (cookies \ {old}) \cup (IF Expired(new) THEN {} ELSE {new})
                /\ mistaken' = mistaken \cup (IF Key(old) = Key(new) THEN {} ELSE {cookie.name})
    BY <1>3
  <2>2. PICK new : new = [cookie EXCEPT !.created = old.created]
    OBVIOUS
  <2>3. old \in cookies /\ old \in CookieType
    BY <1>1 DEF GetCookie
  <2>4. /\ new \in CookieType /\ Key(new) = Key(cookie) /\ new.created = old.created
        /\ new.value = value + 1 /\ new.set = now
    BY <2>2, <2>3, KeyOfCreated
  <2>5. new.created <= now
    BY <1>1, <2>3, <2>4 DEF Timed, CookieType
  <2>6. \A c \in cookies' : (c \in cookies /\ c # old) \/ c = new
    BY <2>1, <2>2
  <2>7. mistaken' = mistaken \cup (IF Key(old) = Key(cookie) THEN {} ELSE {cookie.name})
    BY <2>1, <2>2, <2>4
  <2>8. cookie.name \in Names
    BY DEF CookieType
  <2>9. ASSUME NEW c \in cookies, c # old, Certain(c)' PROVE Key(c) # Key(cookie)
    <3>1. SUFFICES ASSUME Key(c) = Key(cookie) PROVE FALSE
      OBVIOUS
    <3>2. c.name = cookie.name /\ c.domain = cookie.domain /\ c.path = cookie.path
      BY <3>1, KeyParts
    <3>3. Key(old) = Key(cookie)
      <4>1. CASE c.domain # None /\ c.path # None
        BY <2>1, <2>3, <3>2, <4>1, GetCookieOfKey
      <4>2. CASE c.name \notin mistaken'
        BY <2>7, <3>2, <4>2
      <4> QED
        BY <2>9, <4>1, <4>2 DEF Certain
    <3>4. Certain(c)
      BY <2>7, <2>9 DEF Certain
    <3> QED
      BY <1>1, <2>3, <2>9, <3>1, <3>3, <3>4 DEF OneOfAKind
  <2> QED
    BY <1>1, <2>4, <2>5, <2>6, <2>7, <2>8, <2>9
<1> QED
  BY <1>2, <1>3 DEF AddCookie

LEMMA OnResponseInvariant ==
    ASSUME CookiesInvariant, OnResponse
    PROVE  CookiesInvariant'
<1>1. /\ TypeOK /\ OneOfAKind /\ Timed /\ LatestStored
  BY Parts
<1>2. PICK s \in SetCookies :
        LET cookie == [name |-> s.name, host |-> s.host, domain |-> s.domain, path |-> s.path,
                        max_age |-> s.max_age, secure |-> s.secure, value |-> value + 1,
                        created |-> now, set |-> now]
        IN /\ AddCookie(cookie)
           /\ latest' = [latest EXCEPT ![Key(cookie)] = value + 1]
  BY DEF OnResponse
<1>3. PICK cookie : cookie = [name |-> s.name, host |-> s.host, domain |-> s.domain, path |-> s.path,
                        max_age |-> s.max_age, secure |-> s.secure, value |-> value + 1,
                        created |-> now, set |-> now]
  OBVIOUS
<1>4. s \in SetCookieType /\ now \in Nat /\ value \in Nat /\ latest \in [Keys -> Nat]
      /\ cookies \subseteq CookieType
  BY <1>1, CookiesAssumption DEF CookiesAssumption, TypeOK
<1>5. /\ cookie \in CookieType
      /\ cookie.value = value + 1 /\ cookie.created = now /\ cookie.set = now
  BY <1>3, <1>4 DEF SetCookieType, CookieType
<1>6. /\ AddCookie(cookie) /\ Key(cookie) \in Keys
      /\ latest' = [latest EXCEPT ![Key(cookie)] = value + 1]
  BY <1>2, <1>3, <1>5, KeyTyped
<1>7. now' = now /\ value' = value + 1 /\ sent' = {}
  BY DEF OnResponse
<1>8. /\ \A c \in cookies' :
           \/ c \in cookies /\ (Certain(c)' => Key(c) # Key(cookie))
           \/ /\ c \in CookieType /\ Key(c) = Key(cookie)
              /\ c.value = value + 1 /\ c.set = now /\ c.created <= now
      /\ \A c, d \in cookies' \ cookies : c = d
      /\ mistaken \subseteq mistaken' /\ mistaken' \subseteq Names
  BY <1>5, <1>6, AddCookieEffect
<1>15. \A c : Certain(c)' => Certain(c)
  BY <1>8 DEF Certain
<1>9. latest' \in [Keys -> Nat]
  BY <1>4, <1>6
<1>10. TypeOK'
  BY <1>4, <1>7, <1>8, <1>9 DEF TypeOK
<1>11. OneOfAKind'
  <2> SUFFICES ASSUME NEW c \in cookies', NEW d \in cookies', Certain(c)', Key(c) = Key(d)
               PROVE  c = d
    BY DEF OneOfAKind, Key
  <2>1. \A e \in cookies : e.value # value + 1
    BY <1>1, <1>4 DEF Timed, CookieType
  <2>4. Certain(d)'
    <3>1. c.name = d.name /\ c.domain = d.domain /\ c.path = d.path
      BY KeyParts
    <3> QED
      BY <3>1 DEF Certain
  <2>2. CASE c \in cookies /\ Key(c) # Key(cookie)
    BY <1>1, <1>8, <1>15, <2>2 DEF OneOfAKind
  <2>3. CASE Key(c) = Key(cookie)
    BY <1>8, <2>1, <2>3, <2>4
  <2> QED
    BY <2>2, <2>3, <1>8
<1>12. Timed'
  BY <1>1, <1>4, <1>7, <1>8 DEF Timed, CookieType
<1>13. LatestStored'
  <2> SUFFICES ASSUME NEW c \in cookies', Certain(c)' PROVE c.value = latest'[Key(c)]
    BY DEF LatestStored, IsLatest, Key
  <2>1. CASE c \in cookies /\ Key(c) # Key(cookie)
    <3>1. c.value = latest[Key(c)]
      BY <1>1, <1>15, <2>1 DEF LatestStored, IsLatest
    <3> QED
      BY <1>4, <1>6, <2>1, <3>1
  <2>2. CASE Key(c) = Key(cookie) /\ c.value = value + 1
    BY <1>4, <1>6, <2>2
  <2> QED
    BY <1>8, <2>1, <2>2
<1>14. SentIsLatest' /\ SentIsFresh'
  BY <1>7 DEF SentIsLatest, SentIsFresh
<1> QED
  BY <1>10, <1>11, <1>12, <1>13, <1>14
    DEF CookiesInvariant, Timed, LatestStored, SentIsLatest, SentIsFresh

LEMMA OnRequestInvariant ==
    ASSUME CookiesInvariant, OnRequest
    PROVE  CookiesInvariant'
<1>1. TypeOK /\ OneOfAKind /\ Timed /\ LatestStored
  BY Parts
<1>2. now' = now /\ value' = value /\ latest' = latest /\ mistaken' = mistaken
      /\ cookies' \subseteq cookies /\ sent' \subseteq cookies
  BY DEF OnRequest, Sends
<1>3. \A c \in sent' : ~Expired(c)
  BY DEF OnRequest, Sends
<1>4. TypeOK'
  BY <1>1, <1>2 DEF TypeOK
<1>5. OneOfAKind' /\ Timed' /\ LatestStored'
  BY <1>1, <1>2 DEF OneOfAKind, Timed, LatestStored, IsLatest, Certain, Key
<1>6. SentIsLatest'
  BY <1>1, <1>2 DEF LatestStored, SentIsLatest, IsLatest, Certain, Key
<1>7. SentIsFresh'
  BY <1>1, <1>2, <1>3 DEF Timed, SentIsFresh, Expired
<1> QED
  BY <1>4, <1>5, <1>6, <1>7
    DEF CookiesInvariant, Timed, LatestStored, SentIsLatest, SentIsFresh

LEMMA TickInvariant ==
    ASSUME CookiesInvariant, Tick
    PROVE  CookiesInvariant'
<1>1. TypeOK /\ OneOfAKind /\ Timed /\ LatestStored
  BY Parts
<1>2. now' = now + 1 /\ sent' = {} /\ UNCHANGED <<cookies, value, latest, mistaken>>
  BY DEF Tick
<1>3. TypeOK'
  BY <1>1, <1>2 DEF TypeOK
<1>4. OneOfAKind' /\ LatestStored' /\ SentIsLatest' /\ SentIsFresh'
  BY <1>1, <1>2 DEF OneOfAKind, LatestStored, SentIsLatest, SentIsFresh, IsLatest, Certain, Key
<1>5. Timed'
  BY <1>1, <1>2 DEF Timed, TypeOK, CookieType
<1> QED
  BY <1>3, <1>4, <1>5
    DEF CookiesInvariant, Timed, LatestStored, SentIsLatest, SentIsFresh

\* The inductive invariant of the storage: of each key there is one cookie, the
\* one that was set last, as far as it is certain which one that replaced.
THEOREM CookiesAreSound == Spec => []CookiesInvariant
<1>1. ASSUME CookiesInvariant, [Next]_vars PROVE CookiesInvariant'
  <2>1. CASE UNCHANGED vars
    BY <1>1, <2>1 DEF CookiesInvariant, TypeOK, OneOfAKind, IsLatest, Certain, Key, Expired, vars
  <2> QED
    BY <1>1, <2>1, OnResponseInvariant, OnRequestInvariant, TickInvariant DEF Next
<1> QED
  BY <1>1, InitInvariant, PTL DEF Spec

\* No request carries a value that its server has replaced: never of a cookie with
\* a domain and a path, and of another not before a cookie of its name has been
\* taken for another one (ReplacedIsNotSent).
THEOREM CertainlyReplaced == Spec => []ReplacedIsNotSent
<1>1. CookiesInvariant => ReplacedIsNotSent
  BY DEF CookiesInvariant, ReplacedIsNotSent, IsLatest
<1> QED
  BY <1>1, CookiesAreSound, PTL

\* No request carries a cookie longer than Max-Age after it was set, although
\* creation_time is that of the cookie it replaced (NotSentWhenOver).
THEOREM NeverOver == Spec => []NotSentWhenOver
<1>1. CookiesInvariant => NotSentWhenOver
  <2> SUFFICES ASSUME CookiesInvariant, NEW c \in sent, c.max_age # 0
               PROVE  now < c.set + c.max_age
    BY DEF NotSentWhenOver
  <2>1. c \in CookieType /\ now \in Nat /\ c.created <= c.set /\ ~Expired(c)
    BY DEF CookiesInvariant, TypeOK
  <2> QED
    BY <2>1 DEF Expired, CookieType
<1> QED
  BY <1>1, CookiesAreSound, PTL
=============================================================================
