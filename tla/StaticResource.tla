--------------------------- MODULE StaticResource ---------------------------
(***************************************************************************)
(* A file that other processes change while it is served                   *)
(* (circuits/http/server/resource/static.py), to a peer that keeps the     *)
(* response and asks again with If-Modified-Since.  The handlers look the  *)
(* file up by its name three times: when it is identified, when it is      *)
(* opened and for Last-Modified.                                           *)
(*                                                                         *)
(* A GET offers the type of the file, which the extension of its name      *)
(* tells, or else libmagic; any other method offers what its Method has    *)
(* codecs for (method.py).  A media range is a pair <<type, subtype>>, "*" *)
(* stands for any.                                                         *)
(***************************************************************************)
EXTENDS Naturals, Sequences, Functions

CONSTANTS
    None,
    FileType,      \* what mimetypes or magic tell of the file, or None
    Available,     \* Method.available_mimetypes: by quality, the best first
    Accepts,       \* headers Accept: of ranges the quality, rounded up to 0 or 1
    MaxInodes,     \* bound: files that get the name
    MaxWrites,     \* bound: contents
    MaxTime        \* bound: seconds

Types == {FileType} \cup Range(Available)

ASSUME StaticAssumption ==
    /\ \A a \in Accepts : a \in [DOMAIN a -> {0, 1}]
    /\ \A a \in Accepts : \A r \in DOMAIN a : r = <<r[1], r[2]>>
    /\ Available \in Seq(Range(Available))
    /\ None \notin Range(Available) \cup Nat
    /\ MaxInodes \in Nat \ {0} /\ MaxWrites \in Nat \ {0} /\ MaxTime \in Nat

Inodes == 1..MaxInodes

VARIABLES
    now,
    file,        \* the inode the name stands for, or None
    extension,   \* the extension of the name tells FileType; if not, magic does
    kind,        \* of each inode: "file", "unreadable" or "directory"
    content, mtime,
    handler,     \* the handler of the request that is called next
    request,     \* [method, accept, since]
    opened,      \* client.response.body: the inode
    headers,     \* client.response.headers
    outcome,
    cached,      \* what the peer has kept
    \* history
    inodes, writes,
    told,        \* the file when Last-Modified was looked up
    restored     \* an older file has been put in the place of a newer one

fileVars    == <<now, file, extension, kind, content, mtime, inodes, writes, restored>>
requestVars == <<handler, request, opened, headers, outcome, cached, told>>
vars == <<fileVars, requestVars>>

NoRequest == [method |-> "GET", accept |-> <<>>, since |-> None]
NoHeaders == [last_modified |-> None, content_type |-> None]
NotTold   == [inode |-> None, content |-> None, over |-> FALSE]
Nothing   == [content |-> None, last_modified |-> None, firm |-> FALSE]

Times == 0..now \cup {None}

FileTypeOK ==
    /\ now \in Nat /\ inodes \in Inodes /\ writes \in Nat
    /\ file \in (1..inodes) \cup {None}
    /\ kind \in [Inodes -> {"file", "unreadable", "directory"}]
    /\ content \in [Inodes -> Nat] /\ mtime \in [Inodes -> 0..now]
    /\ extension \in BOOLEAN /\ restored \in BOOLEAN

RequestTypeOK ==
    /\ handler \in {"routing", "open", "last_modified", "conditional_get", "content_type", "body"}
    /\ request \in [method: {"GET", "HEAD"}, accept: Accepts \cup {<<>>}, since: Times]
    /\ opened \in (1..inodes) \cup {None}
    /\ headers \in [last_modified: Times, content_type: Types \cup {None}]
    /\ outcome \in {"none", "200", "304", "403", "404", "406", "failure"}
    /\ cached \in [content: Nat \cup {None}, last_modified: Times, firm: BOOLEAN]
    /\ told \in [inode: (1..inodes) \cup {None}, content: Nat \cup {None}, over: BOOLEAN]

Init ==
    /\ now = 0 /\ file = 1 /\ inodes = 1 /\ writes = 1
    /\ extension \in BOOLEAN
    /\ kind = [i \in Inodes |-> "file"]
    /\ content = [i \in Inodes |-> IF i = 1 THEN 1 ELSE 0]
    /\ mtime = [i \in Inodes |-> 0]
    /\ handler = "routing" /\ outcome = "none"
    /\ request = NoRequest /\ opened = None /\ headers = NoHeaders
    /\ cached = Nothing /\ told = NotTold
    /\ restored = FALSE

-----------------------------------------------------------------------------
(* Other processes *)

\* A file of its own is renamed to the name, with the time it was written or
\* an older one; the name may come to stand for a directory as well.
Replace ==
    /\ inodes < MaxInodes /\ writes < MaxWrites
    /\ inodes' = inodes + 1 /\ writes' = writes + 1
    /\ file' = inodes + 1
    /\ content' = [content EXCEPT ![inodes + 1] = writes + 1]
    /\ \E k \in {"file", "unreadable", "directory"} : kind' = [kind EXCEPT ![inodes + 1] = k]
    /\ \E t \in 0..now :
         /\ mtime' = [mtime EXCEPT ![inodes + 1] = t]
         /\ restored' = (restored \/ t < now)
    /\ UNCHANGED <<now, extension, requestVars>>

Overwrite ==
    /\ file # None /\ writes < MaxWrites
    /\ kind[file] # "directory"
    /\ writes' = writes + 1
    /\ content' = [content EXCEPT ![file] = writes + 1]
    /\ mtime' = [mtime EXCEPT ![file] = now]
    /\ UNCHANGED <<now, file, extension, kind, inodes, restored, requestVars>>

Remove ==
    /\ file # None
    /\ file' = None
    /\ UNCHANGED <<now, extension, kind, content, mtime, inodes, writes, restored, requestVars>>

Tick ==
    /\ now < MaxTime
    /\ now' = now + 1
    /\ UNCHANGED <<file, extension, kind, content, mtime, inodes, writes, restored, requestVars>>

-----------------------------------------------------------------------------
(* Content negotiation *)

Quality(accept, range, default) == IF range \in DOMAIN accept THEN accept[range] ELSE default

\* The types that an Accept header does not refuse: one that it does not name
\* has the quality `default'
Acceptable(accept, available, default) ==
    {m \in Range(available) : Quality(accept, m, default) # 0}

\* The first of these that is among the good ones, as a set
First(seq, good) ==
    {seq[i] : i \in {j \in DOMAIN seq : seq[j] \in good /\ \A k \in 1..(j - 1) : seq[k] \notin good}}

Wildcards_Any(accept, available) ==
    IF <<"*", "*">> \notin DOMAIN accept THEN {}
    ELSE First(available, Acceptable(accept, available, 1))

\* What each of the ranges with a wildcard leads to; their order is that of a
\* dictionary.
Wildcards(accept, available) ==
    UNION {First(available, {m \in Acceptable(accept, available, 1) : range[1] \in {"*", m[1]}}) :
             range \in {r \in DOMAIN accept : r[2] = "*"}}

\* Method.content_type_negotiation, as a set: the type, if there is one
Negotiate(accept, available) ==
    LET accepted == IF accept = <<>> THEN [r \in {<<"*", "*">>} |-> 1] ELSE accept
        exact == First(available, Acceptable(accepted, available, 0))
    IN IF exact # {} THEN exact ELSE Wildcards(accepted, available)

\* What StaticResource.content_type looks for in an Accept header: the type
\* and its own wildcard only if the extension tells the type.
Looked(named) ==
    {<<"*", "*">>} \cup (IF named THEN {FileType, <<FileType[1], "*">>} ELSE {})

\* Ranges are looked at here, their quality is not.
ContentType(method, accept, named) ==
    IF method # "GET" THEN Negotiate(accept, Available)
    ELSE IF \/ FileType = None
            \/ accept # <<>> /\ DOMAIN accept \intersect Looked(named) = {}
    THEN {} ELSE {FileType}

-----------------------------------------------------------------------------
(* The handlers of `routing' and `request', by priority *)

Ends(o) ==
    /\ outcome' = o
    /\ handler' = "routing"

\* What a request begins with, and whether the file is identified
Routing ==
    /\ handler = "routing"
    /\ \E method \in {"GET", "HEAD"}, accept \in Accepts \cup {<<>>},
          since \in {cached.last_modified, None} :
         request' = [method |-> method, accept |-> accept, since |-> since]
    /\ opened' = None /\ headers' = NoHeaders
    /\ IF file = None THEN Ends("404")
       ELSE IF kind[file] = "directory" THEN Ends("404")
       ELSE outcome' = "none" /\ handler' = "open"
    /\ UNCHANGED <<cached, told, fileVars>>

Open ==
    /\ handler = "open"
    /\ IF file = None THEN Ends("404") /\ UNCHANGED opened
       ELSE IF kind[file] = "unreadable" THEN Ends("403") /\ UNCHANGED opened
       ELSE IF kind[file] = "directory" THEN Ends("failure") /\ UNCHANGED opened
       ELSE handler' = "last_modified" /\ opened' = file /\ UNCHANGED outcome
    /\ UNCHANGED <<request, headers, cached, told, fileVars>>

\* By the name of the open file, again
LastModified ==
    /\ handler = "last_modified"
    /\ handler' = "conditional_get"
    /\ headers' = [headers EXCEPT !.last_modified = IF file = None THEN None ELSE mtime[file]]
    /\ told' = IF file = None THEN NotTold
                ELSE [inode |-> file, content |-> content[file], over |-> mtime[file] < now]
    /\ UNCHANGED <<request, opened, outcome, cached, fileVars>>

Unmodified_Older(last_modified, since) == since <= last_modified

Unmodified(last_modified, since) == last_modified <= since

ConditionalGet ==
    /\ handler = "conditional_get"
    /\ IF /\ request.since # None /\ headers.last_modified # None
          /\ Unmodified(headers.last_modified, request.since)
       THEN Ends("304")
       ELSE handler' = "content_type" /\ UNCHANGED outcome
    /\ UNCHANGED <<request, opened, headers, cached, told, fileVars>>

\* ContentType.set_content_type and _not_acceptable
SetContentType ==
    /\ handler = "content_type"
    /\ LET offered == ContentType(request.method, request.accept, extension)
       IN \/ offered = {} /\ Ends("406") /\ UNCHANGED headers
          \/ \E type \in offered :
               /\ headers' = [headers EXCEPT !.content_type = type]
               /\ handler' = "body" /\ UNCHANGED outcome
    /\ UNCHANGED <<request, opened, cached, told, fileVars>>

\* GET returns the open file; the peer keeps what it gets with its date.  A
\* copy is firm if the date is that of the file it is of, and that second was
\* over when it was looked up.
SendBody ==
    /\ handler = "body"
    /\ Ends("200")
    /\ cached' = IF request.method = "GET"
                 THEN [content |-> content[opened], last_modified |-> headers.last_modified,
                       firm |-> told.inode = opened /\ told.over]
                 ELSE cached
    /\ UNCHANGED <<request, opened, headers, told, fileVars>>

Next ==
    \/ Replace \/ Overwrite \/ Remove \/ Tick
    \/ Routing \/ Open \/ LastModified \/ ConditionalGet \/ SetContentType \/ SendBody

Spec == Init /\ [][Next]_vars

-----------------------------------------------------------------------------

\* Who is told that the file was not modified has what it was when it was
\* looked up, if the peer's copy is firm and no file was put back in time: in
\* whatever way the file was written, replaced or removed between the handlers
\* of one and of several requests (last_modified, conditional_get).
NotModifiedIsTrue ==
    (outcome = "304" /\ cached.firm /\ ~restored) => cached.content = told.content

\* A date that is over belongs to this content: the file has it unless it has
\* been written later.
Dates(last_modified, its) ==
    /\ last_modified # None /\ last_modified < now
    /\ (file # None /\ mtime[file] <= last_modified) => content[file] = its

CachedIsDated ==
    cached.firm => Dates(cached.last_modified, cached.content)

OpenedIsDated ==
    (/\ handler \in {"conditional_get", "content_type", "body"}
     /\ told.over /\ told.inode = opened)
        => Dates(headers.last_modified, content[opened])

ToldIsCached ==
    (/\ handler = "conditional_get" /\ cached.firm
     /\ headers.last_modified # None /\ headers.last_modified <= cached.last_modified)
        => cached.content = told.content

StaticInvariant ==
    /\ FileTypeOK /\ RequestTypeOK
    /\ handler \in {"last_modified", "conditional_get", "content_type", "body"} => opened # None
    /\ handler # "routing" => outcome = "none" /\ request.since \in {cached.last_modified, None}
    /\ ~restored => CachedIsDated /\ OpenedIsDated /\ ToldIsCached
    /\ NotModifiedIsTrue

\* The quality of a type: of the range that is most specific, 1 if none is given
Accepted(accept, m) ==
    \/ accept = <<>>
    \/ Quality(accept, m, Quality(accept, <<m[1], "*">>, Quality(accept, <<"*", "*">>, 0))) # 0

Offered == IF request.method = "GET" THEN {FileType} ELSE Range(Available)

\* Ranges that are refused (q=0) to no effect: any by a GET, which asks for no
\* quality, and those with a wildcard by another method.
Ignored ==
    {r \in DOMAIN request.accept :
        request.accept[r] = 0 /\ (request.method = "GET" \/ r[2] = "*")}

\* A request is refused as not acceptable only if nothing that is offered is
\* acceptable, except a GET of a file without an extension, which has to accept
\* anything; and it gets what it accepts, except by a refusal that is ignored
\* (content_type, content_type_negotiation).
NegotiationIsRight ==
    /\ outcome = "406" =>
          \/ \A m \in Offered \ {None} : ~Accepted(request.accept, m)
          \/ request.method = "GET" /\ ~extension /\ <<"*", "*">> \notin DOMAIN request.accept
    /\ outcome = "200" /\ Ignored = {} => Accepted(request.accept, headers.content_type)
=============================================================================
