---------------------------- MODULE RequestChain ----------------------------
(***************************************************************************)
(* The event `request' of a resource (circuits/http/server/resource, with  *)
(* its default features and ContentLanguage).  Some thirty handlers of     *)
(* many components are called in the order of their priorities, those of   *)
(* equal priority in any order; each of them may stop the event with a     *)
(* status, and one of them executes the method.                            *)
(*                                                                         *)
(* Handlers of one event are called without anything between them, so a    *)
(* method that is a plain function finds the state the preconditions were  *)
(* checked on.  A method that is a coroutine only becomes a task: it runs  *)
(* after the last handler, and after events that came in between.          *)
(***************************************************************************)
EXTENDS Integers, Sequences

CONSTANTS
    Clients,      \* one for each request
    Nobody,       \* no client
    Requests,     \* the requests each of them may send
    Methods,      \* the methods of the resource
    Supported,    \* Resource.supported_methods
    Coroutines,   \* those of Methods that are generator functions
    MaxVersion,   \* bound: states the resource goes through
    MaxFaults     \* bound: how often foreign code raises

None == 0
Invalid == -1

\* A state of the resource stands for its entity tag and for its date.
Versions == 1..MaxVersion

RequestType ==
    [method: Supported \cup {"PATCH"},
     match: Versions \cup {None},                        \* If-Match
     none_match: Versions \cup {None},                   \* If-None-Match
     modified_since: Versions \cup {None, Invalid},      \* If-Modified-Since
     unmodified_since: Versions \cup {None, Invalid},    \* If-Unmodified-Since
     range: BOOLEAN,                                     \* Range
     if_range: Versions \cup {None},                     \* If-Range
     body: BOOLEAN,                                      \* whether there is one
     type: {"none", "known", "unknown", "broken"},       \* Content-Type
     accept: BOOLEAN,         \* whether there is a representation it accepts
     language: BOOLEAN,       \* whether there is a translation it accepts
     permitted: BOOLEAN,      \* whether it meets the conditions of the method
     has: SUBSET {"etag", "last_modified"}]    \* what the resource tells of its state

ASSUME ChainAssumption ==
    /\ Nobody \notin Clients
    /\ Requests \in [Clients -> SUBSET RequestType]
    /\ "GET" \in Methods /\ Methods \subseteq Supported
    /\ Supported \intersect {"PATCH", "none"} = {}
    /\ Coroutines \subseteq Methods
    /\ MaxVersion \in Nat \ {0} /\ MaxFaults \in Nat

\* The priorities of the handlers, in 1/10000; `security' stands for the nine
\* handlers of the component Security, `caching' for the four of Cache-Control,
\* Expires, Pragma and Vary: all of them set one header.
Priority ==
    [pre_request |-> 10000, security |-> 8000, etag |-> 7000, last_modified |-> 7000,
     conditional_get |-> 6909, unmodified_since |-> 6908,
     none_match |-> 6900, match |-> 6900, if_range |-> 6900,
     check_method_exists |-> 6000, set_content_type |-> 5900, set_content_language |-> 5800,
     decode_input |-> 5500, not_acceptable |-> 5100,
     execute_method |-> 5000, execute_method_async |-> 5000,
     set_content_encoding |-> 4200, caching |-> 4000]

Handlers == DOMAIN Priority

VARIABLES
    version,     \* the state of the resource
    phase,       \* of a request: "new", "called", and "over"
    request,     \* client.request
    method,      \* client.method
    headers,     \* client.response.headers, those the handlers look at
    running,     \* the client whose event is dispatched
    pending,     \* handlers of this event not yet called
    stopped,     \* clients whose event has been stopped
    tasks,       \* clients whose method is a task of its event
    executed,    \* history: the state of the resource a method was executed on
    outcome,     \* history: what the event has led to
    faults       \* exceptions of foreign code so far

eventVars  == <<running, pending, stopped, outcome>>
clientVars == <<request, method, headers>>
vars == <<version, phase, clientVars, eventVars, tasks, executed, faults>>

NoRequest ==
    [method |-> "GET", match |-> None, none_match |-> None, modified_since |-> None,
     unmodified_since |-> None, range |-> FALSE, if_range |-> None, body |-> FALSE,
     type |-> "none", accept |-> TRUE, language |-> TRUE, permitted |-> TRUE,
     has |-> {}]

NoHeaders == [etag |-> None, last_modified |-> None, content_type |-> FALSE]

Outcomes == {"response", "failure", "304", "400", "403", "405", "406", "412", "415", "417",
             "500", "501"}

TypeOK ==
    /\ version \in Versions
    /\ phase \in [Clients -> {"new", "called", "over"}]
    /\ request \in [Clients -> RequestType]
    /\ method \in [Clients -> Methods \cup {"none"}]
    /\ headers \in [Clients -> [etag: Versions \cup {None},
                                last_modified: Versions \cup {None},
                                content_type: BOOLEAN]]
    /\ running \in Clients \cup {Nobody}
    /\ pending \subseteq Handlers
    /\ stopped \subseteq Clients
    /\ tasks \subseteq Clients
    /\ executed \in [Clients -> Versions \cup {None}]
    /\ outcome \in [Clients -> Seq(Outcomes)]
    /\ faults \in 0..MaxFaults

Init ==
    /\ version = 1
    /\ phase = [c \in Clients |-> "new"]
    /\ request = [c \in Clients |-> NoRequest]
    /\ method = [c \in Clients |-> "none"]
    /\ headers = [c \in Clients |-> NoHeaders]
    /\ running = Nobody /\ pending = {} /\ stopped = {} /\ tasks = {}
    /\ executed = [c \in Clients |-> None]
    /\ outcome = [c \in Clients |-> <<>>]
    /\ faults = 0

-----------------------------------------------------------------------------
(* The event loop: one event after the other, its handlers by priority *)

OnRequest(c) ==
    /\ running = Nobody
    /\ phase[c] = "new"
    /\ phase' = [phase EXCEPT ![c] = "called"]
    /\ \E r \in Requests[c] : request' = [request EXCEPT ![c] = r]
    /\ running' = c
    /\ pending' = Handlers
    /\ UNCHANGED <<version, method, headers, stopped, outcome, tasks, executed, faults>>

Called(h) ==
    /\ h \in pending
    /\ \A g \in pending : Priority[g] <= Priority[h]

\* The handler returns and the next one is called.
Returns(h) ==
    /\ pending' = pending \ {h}
    /\ UNCHANGED <<running, stopped, outcome>>

\* Bug: the status is fired, but the event goes on.
Raises_Goes(o) ==
    /\ \E h \in pending : Called(h) /\ pending' = pending \ {h}
    /\ stopped' = stopped \cup {running}
    /\ outcome' = [outcome EXCEPT ![running] = Append(@, o)]
    /\ UNCHANGED running

\* Bug: an exception that is no status is not raised again.
Raises_Swallows(o) ==
    /\ pending' = {}
    /\ stopped' = stopped \cup {running}
    /\ outcome' = IF o = "failure" THEN outcome
                  ELSE [outcome EXCEPT ![running] = Append(@, o)]
    /\ UNCHANGED running

\* httperror stops the event; a status is fired as event `httperror', any other
\* exception goes on to the event loop, which fires `request_failure'.
Raises(o) ==
    /\ pending' = {}
    /\ stopped' = stopped \cup {running}
    /\ outcome' = [outcome EXCEPT ![running] = Append(@, o)]
    /\ UNCHANGED running

Fault == faults < MaxFaults /\ faults' = faults + 1

\* A handler that calls methods of the resource, its conditions or its codecs.
ForeignRaises ==
    /\ Fault
    /\ \E h \in {"security", "etag", "last_modified", "set_content_type", "set_content_language",
                 "decode_input", "execute_method", "set_content_encoding", "caching"} :
          Called(h) /\ (h = "execute_method" => method[running] \notin Coroutines)
    /\ \E o \in {"failure", "500"} : Raises(o)
    /\ UNCHANGED <<version, phase, clientVars, tasks, executed>>

-----------------------------------------------------------------------------
(* The handlers; all of them are about the client of the running event *)

Request == request[running]
Headers == headers[running]

\* The handlers that only look, and let the request pass or raise a status.
Looks(h) ==
    /\ Called(h)
    /\ UNCHANGED <<version, phase, clientVars, tasks, executed, faults>>

\* httphandlers that set a header nobody looks at.
SetHeader == \E h \in {"security", "set_content_encoding", "caching"} : Looks(h) /\ Returns(h)

PreRequest ==
    /\ Called("pre_request") /\ Returns("pre_request")
    /\ method' = [method EXCEPT ![running] =
                    IF Request.method \in Methods THEN Request.method ELSE "none"]
    /\ UNCHANGED <<version, phase, request, headers, tasks, executed, faults>>

\* ETag._etag_header and LastModified._last_modified_header
Validator == \E h \in {"etag", "last_modified"} :
    /\ Called(h) /\ Returns(h)
    /\ headers' = IF h \in Request.has THEN [headers EXCEPT ![running][h] = version]
                  ELSE headers
    /\ UNCHANGED <<version, phase, request, method, tasks, executed, faults>>

ConditionalGet ==
    LET since == Request.modified_since
    IN /\ Looks("conditional_get")
       /\ IF Request.method \in {"GET", "HEAD"} /\ since # None /\ Headers.last_modified # None
          THEN \/ since = Invalid /\ Raises("400")
               \/ since # Invalid /\ Headers.last_modified <= since /\ Raises("304")
               \/ since # Invalid /\ Headers.last_modified > since /\ Returns("conditional_get")
          ELSE Returns("conditional_get")

UnmodifiedSince ==
    LET since == Request.unmodified_since
    IN /\ Looks("unmodified_since")
       /\ IF since # None
          THEN \/ Headers.last_modified = None /\ Raises("412")
               \/ Headers.last_modified # None /\ since = Invalid /\ Raises("400")
               \/ /\ Headers.last_modified # None /\ since # Invalid
                  /\ IF Headers.last_modified > since THEN Raises("412")
                     ELSE Returns("unmodified_since")
          ELSE Returns("unmodified_since")

NoneMatch ==
    /\ Looks("none_match")
    /\ IF Request.none_match # None /\ Headers.etag = Request.none_match
       THEN Raises(IF Request.method \in {"GET", "HEAD"} THEN "304" ELSE "412")
       ELSE Returns("none_match")

Match ==
    /\ Looks("match")
    /\ IF Request.match # None /\ Headers.etag \notin {None, Request.match}
       THEN Raises("412")
       ELSE Returns("match")

\* Bug: the header counts without Range.
IfRange_Alone ==
    /\ Looks("if_range")
    /\ IF /\ Request.if_range # None
          /\ Request.if_range \notin {Headers.etag, Headers.last_modified}
       THEN Raises("417")
       ELSE Returns("if_range")

\* The header is a tag or a date; a partial request that matches neither is
\* refused.
IfRange ==
    /\ Looks("if_range")
    /\ IF Request.if_range # None /\ Request.range
          /\ Request.if_range \notin {Headers.etag, Headers.last_modified}
       THEN Raises("417")
       ELSE Returns("if_range")

CheckMethodExists ==
    /\ Looks("check_method_exists")
    /\ \/ method[running] # "none" /\ Returns("check_method_exists")
       \/ method[running] = "none" /\ Raises(IF Request.method \in Supported THEN "405" ELSE "501")

SetContentType ==
    /\ Called("set_content_type") /\ Returns("set_content_type")
    /\ headers' = [headers EXCEPT ![running].content_type = Request.accept]
    /\ UNCHANGED <<version, phase, request, method, tasks, executed, faults>>

SetContentLanguage ==
    /\ Looks("set_content_language")
    /\ IF Request.language THEN Returns("set_content_language") ELSE Raises("406")

DecodeInput ==
    /\ Looks("decode_input")
    /\ IF Request.body /\ Request.type = "none" THEN Raises("415")
       ELSE IF Request.body /\ Request.method \in {"GET", "HEAD"} THEN Raises("400")
       ELSE IF Request.type = "unknown" THEN Raises("415")
       ELSE IF Request.type = "broken" THEN Raises("400")
       ELSE Returns("decode_input")

NotAcceptable ==
    /\ Looks("not_acceptable")
    /\ IF Headers.content_type THEN Returns("not_acceptable") ELSE Raises("406")

Safe == {"GET", "HEAD"}

\* What the method of a client does to the resource.
Execute(c) ==
    /\ executed' = [executed EXCEPT ![c] = version]
    /\ \/ method[c] \in Safe /\ UNCHANGED version
       \/ method[c] \notin Safe /\ version < MaxVersion /\ version' = version + 1

ExecuteMethod ==
    /\ Called("execute_method")
    /\ \/ /\ method[running] \in Coroutines
          /\ Returns("execute_method")
          /\ UNCHANGED <<version, executed, faults>>
       \/ /\ method[running] \notin Coroutines /\ Request.permitted
          /\ Execute(running)
          /\ \/ Returns("execute_method") /\ UNCHANGED faults
             \/ Fault /\ Raises("failure")                  \* Method.encode
       \/ /\ method[running] \notin Coroutines /\ ~Request.permitted
          /\ Raises("403")
          /\ UNCHANGED <<version, executed, faults>>
    /\ UNCHANGED <<phase, clientVars, tasks>>

\* A generator, whatever the method is: it does nothing before it is a task.
ExecuteMethodAsync ==
    /\ Called("execute_method_async") /\ Returns("execute_method_async")
    /\ tasks' = tasks \cup {running}
    /\ UNCHANGED <<version, phase, clientVars, executed, faults>>

\* `request_success' is passed over if the event was stopped.
Succeeds(c) ==
    outcome' = IF c \in stopped THEN outcome ELSE [outcome EXCEPT ![c] = Append(@, "response")]

\* The last handler has returned; if a task is left, the event waits for it.
EventDone ==
    /\ running # Nobody /\ pending = {}
    /\ running' = Nobody
    /\ \/ running \in tasks /\ UNCHANGED <<phase, outcome>>
       \/ /\ running \notin tasks
          /\ phase' = [phase EXCEPT ![running] = "over"]
          /\ Succeeds(running)
    /\ UNCHANGED <<version, clientVars, pending, stopped, tasks, executed, faults>>

\* The task runs to its end; a coroutine does so in a stopped event, too.  What
\* it raises passes by httperror: `request_failure' tells it.
TaskEnds(c) ==
    LET fails(o) == outcome' = [outcome EXCEPT ![c] = Append(@, o)]
    IN /\ running = Nobody
       /\ c \in tasks
       /\ tasks' = tasks \ {c}
       /\ phase' = [phase EXCEPT ![c] = "over"]
       /\ \/ /\ method[c] \notin Coroutines /\ Succeeds(c)
             /\ UNCHANGED <<version, executed, faults>>
          \/ /\ method[c] \in Coroutines /\ request[c].permitted
             /\ Execute(c)
             /\ \/ Succeeds(c) /\ UNCHANGED faults
                \/ Fault /\ fails("failure")
          \/ /\ method[c] \in Coroutines /\ ~request[c].permitted
             /\ fails("403")
             /\ UNCHANGED <<version, executed, faults>>
       /\ UNCHANGED <<clientVars, running, pending, stopped>>

-----------------------------------------------------------------------------
Checks == ConditionalGet \/ UnmodifiedSince \/ NoneMatch \/ Match \/ IfRange
          \/ CheckMethodExists \/ SetContentLanguage \/ DecodeInput \/ NotAcceptable

System ==
    \/ PreRequest \/ SetHeader \/ Validator \/ SetContentType \/ Checks
    \/ ExecuteMethod \/ ExecuteMethodAsync \/ EventDone
    \/ \E c \in Clients : TaskEnds(c)

Next == System \/ ForeignRaises \/ \E c \in Clients : OnRequest(c)

Spec == Init /\ [][Next]_vars

\* The event loop goes on, and the coroutines of the resource come to an end.
FairSpec == Spec /\ WF_vars(System)

-----------------------------------------------------------------------------
(* What must hold *)

\* The preconditions a request r has to meet on the state v to pass the handlers.
\* They are those of the code: it wants all that are given to hold, where RFC 7232
\* and 7233 ignore some (see FailsMatch and what follows it below).
NotKnown(r, v) == "last_modified" \in r.has /\ r.method \in Safe =>
    r.modified_since = None \/ r.modified_since \in 1..(v - 1)

Unmodified(r, v) == r.unmodified_since # None =>
    "last_modified" \in r.has /\ v <= r.unmodified_since

RangeHolds(r, v) == r.range /\ r.if_range # None => r.if_range = v /\ r.has # {}

Matches(r, v) == "etag" \in r.has => r.match \in {None, v}

NoneMatches(r, v) == "etag" \in r.has => r.none_match # v

Preconditions(r, v) ==
    /\ Matches(r, v) /\ NoneMatches(r, v)
    /\ NotKnown(r, v) /\ Unmodified(r, v) /\ RangeHolds(r, v)

Decodable(r) ==
    /\ r.type \in {"none", "known"}
    /\ r.body => r.type = "known" /\ r.method \notin Safe

\* Nothing is wrong with it but perhaps a condition of the method.
Checked(r, v) ==
    /\ r.method \in Methods
    /\ Decodable(r) /\ r.accept /\ r.language
    /\ Preconditions(r, v)

Acceptable(r, v) == Checked(r, v) /\ r.permitted

\* In whatever order the handlers of equal priority are called, a method is only
\* executed if every one of the checks has passed, and unless it is a coroutine
\* it works on the state of the resource they have passed on.
ExecutedAsChecked == \A c \in Clients : executed[c] # None =>
    \E v \in 1..executed[c] :
        /\ Acceptable(request[c], v)
        /\ method[c] \notin Coroutines => v = executed[c]

\* A new request has left no trace.
NewIsClean == \A c \in Clients : phase[c] = "new" =>
    /\ c \notin tasks /\ c \notin stopped /\ c # running
    /\ executed[c] = None /\ headers[c] = NoHeaders

Behind == {"execute_method_async", "set_content_encoding", "caching"}

\* A stopped event calls no handler.
Idle == running \in stopped \cup {Nobody} => pending = {}

\* The method comes after every check.
ExecutedLast == running # Nobody =>
    /\ executed[running] # None => pending \subseteq Behind /\ method[running] \notin Coroutines
    /\ running \in tasks => pending \subseteq Behind \cup {"execute_method"}

\* What a handler that has been called and did not stop the event has left.
Passed(h) ==
    /\ h = "pre_request" =>
          method[running] = IF Request.method \in Methods THEN Request.method ELSE "none"
    /\ h = "etag" => Headers.etag = IF h \in Request.has THEN version ELSE None
    /\ h = "last_modified" =>
          Headers.last_modified = IF h \in Request.has THEN version ELSE None
    /\ h = "conditional_get" => NotKnown(Request, version)
    /\ h = "unmodified_since" => Unmodified(Request, version)
    /\ h = "none_match" => NoneMatches(Request, version)
    /\ h = "match" => Matches(Request, version)
    /\ h = "if_range" => RangeHolds(Request, version)
    /\ h = "check_method_exists" => Request.method \in Methods
    /\ h = "set_content_type" => Headers.content_type = Request.accept
    /\ h = "set_content_language" => Request.language
    /\ h = "decode_input" => Decodable(Request)
    /\ h = "not_acceptable" => Request.accept

\* The state of the resource is the same from one check to the next.
PassedSoFar == running # Nobody /\ running \notin stopped /\ executed[running] = None =>
    \A h \in Handlers \ pending : Passed(h)

\* The headers a resource may not set are not there before it is asked.
Unset == running # Nobody =>
    /\ "etag" \in pending => Headers.etag = None
    /\ "last_modified" \in pending => Headers.last_modified = None

\* A coroutine that waits has been checked, on an earlier state perhaps.
TasksChecked == \A c \in tasks : method[c] \in Coroutines =>
    executed[c] = None /\ \E v \in 1..version : Checked(request[c], v)

\* The invariant of the chain, which is inductive.
ChainInvariant ==
    /\ TypeOK /\ NewIsClean /\ Idle /\ ExecutedLast /\ Unset
    /\ PassedSoFar /\ TasksChecked /\ ExecutedAsChecked

-----------------------------------------------------------------------------
(* What refusals are for: RFC 7232 (section 6), of a request r on the state v. *)
(* A tag goes before a date, and a date that is none does not count.           *)
(* An If-Unmodified-Since cannot hold of a resource that tells no date.        *)

FailsMatch(r, v) == r.match # None /\ ("etag" \in r.has => r.match # v)

IsChanged(r, v) ==
    /\ r.match = None /\ r.unmodified_since \in Versions
    /\ "last_modified" \in r.has => r.unmodified_since < v

FailsNoneMatch(r, v) == "etag" \in r.has /\ r.none_match = v

IsUnchanged(r, v) ==
    /\ r.none_match = None /\ r.modified_since \in Versions
    /\ r.method \in Safe /\ "last_modified" \in r.has /\ v <= r.modified_since

\* Whether a status is due to a request.
Due(status, r, v) ==
    \/ status = "412" /\ (FailsMatch(r, v) \/ IsChanged(r, v))
    \/ status = "412" /\ FailsNoneMatch(r, v) /\ r.method \notin Safe
    \/ status = "304" /\ FailsNoneMatch(r, v) /\ r.method \in Safe
    \/ status = "304" /\ IsUnchanged(r, v)
    \/ status = "405" /\ r.method \in Supported \ Methods
    \/ status = "501" /\ r.method \notin Supported
    \/ status = "406" /\ ~(r.accept /\ r.language)
    \/ status \in {"400", "415"} /\ ~Decodable(r)
    \/ status = "403" /\ ~r.permitted

\* Where the code departs from that: it looks at a date beside a tag, refuses a
\* date that is none, and refuses a part of a state that is not the one named,
\* of which RFC 7233 sends the whole.
DateBesideTag(status, r, v) ==
    \/ status = "412" /\ r.match # None /\ ~Unmodified(r, v)
    \/ status = "304" /\ r.none_match # None /\ ~NotKnown(r, v)

NoDate(status, r) ==
    \/ status \in {"400", "412"} /\ r.unmodified_since = Invalid
    \/ status = "400" /\ r.modified_since = Invalid

OtherPart(status, r, v) == status = "417" /\ r.range /\ ~RangeHolds(r, v)

Departs(status, r, v) ==
    DateBesideTag(status, r, v) \/ NoDate(status, r) \/ OtherPart(status, r, v)

\* A step that refuses a client: not foreign code, which may raise anything.
Status(c) == outcome'[c][Len(outcome'[c])]

Refused(c) == outcome'[c] # outcome[c] /\ faults' = faults /\ Status(c) # "response"

\* A status tells the truth: whoever is refused gets a status that is due to the
\* request on the state of the resource that is, but for the three departures.
Reasoned == \A c \in Clients : Refused(c) =>
    Due(Status(c), request[c], version) \/ Departs(Status(c), request[c], version)

RefusedForAReason == [][Reasoned]_vars

\* A request has one outcome: a response, a failure or a status.  Only a
\* coroutine whose event has been stopped by an exception behind it has two.
OneOutcome == \A c \in Clients :
    Len(outcome[c]) <= (IF c \in stopped /\ method[c] \in Coroutines /\ faults > 0 THEN 2 ELSE 1)

EveryRequestAnswered == \A c \in Clients : phase[c] = "called" ~> outcome[c] # <<>>
=============================================================================
