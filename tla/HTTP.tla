-------------------------------- MODULE HTTP --------------------------------
(***************************************************************************)
(* The server component HTTP (circuits/http/server/server.py) with the     *)
(* per-connection State (_state.py), the Client objects (wrapper/client.py)*)
(* and the chain of events that takes a request from the bytes of a `read' *)
(* to the last chunk of its response.                                      *)
(*                                                                         *)
(* Everything runs in one thread.  A handler runs to its end and fires     *)
(* events; circuits dispatches them first in, first out.  A tick of the    *)
(* event loop first lets the waiting coroutines run and then dispatches    *)
(* the events that were queued when it began; what these fire waits for    *)
(* the next tick.  So the poller, the timers and the coroutines act only   *)
(* between two batches of events, and handlers of different requests       *)
(* interleave event by event.                                              *)
(***************************************************************************)
EXTENDS Integers, Sequences, FiniteSets

CONSTANTS
    Sockets,      \* the peer sockets TCPServer may accept
    NoSocket,     \* the owner of a Client that does not exist yet
    MaxClients,   \* bound: Client objects (one per parsed message)
    ReadSizes,    \* bound: how many messages the data of one read completes
    MaxChunks,    \* bound: chunks a response body yields
    Replies,      \* the responses resources give, a subset of ReplySpace
    Peer,         \* what peers do besides sending well-formed requests
    Raises,       \* where code outside the component raises unexpectedly
    MaxFaults     \* bound: how often such code raises in one behaviour

(***************************************************************************)
(* A Client stands for the request, its response and their progress.  They *)
(* are numbered in the order the parser creates them.                      *)
(*                                                                         *)
(* Of a response matter: the chunks its body has left, whether its body is *)
(* a generator of an unsafe method that must run even if nobody reads it,  *)
(* and whether its status turns the connection into a tunnel.              *)
(***************************************************************************)
Clients == 1..MaxClients

ReplySpace == [left: 0..MaxChunks, mustRun: BOOLEAN, upgrade: BOOLEAN]

EmptyReply == [left |-> 0, mustRun |-> FALSE, upgrade |-> FALSE]
ErrorReply == [left |-> 1, mustRun |-> FALSE, upgrade |-> FALSE]

PeerActions == {"malformed", "tls", "hangup", "ssl error", "plaintext error"}

FaultPlaces == {"routing", "later handler", "coroutine", "filter", "observer",
                "httperror", "encode", "prepare", "body"}

ASSUME ConstantsAssumption ==
    /\ NoSocket \notin Sockets
    /\ MaxClients \in Nat \ {0}
    /\ ReadSizes \subseteq Nat
    /\ MaxChunks \in Nat \ {0}
    /\ Replies \subseteq ReplySpace
    /\ Peer \subseteq PeerActions
    /\ Raises \subseteq FaultPlaces
    /\ MaxFaults \in Nat

VARIABLES
    queue,             \* events fired and not yet dispatched
    batch,             \* how many of them the current tick still dispatches
    conn,              \* the connection as TCPServer and the peer see it
    sent,              \* messages peers have sent (bounded by MaxClients)
    born,              \* how many Client objects exist
    socket,            \* Client.socket
    done,              \* Client.done
    handled,           \* Client.handled
    reply,             \* Client.response
    task,              \* the coroutine of a request handler
    known,             \* the keys of HTTP._buffers
    requests,          \* State.requests
    responses,         \* State.responses
    response_started,  \* State.response_started
    composed,          \* the clients whose State.composed[client].close holds
    tunnel,            \* State.tunnel
    timeout,           \* State.timeout is a timer that still sleeps
    parser,            \* State.parser: httoop's, or the one that only alerts
    checks,            \* _check_timeout coroutines that have not run yet
    written,           \* history: what a peer is sent, in order, or still has coming
    faults             \* how often foreign code has raised

loopVars   == <<queue, batch>>
netVars    == <<conn, sent>>
clientVars == <<born, socket, done, handled, reply, task>>
pipeVars   == <<requests, responses, response_started, composed>>
stateVars  == <<known, pipeVars, tunnel, timeout, parser>>
vars == <<loopVars, netVars, clientVars, stateVars, checks, written, faults>>

-----------------------------------------------------------------------------
(* Events *)

StreamNames == {"response.start", "response.body", "response.complete"}

ClientEventNames ==
    StreamNames \cup
    {"routing", "routing_success", "domain.routing", "domain.routing_success",
     "request", "request_success", "request_failure", "response",
     "response_failure", "httperror", "httperror_success",
     "httperror_failure", "exception:httperror_success",
     "exception:response.body"}

SocketEventNames ==
    {"timeout.check", "eof", "close", "disconnect", "ssl error",
     "plaintext error"}

ClientEvents == [name: ClientEventNames, client: Clients]
SocketEvents == [name: SocketEventNames, socket: Sockets]
ReadEvents   == [name: {"read"}, socket: Sockets, messages: ReadSizes,
                 data: {"http", "malformed", "tls"}]
Events == ClientEvents \cup SocketEvents \cup ReadEvents

ClientEvent(n, c) == [name |-> n, client |-> c]
SocketEvent(n, s) == [name |-> n, socket |-> s]

Parts == {"head", "body", "error", "alert"}

TypeOK ==
    /\ queue \in Seq(Events)
    /\ batch \in 0..Len(queue)
    /\ conn \in [Sockets -> {"new", "open", "eof", "closed"}]
    /\ sent \in 0..MaxClients
    /\ born \in 0..MaxClients
    /\ socket \in [Clients -> Sockets \cup {NoSocket}]
    /\ done \in [Clients -> BOOLEAN]
    /\ handled \in [Clients -> BOOLEAN]
    /\ reply \in [Clients -> ReplySpace]
    /\ task \in [Clients -> {"none", "running", "stopped"}]
    /\ known \subseteq Sockets
    /\ requests \in [Sockets -> Seq(Clients)]
    /\ responses \subseteq Clients
    /\ response_started \subseteq Clients
    /\ composed \subseteq Clients
    /\ tunnel \in [Sockets -> BOOLEAN]
    /\ timeout \in [Sockets -> BOOLEAN]
    /\ parser \in [Sockets -> {"http", "alert"}]
    /\ checks \subseteq Sockets
    /\ written \in [Sockets -> Seq([client: Clients \cup {0}, part: Parts])]
    /\ faults \in 0..MaxFaults

Init ==
    /\ queue = <<>> /\ batch = 0
    /\ conn = [s \in Sockets |-> "new"] /\ sent = 0
    /\ born = 0
    /\ socket = [c \in Clients |-> NoSocket]
    /\ done = [c \in Clients |-> FALSE]
    /\ handled = [c \in Clients |-> FALSE]
    /\ reply = [c \in Clients |-> EmptyReply]
    /\ task = [c \in Clients |-> "none"]
    /\ known = {}
    /\ requests = [s \in Sockets |-> <<>>]
    /\ responses = {} /\ response_started = {} /\ composed = {}
    /\ tunnel = [s \in Sockets |-> FALSE]
    /\ timeout = [s \in Sockets |-> FALSE]
    /\ parser = [s \in Sockets |-> "http"]
    /\ checks = {}
    /\ written = [s \in Sockets |-> <<>>]
    /\ faults = 0

-----------------------------------------------------------------------------
(* The event loop *)

\* The event at the head of the queue is dispatched: its name and subject.
Take(n) ==
    /\ batch > 0
    /\ queue # <<>>
    /\ Head(queue).name = n
    /\ batch' = batch - 1

TakeClient(n, c) == Take(n) /\ c = Head(queue).client
TakeSocket(n, s) == Take(n) /\ s = Head(queue).socket

\* Its handlers fire the events es, in this order.
Fire(es) == queue' = Tail(queue) \o es

\* A coroutine or the poller fires an event between two batches.
Enqueue(e) == batch = 0 /\ queue' = Append(queue, e) /\ UNCHANGED batch

\* Foreign code raises at a place where nothing expects it to.
Fault(place) ==
    /\ place \in Raises
    /\ faults < MaxFaults
    /\ faults' = faults + 1

\* A `write' is an event, and TCPServer buffers its data until the peer takes
\* it: a part that is written is on its way.  Writes to a dead socket vanish.
Write(s, c, part) ==
    written' = IF conn[s] = "closed" THEN written
               ELSE [written EXCEPT ![s] = Append(@, [client |-> c, part |-> part])]

\* Of what is on its way when a socket is closed, the peer gets the beginning:
\* the events and the buffer behind it find the socket dead.
Lose(s) ==
    \E n \in 0..Len(written[s]) : written' = [written EXCEPT ![s] = SubSeq(@, 1, n)]

\* Manager.tick: the coroutines of `timeout.check' run, the last one in place
\* of the timer before it, then everything queued so far is dispatched.
Tick ==
    /\ batch = 0
    /\ queue # <<>> \/ checks # {}
    /\ batch' = Len(queue)
    /\ timeout' = [s \in Sockets |->
                     timeout[s] \/ (s \in checks \cap known /\ ~tunnel[s])]
    /\ checks' = {}
    /\ UNCHANGED <<queue, netVars, clientVars, known, pipeVars, tunnel, parser,
                   written, faults>>

-----------------------------------------------------------------------------
(* The peers and TCPServer (outside src/) *)

\* TCPServer accepts a connection; `connect' starts a timer too early: there
\* is no State yet.
Accept(s) ==
    /\ conn[s] = "new"
    /\ conn' = [conn EXCEPT ![s] = "open"]
    /\ Enqueue(SocketEvent("timeout.check", s))
    /\ UNCHANGED <<sent, clientVars, stateVars, checks, written, faults>>

\* The poller reports a readable socket once per tick: n messages are complete
\* with this data, and then it is malformed or a TLS handshake, if it is.
PeerSends(s, n, d) ==
    /\ conn[s] = "open"
    /\ d \in {"http"} \cup (Peer \cap {"malformed", "tls"})
    /\ d = "tls" => \A m \in ReadSizes : n <= m
    /\ \A i \in 1..Len(queue) : queue[i].name = "read" => queue[i].socket # s
    /\ sent' = sent + n + (IF d = "http" THEN 0 ELSE 1)
    /\ sent' <= MaxClients
    /\ Enqueue([name |-> "read", socket |-> s, messages |-> n, data |-> d])
    /\ UNCHANGED <<conn, clientVars, stateVars, checks, written, faults>>

Hangup(s) ==
    /\ "hangup" \in Peer
    /\ conn[s] = "open"
    /\ conn' = [conn EXCEPT ![s] = "eof"]
    /\ Enqueue(SocketEvent("eof", s))
    /\ UNCHANGED <<sent, clientVars, stateVars, checks, written, faults>>

\* The peer of a TLS server speaks plaintext, or the TLS layer fails.
TLSError(s, e) ==
    /\ e \in {"ssl error", "plaintext error"} \cap Peer
    /\ conn[s] = "open"
    /\ conn' = [conn EXCEPT ![s] = "eof"]
    /\ Enqueue(SocketEvent(e, s))
    /\ UNCHANGED <<sent, clientVars, stateVars, checks, written, faults>>

-----------------------------------------------------------------------------
(* The State of a connection *)

Owned(s) == {c \in Clients : socket[c] = s}

\* Bug: the State outlives its connection.
RemoveState_Kept(s) ==
    UNCHANGED stateVars

\* Bug: _buffers is cleared instead of losing one key.
RemoveState_All(s) ==
    /\ known' = {}
    /\ requests' = [t \in Sockets |-> <<>>]
    /\ responses' = {} /\ response_started' = {} /\ composed' = {}
    /\ tunnel' = [t \in Sockets |-> FALSE]
    /\ timeout' = [t \in Sockets |-> FALSE]
    /\ parser' = [t \in Sockets |-> "http"]

\* _remove_client: the State goes, with everything it remembers.
RemoveState(s) ==
    /\ known' = known \ {s}
    /\ requests' = [requests EXCEPT ![s] = <<>>]
    /\ responses' = responses \ Owned(s)
    /\ response_started' = response_started \ Owned(s)
    /\ composed' = composed \ Owned(s)
    /\ tunnel' = [tunnel EXCEPT ![s] = FALSE]
    /\ timeout' = [timeout EXCEPT ![s] = FALSE]
    /\ parser' = [parser EXCEPT ![s] = "http"]

\* Bug: any waiting request will do.
IsHead_Any(s, c) == requests[s] # <<>>

IsHead(s, c) == requests[s] # <<>> /\ Head(requests[s]) = c

\* _premature_client_disconnect: nobody reads the response any more.
PrematureDisconnect(c) ==
    reply' = IF reply[c].mustRun THEN [reply EXCEPT ![c].left = 0] ELSE reply

Unanswerable(c) == socket[c] \notin known

-----------------------------------------------------------------------------
(* Reading *)

\* The parser makes a Client of each message; Client() asks a dead socket for
\* its peer and raises.
OnRead ==
    /\ Take("read")
    /\ LET s     == Head(queue).socket
           d     == Head(queue).data
           alert == /\ ~tunnel[s]
                    /\ IF s \in known THEN parser[s] = "alert" ELSE d = "tls"
           n     == IF tunnel[s] \/ alert \/ conn[s] = "closed" THEN 0
                    ELSE IF d = "http" THEN Head(queue).messages ELSE 1
           new   == [i \in 1..n |-> born + i]
           first == IF d = "http" THEN "routing" ELSE "httperror"
           check == <<SocketEvent("timeout.check", s)>>
       IN /\ known' = known \cup {s}
          /\ born + n <= MaxClients
          /\ born' = born + n
          /\ socket' = [c \in Clients |->
                          IF c \in born+1 .. born+n THEN s ELSE socket[c]]
          /\ requests' = [requests EXCEPT ![s] = @ \o new]
          /\ parser' = IF alert THEN [parser EXCEPT ![s] = "alert"] ELSE parser
          /\ \/ /\ alert
                /\ Write(s, 0, "alert")
                /\ Fire(<<SocketEvent("close", s)>> \o check)
             \/ /\ ~alert
                /\ Fire([i \in 1..n |-> ClientEvent(first, new[i])] \o check)
                /\ UNCHANGED written
    /\ UNCHANGED <<netVars, done, handled, reply, task, responses,
                   response_started, composed, tunnel, timeout, checks, faults>>

OnTimeoutCheck == \E s \in Sockets :
    /\ TakeSocket("timeout.check", s)
    /\ checks' = checks \cup {s}
    /\ Fire(<<>>)
    /\ UNCHANGED <<netVars, clientVars, stateVars, written, faults>>

\* Bug: the idle timer looks at nothing.
Idle_Always(s) == TRUE

\* A connection is idle when all its responses have been sent.
Idle(s) == \A i \in 1..Len(requests[s]) : done[requests[s][i]]

\* The timer of _check_timeout wakes up; it is not set again.
TimerExpires(s) ==
    /\ batch = 0
    /\ s \in known /\ timeout[s]
    /\ timeout' = [timeout EXCEPT ![s] = FALSE]
    /\ queue' = IF ~tunnel[s] /\ Idle(s)
                THEN Append(queue, SocketEvent("close", s)) ELSE queue
    /\ UNCHANGED <<batch, netVars, clientVars, known, pipeVars, tunnel, parser,
                   checks, written, faults>>

-----------------------------------------------------------------------------
(* Routing and the request handlers *)

\* The domain is found, then a resource in it, then the request is handed to
\* the resource.  A status like 404 ends the routing; other exceptions are
\* only printed.
NextHop == [n \in {"routing", "routing_success", "domain.routing",
                   "domain.routing_success"} |->
              CASE n = "routing"        -> "routing_success"
                [] n = "routing_success" -> "domain.routing"
                [] n = "domain.routing" -> "domain.routing_success"
                [] OTHER                -> "request"]

OnRouting == \E c \in Clients, n \in DOMAIN NextHop :
    /\ TakeClient(n, c)
    /\ \/ Fire(<<ClientEvent(NextHop[n], c)>>) /\ UNCHANGED faults
       \/ /\ n \in {"routing", "domain.routing"}
          /\ Fire(<<ClientEvent("httperror", c)>>)
          /\ UNCHANGED faults
       \/ /\ n \in {"routing", "domain.routing"}
          /\ Fault("routing")
          /\ Fire(<<>>)
    /\ UNCHANGED <<netVars, clientVars, stateVars, checks, written>>

\* The handlers of `request' make the response at once, or answer and stop the
\* event (as an upgrade does), or end it with a status or an exception, or
\* leave a coroutine that makes the response later.
OnRequest == \E c \in Clients :
    /\ TakeClient("request", c)
    /\ \/ /\ \E r \in Replies : reply' = [reply EXCEPT ![c] = r]
          /\ \E e \in {"request_success", "response"} : Fire(<<ClientEvent(e, c)>>)
          /\ UNCHANGED <<task, faults>>
       \/ /\ \E e \in {"httperror", "request_failure"} : Fire(<<ClientEvent(e, c)>>)
          /\ \E t \in {"none", "stopped"} : task' = [task EXCEPT ![c] = t]
          /\ UNCHANGED <<reply, faults>>
       \/ /\ task' = [task EXCEPT ![c] = "running"]
          /\ Fire(<<>>)
          /\ UNCHANGED <<reply, faults>>
       \* a handler after the one of the coroutine raises, and does not stop
       \* the event as those of this package do
       \/ /\ Fault("later handler")
          /\ task' = [task EXCEPT ![c] = "running"]
          /\ Fire(<<ClientEvent("request_failure", c)>>)
          /\ UNCHANGED reply
    /\ UNCHANGED <<netVars, born, socket, done, handled, stateVars, checks, written>>

\* The coroutine has made the response, or raises.
TaskEnds(c) ==
    /\ task[c] = "running"
    /\ task' = [task EXCEPT ![c] = "none"]
    /\ \/ /\ \E r \in Replies : reply' = [reply EXCEPT ![c] = r]
          /\ Enqueue(ClientEvent("request_success", c))
       \/ /\ Enqueue(ClientEvent("request_failure", c))
          /\ UNCHANGED reply
    /\ UNCHANGED <<netVars, born, socket, done, handled, stateVars, checks,
                   written, faults>>

\* Nobody stops the coroutine of a stopped event.  The success of that event
\* is ignored, but the coroutine may still change the response or raise.
StoppedTaskEnds(c) ==
    /\ task[c] = "stopped"
    /\ task' = [task EXCEPT ![c] = "none"]
    /\ \/ /\ batch = 0
          /\ UNCHANGED <<loopVars, reply, faults>>
       \/ /\ batch = 0
          /\ Fault("coroutine")
          /\ \E r \in Replies : reply' = [reply EXCEPT ![c] = r]
          /\ UNCHANGED loopVars
       \/ /\ Fault("coroutine")
          /\ Enqueue(ClientEvent("request_failure", c))
          /\ UNCHANGED reply
    /\ UNCHANGED <<netVars, born, socket, done, handled, stateVars, checks, written>>

OnRequestSuccess == \E c \in Clients :
    /\ TakeClient("request_success", c)
    /\ Fire(<<ClientEvent("response", c)>>)
    /\ UNCHANGED <<netVars, clientVars, stateVars, checks, written, faults>>

\* Bug: done is set for handled.
OnRequestFailure_Done == \E c \in Clients :
    /\ TakeClient("request_failure", c)
    /\ done' = [done EXCEPT ![c] = TRUE]
    /\ Fire(IF handled[c] THEN <<>> ELSE <<ClientEvent("httperror", c)>>)
    /\ UNCHANGED <<netVars, born, socket, handled, reply, task, stateVars, checks,
                   written, faults>>

OnRequestFailure == \E c \in Clients :
    /\ TakeClient("request_failure", c)
    /\ handled' = [handled EXCEPT ![c] = TRUE]
    /\ Fire(IF handled[c] THEN <<>> ELSE <<ClientEvent("httperror", c)>>)
    /\ UNCHANGED <<netVars, born, socket, done, reply, task, stateVars, checks,
                   written, faults>>

-----------------------------------------------------------------------------
(* Error responses *)

\* An error for an answered client is refused; the 0.1 handler puts the error
\* into the response.
OnHTTPError == \E c \in Clients :
    /\ TakeClient("httperror", c)
    /\ \/ /\ Unanswerable(c)
          /\ PrematureDisconnect(c)
          /\ Fire(<<>>)
          /\ UNCHANGED faults
       \/ /\ ~Unanswerable(c) /\ c \in responses
          /\ Fire(<<ClientEvent("httperror_failure", c)>>)
          /\ UNCHANGED <<reply, faults>>
       \/ /\ ~Unanswerable(c) /\ c \notin responses
          /\ reply' = [reply EXCEPT ![c] = ErrorReply]
          /\ \/ /\ Fire(<<ClientEvent("httperror_success", c)>>)
                /\ UNCHANGED faults
             \/ /\ Fault("httperror")
                /\ Fire(<<ClientEvent("httperror_failure", c)>>)
    /\ UNCHANGED <<netVars, born, socket, done, handled, task, stateVars, checks, written>>

OnHTTPErrorSuccess == \E c \in Clients :
    /\ TakeClient("httperror_success", c)
    /\ \/ /\ Fire(<<ClientEvent("response", c)>>)
          /\ UNCHANGED faults
       \/ /\ Fault("encode")
          /\ Fire(<<ClientEvent("exception:httperror_success", c)>>)
    /\ UNCHANGED <<netVars, clientVars, stateVars, checks, written>>

\* The last resort: a 500 is written whoever's turn it is, and the connection
\* is closed.
OnHTTPErrorFailure == \E c \in Clients,
                         n \in {"httperror_failure", "exception:httperror_success"} :
    /\ TakeClient(n, c)
    /\ \/ /\ Unanswerable(c)
          /\ PrematureDisconnect(c)
          /\ Fire(<<>>)
          /\ UNCHANGED written
       \/ /\ ~Unanswerable(c) /\ c \in responses
          /\ Fire(<<>>)
          /\ UNCHANGED <<reply, written>>
       \/ /\ ~Unanswerable(c) /\ c \notin responses
          /\ reply' = [reply EXCEPT ![c] = EmptyReply]
          /\ Write(socket[c], c, "error")
          /\ Fire(<<SocketEvent("close", socket[c])>>)
    /\ UNCHANGED <<netVars, born, socket, done, handled, task, stateVars, checks, faults>>

-----------------------------------------------------------------------------
(* The pipeline of responses *)

\* Bug: a second response of a client is not refused.
ResponseOutcome_Again(c) ==
    IF IsHead(socket[c], c) THEN <<ClientEvent("response.start", c)>> ELSE <<>>

\* Only the first `response' of a client counts, and it waits until its request
\* is the first.
ResponseOutcome(c) ==
    IF c \in responses THEN <<ClientEvent("response_failure", c)>>
    ELSE IF IsHead(socket[c], c) THEN <<ClientEvent("response.start", c)>>
    ELSE <<>>

\* A response is accepted into State.responses.
OnResponse == \E c \in Clients :
    /\ TakeClient("response", c)
    /\ LET failure == <<ClientEvent("response_failure", c)>>
           start   == ResponseOutcome(c)
       IN \/ /\ Unanswerable(c)
             /\ PrematureDisconnect(c)
             /\ Fire(<<>>)
             /\ UNCHANGED <<responses, faults>>
          \/ /\ ~Unanswerable(c)
             /\ responses' = responses \cup {c}
             /\ \/ Fire(start) /\ UNCHANGED faults
                \* another handler raises, before this one or after it
                \/ /\ Fault("observer")
                   /\ \E es \in {failure \o start, start \o failure} : Fire(es)
             /\ UNCHANGED reply
          \* another handler of this package raises first: it stops the event
          \/ /\ Fault("filter")
             /\ \E n \in {"httperror", "response_failure"} : Fire(<<ClientEvent(n, c)>>)
             /\ UNCHANGED <<responses, reply>>
    /\ UNCHANGED <<netVars, born, socket, done, handled, task, known, requests,
                   response_started, composed, tunnel, timeout, parser, checks, written>>

\* ComposedResponse.prepare() decides whether the connection is to be closed.
OnResponseStart == \E c \in Clients :
    /\ TakeClient("response.start", c)
    /\ \/ /\ Unanswerable(c)
          /\ PrematureDisconnect(c)
          /\ Fire(<<>>)
          /\ UNCHANGED <<response_started, composed, tunnel, written, faults>>
       \/ /\ ~Unanswerable(c)
          /\ response_started' = response_started \cup {c}
          /\ tunnel' = [tunnel EXCEPT ![socket[c]] = @ \/ reply[c].upgrade]
          /\ \/ /\ \E close \in SUBSET {c} : composed' = composed \cup close
                /\ Write(socket[c], c, "head")
                /\ Fire(<<ClientEvent("response.body", c)>>)
                /\ UNCHANGED faults
             \/ /\ Fault("prepare")
                /\ Fire(<<>>)
                /\ UNCHANGED <<composed, written>>
          /\ UNCHANGED reply
    /\ UNCHANGED <<netVars, born, socket, done, handled, task, known, requests,
                   responses, timeout, parser, checks>>

\* One chunk per event; the body goes on even if the connection is gone.
OnResponseBody == \E c \in Clients :
    /\ TakeClient("response.body", c)
    /\ \/ /\ reply[c].left > 0
          /\ reply' = [reply EXCEPT ![c].left = @ - 1]
          /\ Write(socket[c], c, "body")
          /\ Fire(<<ClientEvent("response.body", c)>>)
          /\ UNCHANGED <<done, faults>>
       \/ /\ reply[c].left = 0
          /\ done' = [done EXCEPT ![c] = TRUE]
          /\ Fire(<<ClientEvent("response.complete", c)>>)
          /\ UNCHANGED <<reply, written, faults>>
       \/ /\ Fault("body")
          /\ Fire(<<ClientEvent("exception:response.body", c)>>)
          /\ UNCHANGED <<done, reply, written>>
    /\ UNCHANGED <<netVars, born, socket, handled, task, stateVars, checks>>

\* Bug: the next response is left waiting.
AfterComplete_Forgets(s, c) ==
    IF Tail(requests[s]) = <<>> /\ c \in composed THEN <<SocketEvent("close", s)>>
    ELSE <<>>

\* Bug: the next response starts before it exists.
AfterComplete_Eager(s, c) ==
    IF Tail(requests[s]) = <<>>
    THEN IF c \in composed THEN <<SocketEvent("close", s)>> ELSE <<>>
    ELSE <<ClientEvent("response.start", Head(Tail(requests[s])))>>

\* The next response starts if it waits; only behind the last request is the
\* connection closed.
AfterComplete(s, c) ==
    LET next == Head(Tail(requests[s]))
    IN IF Tail(requests[s]) = <<>>
       THEN IF c \in composed THEN <<SocketEvent("close", s)>> ELSE <<>>
       ELSE IF next \in responses \ response_started
            THEN <<ClientEvent("response.start", next)>> ELSE <<>>

\* The first request leaves.  A failing assertion is only printed.
OnResponseComplete == \E c \in Clients :
    /\ TakeClient("response.complete", c)
    /\ LET s == socket[c]
       IN \/ /\ Unanswerable(c)
             /\ PrematureDisconnect(c)
             /\ Fire(<<>>)
             /\ UNCHANGED requests
          \/ /\ ~Unanswerable(c) /\ ~IsHead(s, c)
             /\ Fire(<<>>)
             /\ UNCHANGED <<requests, reply>>
          \/ /\ ~Unanswerable(c) /\ IsHead(s, c)
             /\ requests' = [requests EXCEPT ![s] = Tail(@)]
             /\ Fire(AfterComplete(s, c))
             /\ UNCHANGED reply
    /\ UNCHANGED <<netVars, born, socket, done, handled, task, known, responses,
                   response_started, composed, tunnel, timeout, parser, checks,
                   written, faults>>

\* A handler of `response' failed: the response is replaced and an error fired,
\* which is refused if the response had been accepted.
OnResponseFailure == \E c \in Clients :
    /\ TakeClient("response_failure", c)
    /\ IF done[c] \/ Unanswerable(c)
       THEN Fire(<<>>) /\ UNCHANGED <<done, reply>>
       ELSE /\ reply' = [reply EXCEPT ![c] = EmptyReply]
            /\ done' = [done EXCEPT ![c] = TRUE]
            /\ Fire(<<ClientEvent("httperror", c)>>)
    /\ UNCHANGED <<netVars, born, socket, handled, task, stateVars, checks,
                   written, faults>>

OnException == \E c \in Clients :
    /\ TakeClient("exception:response.body", c)
    /\ Fire(<<SocketEvent("close", socket[c])>>)
    /\ UNCHANGED <<netVars, clientVars, stateVars, checks, written, faults>>

-----------------------------------------------------------------------------
(* The end of a connection *)

\* The component closes the socket itself, whatever TCPServer still has to
\* send; TCPServer then reports it gone.
OnClose == \E s \in Sockets :
    /\ TakeSocket("close", s)
    /\ conn' = [conn EXCEPT ![s] = "closed"]
    /\ RemoveState(s)
    /\ IF conn[s] = "closed" THEN Fire(<<>>) /\ UNCHANGED written
       ELSE Fire(<<SocketEvent("disconnect", s)>>) /\ Lose(s)
    /\ UNCHANGED <<sent, clientVars, checks, faults>>

OnDisconnect == \E s \in Sockets :
    /\ TakeSocket("disconnect", s)
    /\ RemoveState(s)
    /\ Fire(<<>>)
    /\ UNCHANGED <<netVars, clientVars, checks, written, faults>>

\* TCPServer reads the end of the stream and closes the socket.
OnEOF == \E s \in Sockets :
    /\ TakeSocket("eof", s)
    /\ conn' = [conn EXCEPT ![s] = "closed"]
    /\ IF conn[s] = "closed" THEN Fire(<<>>) /\ UNCHANGED written
       ELSE Fire(<<SocketEvent("disconnect", s)>>) /\ Lose(s)
    /\ UNCHANGED <<sent, clientVars, stateVars, checks, faults>>

\* Plaintext on a TLS port is answered before the connection is closed.
OnSocketError == \E s \in Sockets, e \in {"ssl error", "plaintext error"} :
    /\ TakeSocket(e, s)
    /\ IF e = "plaintext error" THEN Write(s, 0, "alert") ELSE UNCHANGED written
    /\ Fire(<<SocketEvent("close", s)>>)
    /\ UNCHANGED <<netVars, clientVars, stateVars, checks, faults>>

-----------------------------------------------------------------------------
Environment ==
    \/ \E s \in Sockets : Accept(s) \/ Hangup(s)
    \/ \E s \in Sockets, n \in ReadSizes, d \in {"http", "malformed", "tls"} :
          PeerSends(s, n, d)
    \/ \E s \in Sockets, e \in {"ssl error", "plaintext error"} : TLSError(s, e)

Dispatch ==
    \/ OnRead \/ OnTimeoutCheck
    \/ OnRouting \/ OnRequest \/ OnRequestSuccess \/ OnRequestFailure
    \/ OnHTTPError \/ OnHTTPErrorSuccess \/ OnHTTPErrorFailure
    \/ OnResponse \/ OnResponseStart \/ OnResponseBody \/ OnResponseComplete
    \/ OnResponseFailure \/ OnException
    \/ OnClose \/ OnDisconnect \/ OnEOF \/ OnSocketError

Tasks ==
    \/ \E c \in Clients : TaskEnds(c) \/ StoppedTaskEnds(c)
    \/ \E s \in Sockets : TimerExpires(s)

Next == Environment \/ Dispatch \/ Tasks \/ Tick

Spec == Init /\ [][Next]_vars

\* The loop keeps ticking and dispatching.  Every tick asks every coroutine and
\* timer, so one that is over at some tick after tick goes on: that is strong
\* fairness.  Peers owe nothing.
FairSpec ==
    /\ Spec
    /\ WF_vars(Dispatch) /\ WF_vars(Tick)
    /\ \A c \in Clients : SF_vars(TaskEnds(c))
    /\ \A s \in Sockets : SF_vars(TimerExpires(s))

-----------------------------------------------------------------------------
(* What must hold *)

InQueue(names, c) ==
    \E i \in 1..Len(queue) : queue[i].name \in names /\ queue[i].client = c

CloseQueued(s) ==
    \E i \in 1..Len(queue) : queue[i].name = "close" /\ queue[i].socket = s

HeadWritten(s, c) ==
    \E i \in 1..Len(written[s]) : written[s][i] = [client |-> c, part |-> "head"]

Streams == {i \in 1..Len(queue) : queue[i].name \in StreamNames}

\* A connection never has two responses under way, however the handlers of its
\* pipelined requests interleave: _on_response and _on_response_complete never
\* both start one, and none is started twice.
OneStream ==
    \A i, j \in Streams :
        socket[queue[i].client] = socket[queue[j].client] => i = j

\* The response under way is the one of the first unanswered request, as long
\* as the connection lasts: what _on_response_complete asserts.
PipelineHead ==
    \A i \in Streams :
        LET c == queue[i].client
            s == socket[c]
        IN conn[s] # "closed" => s \in known /\ IsHead(s, c) /\ c \in responses

\* Every event is about a client that exists.
QueueOwned ==
    \A i \in 1..Len(queue) :
        queue[i].name \in ClientEventNames => queue[i].client \in 1..born

\* So is every coroutine, and a client is only in the pipeline of its own
\* connection, which has a State.
ClientsOwned ==
    /\ \A c \in 1..born : socket[c] \in Sockets
    /\ \A s \in Sockets : \A i \in 1..Len(requests[s]) :
          requests[s][i] \in 1..born /\ socket[requests[s][i]] = s /\ s \in known
    /\ \A c \in Clients : task[c] # "none" => c \in 1..born

\* TCPServer reports a disconnect only of a connection that is closed.
DisconnectsAreReal ==
    \A i \in 1..Len(queue) :
        queue[i].name = "disconnect" => conn[queue[i].socket] = "closed"

\* PipelineHead for dead connections too: a response that is under way finds
\* its State as it was, or none, or the empty one a late read made.
MayStream(c) ==
    LET s == socket[c]
    IN \/ s \in known /\ IsHead(s, c) /\ c \in responses
       \/ conn[s] = "closed" /\ (s \in known => requests[s] = <<>>)

StreamState == \A i \in Streams : MayStream(queue[i].client)

PipelineInvariant ==
    /\ TypeOK
    /\ QueueOwned /\ ClientsOwned /\ DisconnectsAreReal
    /\ StreamState /\ OneStream

\* What is written i-th is a part of an ordinary response.
OfResponse(s, i) == written[s][i].part \in {"head", "body"}

\* What a peer gets are its responses in the order of its requests, each
\* from its head on and none mixed with another.
ResponsesInOrder ==
    \A s \in Sockets : \A j \in 1..Len(written[s]) :
        /\ written[s][j].part = "head" =>
              \A i \in 1..j-1 : OfResponse(s, i) => written[s][i].client < written[s][j].client
        /\ written[s][j].part = "body" =>
              /\ \A i \in 1..j-1 : OfResponse(s, i) => written[s][i].client <= written[s][j].client
              /\ \E i \in 1..j-1 : written[s][i] = [client |-> written[s][j].client, part |-> "head"]

\* No request is skipped: when the head of a response is written, the earlier
\* requests of the connection have had theirs.
NoResponseSkipped ==
    \A s \in Sockets : \A i \in 1..Len(written[s]) :
        written[s][i].part = "head" =>
            \A c \in Owned(s) : c < written[s][i].client => done[c]

\* Requests wait in the order they were parsed.
RequestsAscend ==
    \A s \in Sockets : \A i, j \in 1..Len(requests[s]) :
        i < j => requests[s][i] < requests[s][j]

\* A request of an open connection leaves the pipeline when it is answered.
LeftIsDone ==
    \A c \in 1..born : conn[socket[c]] # "closed" =>
        \/ \E i \in 1..Len(requests[socket[c]]) : requests[socket[c]][i] = c
        \/ done[c] /\ c \in responses

StartedIsAccepted ==
    \A c \in response_started : c \in 1..born /\ (conn[socket[c]] # "closed" => c \in responses)

\* A response starts once, its head comes first, and it is done at the end.
StreamSoFar ==
    \A i \in Streams :
        LET c == queue[i].client
            s == socket[c]
        IN /\ queue[i].name = "response.complete" => done[c]
           /\ conn[s] # "closed" => IF queue[i].name = "response.start"
                                    THEN c \notin response_started ELSE HeadWritten(s, c)

\* What has been written belongs to no request that waits behind the first.
WrittenSoFar ==
    \A s \in Sockets : \A i \in 1..Len(written[s]) : OfResponse(s, i) =>
        LET c == written[s][i].client
        IN /\ c \in 1..born /\ socket[c] = s
           /\ conn[s] # "closed" =>
                 c \in response_started /\ \A j \in 1..Len(requests[s]) : c <= requests[s][j]

\* The order of what is written, and why it is kept.
OrderInvariant ==
    /\ RequestsAscend /\ LeftIsDone /\ StartedIsAccepted /\ StreamSoFar /\ WrittenSoFar
    /\ ResponsesInOrder /\ NoResponseSkipped

\* A response that has its turn is being sent: no wakeup between _on_response
\* and _on_response_complete is lost.
NoStall ==
    \A s \in known :
        (conn[s] # "closed" /\ requests[s] # <<>> /\ Head(requests[s]) \in responses)
        => \/ InQueue(StreamNames \cup {"exception:response.body"}, Head(requests[s]))
           \/ CloseQueued(s)

\* While the connection lasts, Client.done means that all of the response has
\* been written: nothing of it is left, and its head was not left out.
DoneMeansSent ==
    \A c \in Clients :
        done[c] /\ conn[socket[c]] # "closed" =>
            /\ reply[c].left = 0
            /\ HeadWritten(socket[c], c)

\* The server gives up a connection only between responses: when the idle timer
\* or `Connection: close' closes it, all of a response that has begun has been
\* written.  (What the peer has not been sent by then is lost: Lose.)
ClosesBetweenResponses ==
    [][\A s \in Sockets :
         (conn[s] # "closed" /\ conn'[s] = "closed" /\ Head(queue).name = "close") =>
            \A c \in Owned(s) : c \in response_started => done[c]]_vars

\* The promise of module Pipeline, kept by the events: a connection's requests
\* wait until the server gives it up; a response is under way from its head on.
Promise == INSTANCE Pipeline WITH
    MaxRequests <- MaxClients,
    arrived <- born,
    pending <- [s \in Sockets |-> IF conn[s] = "closed" THEN <<>> ELSE requests[s]],
    active  <- [s \in Sockets |->
                  IF /\ conn[s] # "closed" /\ requests[s] # <<>>
                     /\ HeadWritten(s, Head(requests[s]))
                  THEN Head(requests[s]) ELSE 0],
    out     <- written,
    ended   <- {s \in Sockets : conn[s] = "closed"}

KeepsPromise == Promise!Spec

\* Every request whose parsing made a Client is answered unless its connection
\* ends: through routing, handlers, coroutines, errors and the pipeline no
\* request is forgotten.
EveryRequestAnswered ==
    \A c \in Clients :
        c <= born ~> done[c] \/ (c <= born /\ conn[socket[c]] = "closed")

\* The State of a dead connection does not stay: even the one that a read
\* dispatched after the close brings back goes when its idle timer expires.
ClosedStateRemoved ==
    \A s \in Sockets :
        conn[s] = "closed" /\ s \in known ~> s \notin known

-----------------------------------------------------------------------------
(* What the comments promise and the code does not keep *)

\* server.py:349 "make sure that the generator is executed": once nothing will
\* touch a client of a gone connection, its unsafe generator has run.
GeneratorExecuted ==
    \A c \in 1..born :
        (/\ socket[c] \notin known
         /\ ~InQueue(ClientEventNames, c)
         /\ task[c] = "none"
         /\ reply[c].mustRun) => reply[c].left = 0

\* server.py:197 asserts this when a response is complete.
PipelineAssertion ==
    (queue # <<>> /\ Head(queue).name = "response.complete") =>
        LET c == Head(queue).client
        IN Unanswerable(c) \/ IsHead(socket[c], c)
=============================================================================
