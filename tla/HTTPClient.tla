----------------------------- MODULE HTTPClient -----------------------------
(***************************************************************************)
(* The component HTTPClient (circuits/http/client/client.py).  Requests of *)
(* many clients share connections; the only thing that tells which request *)
(* a response answers is the order of the requests of its connection.      *)
(*                                                                         *)
(* A request is a coroutine that waits for its connection twice: for the   *)
(* end of the `connect' event and for `connected'.  A read may end in the  *)
(* middle of a response, so the parser carries a message from one read to  *)
(* the next.  The handlers run in one thread, each of them to its end; the *)
(* loop of _on_read is taken step by step, and nothing else runs until it  *)
(* is over.                                                                *)
(***************************************************************************)
EXTENDS Integers, Sequences

CONSTANTS
    Clients,      \* the Client objects of the user
    Origins,      \* combinations of host, port and scheme
    Origin,       \* the origin of a client's request
    Nobody,       \* no client, and no answer
    MaxSockets,   \* bound: TCPClients made
    MaxAsks,      \* bound: requests fired, a client may fire several in turn
    MaxExtra,     \* bound: responses a broken server sends unasked
    Network       \* what may happen to a connection

ASSUME ClientAssumption ==
    /\ Nobody \notin Clients
    /\ Origin \in [Clients -> Origins]
    /\ MaxSockets \in Nat /\ MaxAsks \in Nat /\ MaxExtra \in Nat
    /\ Network \subseteq {"refuse", "drop", "close"}

Sockets == 1..MaxSockets
None == 0

VARIABLES
    stage,         \* how far the coroutine of a client's request is
    socket,        \* Client.socket; until then the result of `connect'
    asked,         \* requests fired so far
    made,          \* TCPClients made so far, the keys of _buffers
    socket_map,    \* _socket_map
    link,          \* the connection of a TCPClient
    announced,     \* sockets whose `connected' is fired and not dispatched
    closing,       \* sockets whose `close' is fired and not dispatched
    requests,      \* state['requests']
    expected,      \* parser.requests
    parsing,       \* parser.request, for the message that has begun
    todo,          \* the requests a server has and has not answered
    coming,        \* responses sent and not yet parsed to their end
    extra,         \* responses sent unasked
    begun,         \* sockets whose parser is within the first of these
    taken,         \* steps the parser can take with the data of the reads
    reading,       \* the socket whose _on_read runs
    split,         \* history: whether this read began within a response
    client,        \* the local variable of that name in _on_read
    fired          \* `response' events not yet dispatched

userVars   == <<stage, asked>>
socketVars == <<socket, made, socket_map>>
netVars    == <<link, announced, closing>>
peerVars   == <<todo, coming, extra>>
parserVars == <<expected, parsing, begun, taken>>
readVars   == <<reading, split, client>>
vars == <<userVars, socketVars, netVars, requests, peerVars, parserVars, readVars,
          fired>>

\* A response: the request it answers, and whether it says `Connection: close'.
Messages == [answers: Clients \cup {Nobody}, close: BOOLEAN]

Message(c, close) == [answers |-> c, close |-> close]

\* What a client gets: the response, and the request it was parsed for.
Responses == [client: Clients, answers: Clients \cup {Nobody}, close: BOOLEAN,
              parsed: Clients \cup {Nobody}, split: BOOLEAN]

TypeOK ==
    /\ stage \in [Clients -> {"idle", "connect", "result", "wait", "sent"}]
    /\ socket \in [Clients -> Sockets \cup {None}]
    /\ asked \in 0..MaxAsks
    /\ made \in 0..MaxSockets
    /\ socket_map \in [Origins -> Sockets \cup {None}]
    /\ link \in [Sockets -> {"unmade", "connecting", "open", "ending", "closed"}]
    /\ announced \subseteq Sockets
    /\ closing \subseteq Sockets
    /\ requests \in [Sockets -> Seq(Clients)]
    /\ expected \in [Sockets -> Seq(Clients)]
    /\ parsing \in [Sockets -> Clients \cup {Nobody}]
    /\ todo \in [Sockets -> Seq(Clients)]
    /\ coming \in [Sockets -> Seq(Messages)]
    /\ begun \subseteq Sockets
    /\ taken \in [Sockets -> Nat]
    /\ extra \in 0..MaxExtra
    /\ reading \in Sockets \cup {None}
    /\ split \in BOOLEAN
    /\ client \in Clients \cup {Nobody}
    /\ fired \in Seq(Responses)

Init ==
    /\ stage = [c \in Clients |-> "idle"]
    /\ socket = [c \in Clients |-> None]
    /\ asked = 0 /\ made = 0
    /\ socket_map = [o \in Origins |-> None]
    /\ link = [s \in Sockets |-> "unmade"]
    /\ announced = {} /\ closing = {}
    /\ requests = [s \in Sockets |-> <<>>]
    /\ expected = [s \in Sockets |-> <<>>]
    /\ parsing = [s \in Sockets |-> Nobody]
    /\ todo = [s \in Sockets |-> <<>>]
    /\ coming = [s \in Sockets |-> <<>>]
    /\ begun = {}
    /\ taken = [s \in Sockets |-> 0]
    /\ extra = 0
    /\ reading = None /\ split = FALSE /\ client = Nobody
    /\ fired = <<>>

NoRead == reading = None

\* TCPClient.connected; the server may have stopped listening.
Connected(s) == link[s] \in {"open", "ending"}

-----------------------------------------------------------------------------
(* The coroutine of a request *)

\* The request joins those that wait on the connection and is written; what is
\* written to a connection that is gone is lost.
Send(c, s) ==
    /\ requests' = [requests EXCEPT ![s] = Append(@, c)]
    /\ todo' = IF link[s] = "open" THEN [todo EXCEPT ![s] = Append(@, c)] ELSE todo
    /\ stage' = [stage EXCEPT ![c] = "sent"]

\* A client that has a socket keeps it, whatever became of the connection.
OnRequest(c) ==
    /\ NoRead
    /\ stage[c] = "idle"
    /\ asked < MaxAsks
    /\ asked' = asked + 1
    /\ \/ /\ socket[c] = None
          /\ stage' = [stage EXCEPT ![c] = "connect"]
          /\ UNCHANGED <<requests, todo>>
       \/ /\ socket[c] # None
          /\ Send(c, socket[c])
    /\ UNCHANGED <<socketVars, netVars, coming, extra, parserVars, readVars, fired>>

\* A connection is shared once it is established, otherwise a new one is made.
OnConnect(c) ==
    /\ NoRead
    /\ stage[c] = "connect"
    /\ stage' = [stage EXCEPT ![c] = "result"]
    /\ LET o == Origin[c]
           s == socket_map[o]
           n == made + 1
       IN \/ /\ s # None /\ Connected(s)
             /\ socket' = [socket EXCEPT ![c] = s]
             /\ UNCHANGED <<made, socket_map, link>>
          \/ /\ s # None => ~Connected(s)
             /\ n \in Sockets
             /\ made' = n
             /\ socket_map' = [socket_map EXCEPT ![o] = n]
             /\ socket' = [socket EXCEPT ![c] = n]
             /\ link' = [link EXCEPT ![n] = "connecting"]
    /\ UNCHANGED <<asked, announced, closing, requests, peerVars, parserVars, readVars,
                   fired>>

\* Bug: the coroutine waits for `connected' whether or not it has been.
OnConnectDone_Waits(c) ==
    /\ NoRead
    /\ stage[c] = "result"
    /\ stage' = [stage EXCEPT ![c] = "wait"]
    /\ UNCHANGED <<asked, socketVars, netVars, requests, peerVars, parserVars, readVars,
                   fired>>

\* `call' returns; the coroutine waits for `connected' if it must.
OnConnectDone(c) ==
    /\ NoRead
    /\ stage[c] = "result"
    /\ \/ /\ Connected(socket[c])
          /\ Send(c, socket[c])
       \/ /\ ~Connected(socket[c])
          /\ stage' = [stage EXCEPT ![c] = "wait"]
          /\ UNCHANGED <<requests, todo>>
    /\ UNCHANGED <<asked, socketVars, netVars, coming, extra, parserVars, readVars, fired>>

\* Only a coroutine that waits when `connected' is dispatched goes on.
OnConnected(s) ==
    /\ NoRead
    /\ s \in announced
    /\ announced' = announced \ {s}
    /\ \/ \E c \in Clients : stage[c] = "wait" /\ socket[c] = s /\ Send(c, s)
       \/ /\ \A c \in Clients : ~(stage[c] = "wait" /\ socket[c] = s)
          /\ UNCHANGED <<requests, todo, stage>>
    /\ UNCHANGED <<asked, socketVars, link, closing, coming, extra, parserVars, readVars,
                   fired>>

-----------------------------------------------------------------------------
(* TCPClient and the servers (outside src/) *)

Established(s) ==
    /\ NoRead
    /\ link[s] = "connecting"
    /\ link' = [link EXCEPT ![s] = "open"]
    /\ announced' = announced \cup {s}
    /\ UNCHANGED <<userVars, socketVars, closing, requests, peerVars, parserVars,
                   readVars, fired>>

\* The connection is refused or dropped, ended by the server, or closed by
\* _on_response.
Severed(s) ==
    /\ NoRead
    /\ \/ "refuse" \in Network /\ link[s] = "connecting"
       \/ "drop" \in Network /\ link[s] = "open"
       \/ link[s] = "ending" /\ coming[s] = <<>>
       \/ s \in closing
    /\ link' = [link EXCEPT ![s] = "closed"]
    /\ closing' = closing \ {s}
    /\ UNCHANGED <<userVars, socketVars, announced, requests, peerVars, parserVars,
                   readVars, fired>>

\* A server answers in order; behind `Connection: close' it answers no more.
Answer(s) ==
    /\ NoRead
    /\ link[s] = "open"
    /\ todo[s] # <<>>
    /\ \/ /\ coming' = [coming EXCEPT ![s] = Append(@, Message(Head(todo[s]), FALSE))]
          /\ todo' = [todo EXCEPT ![s] = Tail(@)]
          /\ UNCHANGED link
       \/ /\ "close" \in Network
          /\ coming' = [coming EXCEPT ![s] = Append(@, Message(Head(todo[s]), TRUE))]
          /\ todo' = [todo EXCEPT ![s] = <<>>]
          /\ link' = [link EXCEPT ![s] = "ending"]
    /\ UNCHANGED <<userVars, socketVars, announced, closing, requests, extra, parserVars,
                   readVars, fired>>

AnswerUnasked(s) ==
    /\ NoRead
    /\ link[s] = "open"
    /\ extra < MaxExtra
    /\ extra' = extra + 1
    /\ coming' = [coming EXCEPT ![s] = Append(@, Message(Nobody, FALSE))]
    /\ UNCHANGED <<userVars, socketVars, netVars, requests, todo, parserVars, readVars,
                   fired>>

-----------------------------------------------------------------------------
(* Reading *)

\* The parser takes two steps for a response: it begins it and it ends it.
Steps(s) == 2 * Len(coming[s]) - (IF s \in begun THEN 1 ELSE 0)

\* Bug: the requests that wait are added to those the parser knows.
OnRead_Adds(s) ==
    /\ NoRead
    /\ \E n \in taken[s]+1 .. Steps(s) : taken' = [taken EXCEPT ![s] = n]
    /\ expected' = [expected EXCEPT ![s] = @ \o requests[s]]
    /\ reading' = s
    /\ split' = (s \in begun)
    /\ UNCHANGED <<userVars, socketVars, netVars, requests, peerVars, begun, parsing,
                   client, fired>>

\* A read takes some of what has arrived, perhaps before the connection was
\* closed; the parser is told anew which requests still wait.
OnRead(s) ==
    /\ NoRead
    /\ \E n \in taken[s]+1 .. Steps(s) : taken' = [taken EXCEPT ![s] = n]
    /\ expected' = [expected EXCEPT ![s] = requests[s]]
    /\ reading' = s
    /\ split' = (s \in begun)
    /\ UNCHANGED <<userVars, socketVars, netVars, requests, peerVars, begun, parsing,
                   client, fired>>

\* The loop ends: nothing is left to parse, or an exception ends the handler.
StopReading == reading' = None /\ split' = FALSE /\ client' = Nobody

Parse(s) ==
    /\ reading = s
    /\ taken[s] > 0
    /\ taken' = [taken EXCEPT ![s] = @ - 1]

\* on_message_started: pop(0) raises if no request is left.
MessageStarts == \E s \in Sockets \ begun :
    /\ Parse(s)
    /\ begun' = begun \cup {s}
    /\ \/ /\ expected[s] # <<>>
          /\ parsing' = [parsing EXCEPT ![s] = Head(expected[s])]
          /\ expected' = [expected EXCEPT ![s] = Tail(@)]
          /\ UNCHANGED readVars
       \/ /\ expected[s] = <<>>
          /\ StopReading
          /\ UNCHANGED <<parsing, expected>>
    /\ UNCHANGED <<userVars, socketVars, netVars, requests, peerVars, fired>>

Deliver(s, c) ==
    LET m == Head(coming[s])
    IN fired' = Append(fired, [client |-> c, answers |-> m.answers, close |-> m.close,
                               parsed |-> parsing[s], split |-> split])

\* Bug: a complete response goes to the client that came last.
MessageEnds_Last == \E s \in begun :
    LET n == Len(requests[s])
    IN /\ Parse(s)
       /\ begun' = begun \ {s}
       /\ coming' = [coming EXCEPT ![s] = Tail(@)]
       /\ parsing' = [parsing EXCEPT ![s] = Nobody]
       /\ n > 0
       /\ client' = requests[s][n]
       /\ requests' = [requests EXCEPT ![s] = SubSeq(@, 1, n-1)]
       /\ Deliver(s, requests[s][n])
       /\ UNCHANGED <<userVars, socketVars, netVars, todo, extra, expected, split, reading>>

\* A complete response goes to the first client that waits.  If none does, the
\* variable `client' still holds the one before, or nothing, which raises.
MessageEnds == \E s \in begun :
    /\ Parse(s)
    /\ begun' = begun \ {s}
    /\ coming' = [coming EXCEPT ![s] = Tail(@)]
    /\ parsing' = [parsing EXCEPT ![s] = Nobody]
    /\ \/ /\ requests[s] # <<>>
          /\ client' = Head(requests[s])
          /\ requests' = [requests EXCEPT ![s] = Tail(@)]
          /\ Deliver(s, Head(requests[s]))
          /\ UNCHANGED <<reading, split>>
       \/ /\ requests[s] = <<>> /\ client # Nobody
          /\ Deliver(s, client)
          /\ UNCHANGED <<requests, readVars>>
       \/ /\ requests[s] = <<>> /\ client = Nobody
          /\ StopReading
          /\ UNCHANGED <<requests, fired>>
    /\ UNCHANGED <<userVars, socketVars, netVars, todo, extra, expected>>

ReadEnds ==
    /\ reading # None
    /\ taken[reading] = 0
    /\ StopReading
    /\ UNCHANGED <<userVars, socketVars, netVars, requests, peerVars, parserVars, fired>>

\* The user has the response.  The connection is closed if it says so.
OnResponse ==
    /\ NoRead
    /\ fired # <<>>
    /\ fired' = Tail(fired)
    /\ LET r == Head(fired)
       IN /\ stage' = [stage EXCEPT ![r.client] = IF @ = "sent" THEN "idle" ELSE @]
          /\ closing' = IF r.close THEN closing \cup {socket[r.client]} ELSE closing
    /\ UNCHANGED <<asked, socketVars, link, announced, requests, peerVars, parserVars,
                   readVars>>

-----------------------------------------------------------------------------
Handlers ==
    \/ \E c \in Clients : OnConnect(c) \/ OnConnectDone(c)
    \/ \E s \in Sockets : OnConnected(s)
    \/ MessageStarts \/ MessageEnds \/ ReadEnds \/ OnResponse

Environment ==
    \/ \E c \in Clients : OnRequest(c)
    \/ \E s \in Sockets : AnswerUnasked(s) \/ Severed(s)

Next ==
    \/ Handlers \/ Environment
    \/ \E s \in Sockets : Established(s) \/ Answer(s) \/ OnRead(s)

Spec == Init /\ [][Next]_vars

\* Handlers run; servers answer, and what arrives is read.
FairSpec ==
    /\ Spec
    /\ WF_vars(Handlers)
    /\ \A s \in Sockets : WF_vars(Established(s)) /\ WF_vars(Answer(s))
                         /\ WF_vars(Connected(s) /\ OnRead(s))

-----------------------------------------------------------------------------
(* What must hold *)

\* The connection has been established, or refused.
Settled(s) == link[s] \notin {"unmade", "connecting"}

HasSettled(c) == socket[c] # None /\ Settled(socket[c])

\* A TCPClient is new when it is made: numbers are not used twice.
NewSockets == \A s \in Sockets : s > made => link[s] = "unmade"

\* Requests, responses and closes are only about connections that are settled.
SettledFirst ==
    /\ \A s \in announced \cup closing : Settled(s)
    /\ \A s \in Sockets : ~Settled(s) =>
          requests[s] = <<>> /\ coming[s] = <<>> /\ todo[s] = <<>>

\* The parser never has more than has arrived.
ParsedHasArrived ==
    /\ \A s \in begun : coming[s] # <<>>
    /\ \A s \in Sockets : taken[s] <= Steps(s)

\* A client keeps its socket from the first request on: the requests of a
\* connection and the responses are those of clients whose socket it is.
StagesKeepSockets == \A c \in Clients :
    /\ stage[c] = "connect" => socket[c] = None
    /\ stage[c] \in {"result", "wait"} => socket[c] # None
    /\ stage[c] \in {"idle", "sent"} => socket[c] = None \/ HasSettled(c)

RequestsKeepSockets ==
    \A s \in Sockets : \A i \in 1..Len(requests[s]) : socket[requests[s][i]] = s

ResponsesKeepSockets ==
    /\ \A i \in 1..Len(fired) : HasSettled(fired[i].client)
    /\ client # Nobody => HasSettled(client)

Structure ==
    /\ NewSockets /\ SettledFirst /\ ParsedHasArrived
    /\ StagesKeepSockets /\ RequestsKeepSockets /\ ResponsesKeepSockets

\* The sequence r is all of q behind its first n elements.
Behind(q, n, r) ==
    /\ Len(q) = n + Len(r)
    /\ \A i \in 1..Len(r) : q[n + i] = r[i]

\* The client and the server agree on the order of what is unanswered: the
\* n-th response to come answers the n-th request that waits, and the server
\* has the others.
Mirrored(s) ==
    /\ Len(coming[s]) <= Len(requests[s])
    /\ \A i \in 1..Len(coming[s]) : coming[s][i].answers = requests[s][i]
    /\ link[s] = "open" => Behind(requests[s], Len(coming[s]), todo[s])

PipelineMirrored == extra = 0 => \A s \in Sockets : Mirrored(s)

\* However requests share connections and responses are cut into reads, each
\* client is given the response to its own request, as long as no server sends
\* a response unasked.
OwnResponse ==
    extra = 0 => \A i \in 1..Len(fired) : fired[i].client = fired[i].answers

\* Together these are inductive.
ClientInvariant == TypeOK /\ Structure /\ PipelineMirrored /\ OwnResponse

\* The parser must know the request a response answers, for its method decides
\* whether there is a body.  It does as long as no read begins within a response.
ParsedForOwnRequest ==
    extra = 0 => \A i \in 1..Len(fired) :
        fired[i].parsed = fired[i].client \/ fired[i].split

\* A request is answered unless its connection fails: no coroutine waits for a
\* `connected' that has been, and no response is lost between reads.
Failed(c) == stage[c] \in {"wait", "sent"} /\ link[socket[c]] \in {"ending", "closed"}

EveryRequestAnswered ==
    \A c \in Clients : stage[c] # "idle" ~> stage[c] = "idle" \/ Failed(c)
=============================================================================
