-------------------------- MODULE HTTPOrderProofs --------------------------
(***************************************************************************)
(* What a peer is sent is in the order of its requests, for all sockets,   *)
(* clients, peers and failures of foreign code: OrderInvariant is          *)
(* inductive together with PipelineInvariant.  With both, no response that *)
(* has its turn stalls, if its head can be composed, and every step of     *)
(* HTTP is one that Pipeline promises.  No close cuts a response and what  *)
(* is done has been sent, each unless some of the failures happen.         *)
(***************************************************************************)
EXTENDS HTTPProofs

-----------------------------------------------------------------------------
(* What a step leaves *)

\* The events of responses that are queued were so before.
OldStreams == \A i \in Streams' : \E j \in Streams : queue'[i] = queue[j]

\* What is written is an alert or an error, if anything.
WrittenAside(s) ==
    /\ Len(written[s]) \in Nat /\ Len(written'[s]) \in Nat
    /\ Len(written[s]) <= Len(written'[s])
    /\ \A i \in 1..Len(written[s]) : written'[s][i] = written[s][i]
    /\ \A i \in 1..Len(written'[s]) : i > Len(written[s]) => ~OfResponse(s, i)'

\* The peer of a connection that ends is left with the beginning of what was written.
WrittenLost(s) ==
    /\ Len(written[s]) \in Nat /\ Len(written'[s]) \in Nat
    /\ Len(written'[s]) <= Len(written[s])
    /\ \A i \in 1..Len(written'[s]) : written'[s][i] = written[s][i]

\* A step that may close connections, and leaves the pipelines of those that stay.
Undisturbed ==
    /\ UNCHANGED <<born, socket>>
    /\ \A c \in Clients : done[c] => done'[c]
    /\ \A s \in Sockets : /\ conn'[s] # "closed" => conn[s] # "closed" /\ requests'[s] = requests[s]
                          /\ requests'[s] \in {requests[s], <<>>}
                          /\ WrittenAside(s) \/ (conn'[s] = "closed" /\ WrittenLost(s))
    /\ \A c \in 1..born : conn'[socket[c]] # "closed" =>
          /\ c \in responses => c \in responses'
          /\ c \in response_started => c \in response_started'
    /\ response_started' \subseteq response_started

\* A step that moves no response on either
Frame == Undisturbed /\ OldStreams

\* What StreamSoFar says of an event, by its name, its client and the connection
\* of the client.
OnCourse(n, c, s) ==
    /\ n = "response.complete" => done[c]
    /\ conn[s] # "closed" => IF n = "response.start" THEN c \notin response_started
                             ELSE HeadWritten(s, c)

LEMMA StreamOnCourse ==
    ASSUME PipelineInvariant, StreamSoFar, NEW i \in Streams
    PROVE  \E c \in 1..born, s \in Sockets :
             /\ c = queue[i].client /\ s = socket[c] /\ c \in Clients
             /\ OnCourse(queue[i].name, c, s)
  <1>1. queue[i].client \in 1..born
    BY DEF PipelineInvariant, QueueOwned, Streams, ClientEventNames
  <1>2. queue[i].client \in Clients /\ socket[queue[i].client] \in Sockets
    BY <1>1, ClientsBorn DEF PipelineInvariant, ClientsOwned
  <1> QED BY <1>1, <1>2 DEF StreamSoFar, OnCourse

LEMMA OnCourseAll ==
    ASSUME \A i \in Streams' : \E n, c, s :
             /\ n = queue'[i].name /\ c = queue'[i].client /\ s = socket'[c]
             /\ OnCourse(n, c, s)'
    PROVE  StreamSoFar'
  BY DEF StreamSoFar, OnCourse

\* A head that has been written stays so.
LEMMA HeadStays ==
    ASSUME NEW s \in Sockets, WrittenAside(s), NEW c
    PROVE  HeadWritten(s, c)' <=> HeadWritten(s, c)
  <1>1. HeadWritten(s, c) => HeadWritten(s, c)'
    BY DEF WrittenAside, HeadWritten
  <1>2. HeadWritten(s, c)' => HeadWritten(s, c)
    BY DEF WrittenAside, HeadWritten, OfResponse
  <1> QED BY <1>1, <1>2

\* An event that was queued before says what it said.
LEMMA StaysOnCourse ==
    ASSUME PipelineInvariant, StreamSoFar, Undisturbed, NEW j \in Streams
    PROVE  \E n, c, s : /\ n = queue[j].name /\ c = queue[j].client
                        /\ s = socket'[c] /\ OnCourse(n, c, s)'
  <1>1. PICK c \in 1..born, s \in Sockets :
             /\ c = queue[j].client /\ s = socket[c] /\ c \in Clients
             /\ OnCourse(queue[j].name, c, s)
    BY StreamOnCourse
  <1>2. PICK n : n = queue[j].name
    OBVIOUS
  <1>3. conn'[s] # "closed" => (HeadWritten(s, c) => HeadWritten(s, c)')
    BY HeadStays DEF Undisturbed
  <1>4. OnCourse(n, c, s)'
    BY <1>1, <1>2, <1>3 DEF OnCourse, Undisturbed
  <1> QED BY <1>1, <1>2, <1>4 DEF Undisturbed

LEMMA FrameKeepsStreams ==
    ASSUME PipelineInvariant, StreamSoFar, Frame
    PROVE  StreamSoFar'
  <1> SUFFICES ASSUME NEW i \in Streams'
               PROVE  \E n, c, s : /\ n = queue'[i].name /\ c = queue'[i].client
                                   /\ s = socket'[c] /\ OnCourse(n, c, s)'
    BY OnCourseAll
  <1>1. PICK j \in Streams : queue'[i] = queue[j]
    BY DEF Frame, OldStreams
  <1> QED BY <1>1, StaysOnCourse DEF Frame

\* The parts of the invariant that speak of what waits and has begun
LEMMA UndisturbedRequests ==
    ASSUME PipelineInvariant, TypeOK', OrderInvariant, Undisturbed
    PROVE  RequestsAscend' /\ LeftIsDone' /\ StartedIsAccepted'
  <1>1. RequestsAscend'
    <2>1. \A s \in Sockets : Len(requests'[s]) = 0 \/ requests'[s] = requests[s]
      BY EmptySeq DEF Undisturbed
    <2> QED BY <2>1 DEF OrderInvariant, RequestsAscend
  <1>2. \A c \in 1..born : socket[c] \in Sockets /\ c \in Clients
    BY ClientsBorn DEF PipelineInvariant, ClientsOwned
  <1>3. LeftIsDone'
    <2> SUFFICES ASSUME NEW c \in 1..born, NEW s \in Sockets, s = socket[c], conn'[s] # "closed"
                 PROVE  \/ \E i \in 1..Len(requests'[s]) : requests'[s][i] = c
                        \/ done'[c] /\ c \in responses'
      BY <1>2 DEF LeftIsDone, Undisturbed
    <2>1. conn[s] # "closed" /\ requests'[s] = requests[s]
      BY DEF Undisturbed
    <2>2. \/ \E i \in 1..Len(requests[s]) : requests[s][i] = c
          \/ done[c] /\ c \in responses
      BY <2>1 DEF OrderInvariant, LeftIsDone
    <2> QED BY <1>2, <2>1, <2>2 DEF Undisturbed
  <1>4. StartedIsAccepted'
    BY <1>2 DEF OrderInvariant, StartedIsAccepted, Undisturbed
  <1> QED BY <1>1, <1>3, <1>4

\* What is written aside disturbs no order.
LEMMA AsideInOrder ==
    ASSUME ResponsesInOrder, \A s \in Sockets : WrittenAside(s) \/ WrittenLost(s)
    PROVE  ResponsesInOrder'
  <1> SUFFICES ASSUME NEW s \in Sockets, NEW j \in 1..Len(written'[s]), OfResponse(s, j)'
               PROVE  /\ written'[s][j].part = "head" =>
                          \A i \in 1..j-1 : OfResponse(s, i)' =>
                             written'[s][i].client < written'[s][j].client
                      /\ written'[s][j].part = "body" =>
                          /\ \A i \in 1..j-1 : OfResponse(s, i)' =>
                               written'[s][i].client <= written'[s][j].client
                          /\ \E i \in 1..j-1 :
                               written'[s][i] = [client |-> written'[s][j].client, part |-> "head"]
    BY DEF ResponsesInOrder, OfResponse
  <1>1. j \in 1..Len(written[s]) /\ written'[s][j] = written[s][j]
    BY DEF WrittenAside, WrittenLost, OfResponse
  <1>2. \A i \in 1..j-1 : i \in 1..Len(written[s]) /\ written'[s][i] = written[s][i]
    BY <1>1 DEF WrittenAside, WrittenLost
  <1> QED BY <1>1, <1>2 DEF ResponsesInOrder, OfResponse

\* The parts that speak of what has been written
LEMMA UndisturbedWritten ==
    ASSUME PipelineInvariant, TypeOK', OrderInvariant, Undisturbed
    PROVE  WrittenSoFar' /\ ResponsesInOrder' /\ NoResponseSkipped'
  <1>1. ASSUME NEW s \in Sockets
        PROVE  \A i \in 1..Len(written'[s]) : OfResponse(s, i)' =>
                  i \in 1..Len(written[s]) /\ written'[s][i] = written[s][i] /\ OfResponse(s, i)
    BY <1>1 DEF Undisturbed, WrittenAside, WrittenLost, OfResponse
  <1>2. WrittenSoFar'
    <2> SUFFICES ASSUME NEW s \in Sockets, NEW i \in 1..Len(written'[s]), OfResponse(s, i)',
                        NEW c, c = written'[s][i].client
                 PROVE  /\ c \in 1..born' /\ socket'[c] = s
                        /\ conn'[s] # "closed" =>
                             /\ c \in response_started'
                             /\ \A j \in 1..Len(requests'[s]) : c <= requests'[s][j]
      BY DEF WrittenSoFar
    <2>1. /\ c \in 1..born /\ socket[c] = s
          /\ conn[s] # "closed" =>
               c \in response_started /\ \A j \in 1..Len(requests[s]) : c <= requests[s][j]
      BY <1>1 DEF OrderInvariant, WrittenSoFar
    <2> QED BY <2>1 DEF Undisturbed
  <1>3. ResponsesInOrder'
    BY AsideInOrder DEF Undisturbed, OrderInvariant
  <1>4. NoResponseSkipped'
    <2> SUFFICES ASSUME NEW s \in Sockets, NEW i \in 1..Len(written'[s]),
                        written'[s][i].part = "head",
                        NEW c \in Clients, socket[c] = s, c < written'[s][i].client
                 PROVE  done'[c]
      BY DEF NoResponseSkipped, Owned, Undisturbed
    <2>1. i \in 1..Len(written[s]) /\ written'[s][i] = written[s][i]
      BY <1>1 DEF OfResponse
    <2>2. done[c]
      BY <2>1 DEF OrderInvariant, NoResponseSkipped, Owned
    <2> QED BY <2>2 DEF Undisturbed
  <1> QED BY <1>2, <1>3, <1>4

LEMMA FrameKeeps ==
    ASSUME PipelineInvariant, TypeOK', OrderInvariant, Frame
    PROVE  OrderInvariant'
  BY FrameKeepsStreams, UndisturbedRequests, UndisturbedWritten DEF OrderInvariant, Frame

-----------------------------------------------------------------------------
(* The steps that move no response on *)

\* What a dispatch leaves of the events of responses: those behind the first
\* event, and the ones it fires.
LEMMA FiredStreams ==
    ASSUME TypeOK, NEW n, Take(n), NEW es \in Seq(Events), Fire(es)
    PROVE  \A i \in Streams' :
             \/ \E j \in Streams : j > 1 /\ queue'[i] = queue[j]
             \/ \E k \in 1..Len(es) : queue'[i] = es[k] /\ es[k].name \in StreamNames
  <1> SUFFICES ASSUME NEW i \in Streams'
               PROVE  \/ \E j \in Streams : j > 1 /\ queue'[i] = queue[j]
                      \/ \E k \in 1..Len(es) : queue'[i] = es[k] /\ es[k].name \in StreamNames
    OBVIOUS
  <1>1. i \in 1..Len(queue') /\ queue'[i].name \in StreamNames
    BY DEF Streams
  <1>2. \/ i+1 \in 1..Len(queue) /\ queue'[i] = queue[i+1]
        \/ /\ i - (Len(queue) - 1) \in 1..Len(es)
           /\ queue'[i] = es[i - (Len(queue) - 1)]
    BY <1>1, FireElements DEF TypeOK
  <1>3. i+1 > 1
    BY <1>1
  <1> QED BY <1>1, <1>2, <1>3 DEF Streams

\* A handler fires nothing, or one event that moves no response on.
FiresAside ==
    \/ Fire(<<>>)
    \/ \E m \in ClientEventNames \ StreamNames, c \in Clients : Fire(<<ClientEvent(m, c)>>)
    \/ \E m \in SocketEventNames, s \in Sockets : Fire(<<SocketEvent(m, s)>>)

LEMMA AsideStreams ==
    ASSUME TypeOK, NEW n, Take(n), FiresAside
    PROVE  OldStreams
  <1>1. ASSUME NEW es \in Seq(Events), Fire(es), \A k \in 1..Len(es) : es[k].name \notin StreamNames
        PROVE  OldStreams
    BY <1>1, FiredStreams DEF OldStreams
  <1>2. CASE Fire(<<>>)
    <2>1. PICK es : es = <<>>
      OBVIOUS
    <2>2. es \in Seq(Events) /\ \A k \in 1..Len(es) : FALSE
      BY <2>1
    <2>3. Fire(es)
      BY <1>2, <2>1
    <2> QED BY <1>1, <2>2, <2>3
  <1>3. ASSUME NEW e \in Events, e.name \notin StreamNames, Fire(<<e>>)
        PROVE  OldStreams
    <2>1. PICK es : es = <<e>>
      OBVIOUS
    <2>2. es \in Seq(Events) /\ \A k \in 1..Len(es) : es[k] = e
      BY <2>1
    <2>3. Fire(es)
      BY <1>3, <2>1
    <2>4. \A k \in 1..Len(es) : es[k].name \notin StreamNames
      BY <1>3, <2>2
    <2> QED BY <1>1, <2>2, <2>3, <2>4
  <1>4. \A m \in ClientEventNames \ StreamNames, c \in Clients :
          ClientEvent(m, c) \in Events /\ ClientEvent(m, c).name \notin StreamNames
    BY ClientEventType DEF ClientEvent
  <1>5. \A m \in SocketEventNames, s \in Sockets :
          SocketEvent(m, s) \in Events /\ SocketEvent(m, s).name \notin StreamNames
    BY SocketEventType DEF SocketEvent, SocketEventNames, StreamNames
  <1> QED BY <1>2, <1>3, <1>4, <1>5 DEF FiresAside

LEMMA EnqueueStreams ==
    ASSUME TypeOK, NEW e \in Events, Enqueue(e), e.name \notin StreamNames
    PROVE  OldStreams
  <1> SUFFICES ASSUME NEW i \in Streams' PROVE \E j \in Streams : queue'[i] = queue[j]
    BY DEF OldStreams
  <1>1. i \in 1..Len(queue') /\ queue'[i].name \in StreamNames
    BY DEF Streams
  <1>2. \/ i \in 1..Len(queue) /\ queue'[i] = queue[i]
        \/ queue'[i] = e
    BY <1>1, EnqueueElements DEF TypeOK
  <1> QED BY <1>1, <1>2 DEF Streams

LEMMA SameStreams == UNCHANGED queue => OldStreams
  BY DEF OldStreams, Streams

\* Where one more part has been written, and what was there before.
LEMMA WriteElements ==
    ASSUME TypeOK, NEW s \in Sockets, NEW c \in Clients \cup {0}, NEW p \in Parts, Write(s, c, p)
    PROVE  /\ \A t \in Sockets : Len(written[t]) \in Nat
           /\ \A t \in Sockets : t # s => written'[t] = written[t]
           /\ conn[s] = "closed" => written' = written
           /\ conn[s] # "closed" =>
                 /\ Len(written'[s]) = Len(written[s]) + 1
                 /\ \A i \in 1..Len(written[s]) : written'[s][i] = written[s][i]
                 /\ written'[s][Len(written[s]) + 1] = [client |-> c, part |-> p]
  <1> DEFINE E == [client: Clients \cup {0}, part: Parts]
             e == [client |-> c, part |-> p]
  <1>1. written \in [Sockets -> Seq(E)] /\ e \in E
    BY DEF TypeOK
  <1>2. \A t \in Sockets : written[t] \in Seq(E)
    BY <1>1
  <1> HIDE DEF E
  <1>3. \A t \in Sockets : Len(written[t]) \in Nat
    BY <1>2, LenProperties
  <1>4. \A t \in Sockets : t # s => written'[t] = written[t]
    BY <1>1 DEF Write
  <1>5. conn[s] = "closed" => written' = written
    BY DEF Write
  <1>6. conn[s] # "closed" => written'[s] = Append(written[s], e)
    BY <1>1 DEF Write
  <1>7. /\ Len(Append(written[s], e)) = Len(written[s]) + 1
        /\ \A i \in 1..Len(written[s]) : Append(written[s], e)[i] = written[s][i]
        /\ Append(written[s], e)[Len(written[s]) + 1] = e
    BY <1>1, <1>2, AppendProperties
  <1> QED BY <1>3, <1>4, <1>5, <1>6, <1>7

LEMMA UnwrittenAside ==
    ASSUME TypeOK, UNCHANGED written
    PROVE  \A s \in Sockets : WrittenAside(s)
  <1>1. \A s \in Sockets : Len(written[s]) \in Nat
    BY LenProperties DEF TypeOK
  <1> QED BY <1>1 DEF WrittenAside

LEMMA WriteAside ==
    ASSUME TypeOK, NEW s \in Sockets, NEW c \in Clients \cup {0}, NEW p \in {"error", "alert"},
           Write(s, c, p)
    PROVE  \A t \in Sockets : WrittenAside(t)
  <1>1. p \in Parts
    BY DEF Parts
  <1> SUFFICES ASSUME NEW t \in Sockets PROVE WrittenAside(t)
    OBVIOUS
  <1>2. Len(written[t]) \in Nat
    BY <1>1, WriteElements
  <1>3. CASE written'[t] = written[t]
    BY <1>2, <1>3 DEF WrittenAside
  <1>4. CASE t = s /\ conn[s] # "closed"
    <2> DEFINE new == [client |-> c, part |-> p]
    <2>1. /\ Len(written'[s]) = Len(written[s]) + 1
          /\ \A i \in 1..Len(written[s]) : written'[s][i] = written[s][i]
          /\ written'[s][Len(written[s]) + 1] = new
      BY <1>1, <1>4, WriteElements
    <2>2. new.part \notin {"head", "body"}
      OBVIOUS
    <2> HIDE DEF new
    <2>3. PICK k \in Nat : k = Len(written[s])
      BY <1>2, <1>4
    <2>4. Len(written'[s]) = k + 1
      BY <2>1, <2>3
    <2>5. \A i \in 1..k+1 : i > k => i = k + 1
      OBVIOUS
    <2> QED BY <1>4, <2>1, <2>2, <2>3, <2>4, <2>5 DEF WrittenAside, OfResponse
  <1> QED BY <1>1, <1>3, <1>4, WriteElements

\* A handler that changes no pipeline, and writes what is no response.
LEMMA QuietOrder ==
    ASSUME PipelineInvariant, TypeOK', OrderInvariant, OldStreams,
           UNCHANGED <<conn, born, socket, requests, responses, response_started>>,
           \A c \in Clients : done[c] => done'[c],
           \A s \in Sockets : WrittenAside(s)
    PROVE  OrderInvariant'
  BY FrameKeeps DEF Frame, Undisturbed

\* The handlers that only fire events and change the response of their client.
Chatter ==
    \/ OnTimeoutCheck \/ OnRouting \/ OnRequest \/ OnRequestSuccess \/ OnRequestFailure
    \/ OnHTTPError \/ OnHTTPErrorSuccess \/ OnHTTPErrorFailure
    \/ OnResponseFailure \/ OnException \/ OnSocketError

LEMMA ChatterIsAside ==
    ASSUME PipelineInvariant, Chatter
    PROVE  /\ \E n : Take(n) /\ FiresAside
           /\ \A s \in Sockets : WrittenAside(s)
           /\ UNCHANGED <<conn, born, socket, requests, responses, response_started>>
           /\ \A c \in Clients : done[c] => done'[c]
  <1>1. TypeOK /\ QueueOwned /\ ClientsOwned
    BY DEF PipelineInvariant
  <1>2. /\ {"request", "request_success", "request_failure", "response", "httperror",
            "httperror_success", "httperror_failure", "exception:httperror_success",
            "routing_success", "domain.routing", "domain.routing_success"}
             \subseteq ClientEventNames \ StreamNames
        /\ {"httperror_failure", "exception:httperror_success", "exception:response.body"}
             \subseteq ClientEventNames
        /\ "close" \in SocketEventNames
    BY DEF ClientEventNames, StreamNames, SocketEventNames
  <1>3. UNCHANGED <<conn, born, socket, requests, responses, response_started>>
    BY DEF Chatter, OnTimeoutCheck, OnRouting, OnRequest, OnRequestSuccess, OnRequestFailure,
           OnHTTPError, OnHTTPErrorSuccess, OnHTTPErrorFailure, OnResponseFailure,
           OnException, OnSocketError, netVars, clientVars, stateVars, pipeVars
  <1>4. \A c \in Clients : done[c] => done'[c]
    <2>1. CASE OnResponseFailure
      BY <1>1, <2>1 DEF OnResponseFailure, TypeOK
    <2>2. CASE ~OnResponseFailure
      BY <2>2 DEF Chatter, OnTimeoutCheck, OnRouting, OnRequest, OnRequestSuccess,
         OnRequestFailure, OnHTTPError, OnHTTPErrorSuccess, OnHTTPErrorFailure,
         OnException, OnSocketError, clientVars
    <2> QED BY <2>1, <2>2
  <1>5. ASSUME NEW c \in Clients,
               NEW n \in {"httperror_failure", "exception:httperror_success",
                          "exception:response.body"}, TakeClient(n, c)
        PROVE  socket[c] \in Sockets
    BY <1>1, <1>2, <1>5, HeadOwned
  <1>6. CASE OnTimeoutCheck
    BY <1>1, <1>3, <1>4, <1>6, UnwrittenAside DEF OnTimeoutCheck, TakeSocket, FiresAside
  <1>7. CASE OnRouting
    <2>1. PICK c \in Clients, n \in DOMAIN NextHop : OnRouting!(c, n)
      BY <1>7 DEF OnRouting
    <2>2. NextHop[n] \in ClientEventNames \ StreamNames
      BY <1>2 DEF NextHop
    <2> QED BY <1>1, <1>2, <1>3, <1>4, <2>1, <2>2, UnwrittenAside DEF TakeClient, FiresAside
  <1>8. CASE OnRequest
    BY <1>1, <1>2, <1>3, <1>4, <1>8, UnwrittenAside DEF OnRequest, TakeClient, FiresAside
  <1>9. CASE OnRequestSuccess
    BY <1>1, <1>2, <1>3, <1>4, <1>9, UnwrittenAside DEF OnRequestSuccess, TakeClient, FiresAside
  <1>10. CASE OnRequestFailure
    BY <1>1, <1>2, <1>3, <1>4, <1>10, UnwrittenAside DEF OnRequestFailure, TakeClient, FiresAside
  <1>11. CASE OnHTTPError
    BY <1>1, <1>2, <1>3, <1>4, <1>11, UnwrittenAside DEF OnHTTPError, TakeClient, FiresAside
  <1>12. CASE OnHTTPErrorSuccess
    BY <1>1, <1>2, <1>3, <1>4, <1>12, UnwrittenAside DEF OnHTTPErrorSuccess, TakeClient, FiresAside
  <1>13. CASE OnHTTPErrorFailure
    <2>1. PICK c \in Clients, n \in {"httperror_failure", "exception:httperror_success"} :
               OnHTTPErrorFailure!(c, n)
      BY <1>13 DEF OnHTTPErrorFailure
    <2>2. socket[c] \in Sockets
      BY <1>5, <2>1
    <2>3. \A s \in Sockets : WrittenAside(s)
      BY <1>1, <2>1, <2>2, UnwrittenAside, WriteAside
    <2>4. Take(n) /\ FiresAside
      BY <1>2, <2>1, <2>2 DEF TakeClient, FiresAside
    <2> QED BY <1>3, <1>4, <2>3, <2>4
  <1>14. CASE OnResponseFailure
    BY <1>1, <1>2, <1>3, <1>4, <1>14, UnwrittenAside DEF OnResponseFailure, TakeClient, FiresAside
  <1>15. CASE OnException
    <2>1. PICK c \in Clients : OnException!(c)
      BY <1>15 DEF OnException
    <2>2. socket[c] \in Sockets
      BY <1>5, <2>1
    <2> QED BY <1>1, <1>2, <1>3, <1>4, <2>1, <2>2, UnwrittenAside DEF TakeClient, FiresAside
  <1>16. CASE OnSocketError
    <2>1. PICK s \in Sockets, e \in {"ssl error", "plaintext error"} : OnSocketError!(s, e)
      BY <1>16 DEF OnSocketError
    <2>2. \A t \in Sockets : WrittenAside(t)
      BY <1>1, <2>1, UnwrittenAside, WriteAside
    <2> QED BY <1>2, <1>3, <1>4, <2>1, <2>2 DEF TakeSocket, FiresAside
  <1> QED BY <1>6, <1>7, <1>8, <1>9, <1>10, <1>11, <1>12, <1>13, <1>14, <1>15, <1>16 DEF Chatter

LEMMA ChatterKeepsOrder ==
    ASSUME PipelineInvariant, TypeOK', OrderInvariant, Chatter
    PROVE  OrderInvariant'
  <1>1. TypeOK
    BY DEF PipelineInvariant
  <1> QED BY <1>1, ChatterIsAside, AsideStreams, QuietOrder

LEMMA TickKeepsOrder ==
    ASSUME PipelineInvariant, TypeOK', OrderInvariant, Tick
    PROVE  OrderInvariant'
  <1>1. UNCHANGED <<queue, conn, born, socket, done, requests, responses, response_started, written>>
    BY DEF Tick, netVars, clientVars, pipeVars
  <1> QED BY <1>1, SameStreams, UnwrittenAside, QuietOrder DEF PipelineInvariant

\* Coroutines and timers fire events between two batches.
LEMMA TasksKeepOrder ==
    ASSUME PipelineInvariant, TypeOK', OrderInvariant, Tasks
    PROVE  OrderInvariant'
  <1>1. UNCHANGED <<conn, born, socket, done, requests, responses, response_started, written>>
    BY DEF Tasks, TaskEnds, StoppedTaskEnds, TimerExpires, netVars, clientVars,
           stateVars, pipeVars
  <1>2. TypeOK
    BY DEF PipelineInvariant
  <1>3. ASSUME NEW c \in Clients, NEW m \in {"request_success", "request_failure"},
               Enqueue(ClientEvent(m, c))
        PROVE  OldStreams
    <2>1. m \in ClientEventNames /\ m \notin StreamNames
      BY DEF ClientEventNames, StreamNames
    <2>2. ClientEvent(m, c) \in Events /\ ClientEvent(m, c).name = m
      BY <2>1, ClientEventType DEF ClientEvent
    <2> QED BY <1>2, <1>3, <2>1, <2>2, EnqueueStreams
  <1>4. OldStreams
    <2>1. ASSUME NEW c \in Clients, TaskEnds(c) PROVE OldStreams
      BY <1>3, <2>1 DEF TaskEnds
    <2>2. ASSUME NEW c \in Clients, StoppedTaskEnds(c) PROVE OldStreams
      BY <1>3, <2>2, SameStreams DEF StoppedTaskEnds, loopVars
    <2>3. ASSUME NEW s \in Sockets, TimerExpires(s) PROVE OldStreams
      <3>1. SocketEvent("close", s) \in Events /\ SocketEvent("close", s).name \notin StreamNames
        BY SocketEventType DEF SocketEvent, SocketEventNames, StreamNames
      <3>2. UNCHANGED queue \/ Enqueue(SocketEvent("close", s))
        BY <2>3 DEF TimerExpires, Enqueue
      <3> QED BY <1>2, <3>1, <3>2, EnqueueStreams, SameStreams
    <2> QED BY <2>1, <2>2, <2>3 DEF Tasks
  <1> QED BY <1>1, <1>2, <1>4, UnwrittenAside, QuietOrder

\* Peers close no connection: TCPServer and the server do.
LEMMA EnvironmentKeepsOrder ==
    ASSUME PipelineInvariant, TypeOK', OrderInvariant, Environment
    PROVE  OrderInvariant'
  <1>1. UNCHANGED <<born, socket, done, requests, responses, response_started, written>>
    BY DEF Environment, Accept, Hangup, PeerSends, TLSError, clientVars, stateVars, pipeVars
  <1>2. TypeOK
    BY DEF PipelineInvariant
  <1>3. \A t \in Sockets : conn'[t] # "closed" => conn[t] # "closed"
    <2>1. conn \in [Sockets -> {"new", "open", "eof", "closed"}]
      BY <1>2 DEF TypeOK
    <2>2. \/ conn' = conn
          \/ \E s \in Sockets, x \in {"open", "eof"} :
                conn[s] # "closed" /\ conn' = [conn EXCEPT ![s] = x]
      BY DEF Environment, Accept, Hangup, PeerSends, TLSError
    <2> QED BY <2>1, <2>2
  <1>4. OldStreams
    <2>1. ASSUME NEW s \in Sockets,
                 NEW m \in {"timeout.check", "eof", "ssl error", "plaintext error"},
                 Enqueue(SocketEvent(m, s))
          PROVE  OldStreams
      <3>1. m \in SocketEventNames /\ m \notin StreamNames
        BY DEF SocketEventNames, StreamNames
      <3>2. SocketEvent(m, s) \in Events /\ SocketEvent(m, s).name = m
        BY <3>1, SocketEventType DEF SocketEvent
      <3> QED BY <1>2, <2>1, <3>1, <3>2, EnqueueStreams
    <2>2. ASSUME NEW s \in Sockets, NEW n \in ReadSizes,
                 NEW d \in {"http", "malformed", "tls"}, PeerSends(s, n, d)
          PROVE  OldStreams
      <3> DEFINE e == [name |-> "read", socket |-> s, messages |-> n, data |-> d]
      <3>1. e \in Events /\ e.name \notin StreamNames
        BY DEF Events, ReadEvents, StreamNames
      <3> QED BY <1>2, <2>2, <3>1, EnqueueStreams DEF PeerSends
    <2> QED BY <2>1, <2>2 DEF Environment, Accept, Hangup, TLSError
  <1> QED BY <1>1, <1>2, <1>3, <1>4, UnwrittenAside, FrameKeeps DEF Frame, Undisturbed

-----------------------------------------------------------------------------
(* The end of a connection: what it takes away belongs to it *)

\* It keeps the beginning of what was written to it.
LEMMA LoseAside ==
    ASSUME TypeOK, NEW s \in Sockets, conn'[s] = "closed", UNCHANGED written \/ Lose(s)
    PROVE  \A t \in Sockets : WrittenAside(t) \/ (conn'[t] = "closed" /\ WrittenLost(t))
  <1>1. written \in [Sockets -> Seq([client: Clients \cup {0}, part: Parts])]
    BY DEF TypeOK
  <1>2. CASE UNCHANGED written
    BY <1>2, UnwrittenAside
  <1>3. CASE Lose(s)
    <2>1. PICK n \in 0..Len(written[s]) : written' = [written EXCEPT ![s] = SubSeq(@, 1, n)]
      BY <1>3 DEF Lose
    <2>2. Len(written[s]) \in Nat /\ n \in Nat /\ n <= Len(written[s])
      BY <1>1, <2>1, LenProperties
    <2>3. written'[s] = SubSeq(written[s], 1, n)
      BY <1>1, <2>1
    <2>4. Len(written'[s]) = n /\ \A i \in 1..n : written'[s][i] = written[s][i]
      <3>1. PICK w \in Seq([client: Clients \cup {0}, part: Parts]) : w = written[s]
        BY <1>1
      <3>2. Len(SubSeq(w, 1, n)) = n /\ \A i \in 1..n : SubSeq(w, 1, n)[i] = w[i]
        BY <2>2, <3>1, SubSeqProperties
      <3> QED BY <2>3, <3>1, <3>2
    <2>5. WrittenLost(s)
      BY <2>2, <2>4 DEF WrittenLost
    <2>6. ASSUME NEW t \in Sockets, t # s PROVE WrittenAside(t)
      <3>1. written'[t] = written[t] /\ Len(written[t]) \in Nat
        BY <1>1, <2>1, <2>6, LenProperties
      <3> QED BY <3>1 DEF WrittenAside
    <2> QED BY <2>5, <2>6
  <1> QED BY <1>2, <1>3

LEMMA LoseOthers ==
    ASSUME TypeOK, NEW s \in Sockets, UNCHANGED written \/ Lose(s)
    PROVE  \A t \in Sockets : t # s => written'[t] = written[t]
  <1>1. UNCHANGED written \/ \E n : written' = [written EXCEPT ![s] = SubSeq(@, 1, n)]
    BY DEF Lose
  <1>2. DOMAIN written = Sockets
    BY DEF TypeOK
  <1> QED BY <1>1, <1>2

LEMMA RemoveStateFrame ==
    ASSUME PipelineInvariant, NEW s \in Sockets, RemoveState(s), OldStreams,
           conn' = [conn EXCEPT ![s] = "closed"], UNCHANGED <<born, socket, done>>,
           UNCHANGED written \/ Lose(s)
    PROVE  Frame
  <1>1. TypeOK /\ ClientsOwned
    BY DEF PipelineInvariant
  <1>2. conn'[s] = "closed" /\ \A t \in Sockets : t # s => conn'[t] = conn[t]
    BY <1>1 DEF TypeOK
  <1>3. requests'[s] = <<>> /\ \A t \in Sockets : t # s => requests'[t] = requests[t]
    BY <1>1 DEF RemoveState, TypeOK
  <1>4. \A c \in 1..born : conn'[socket[c]] # "closed" =>
          /\ c \in responses => c \in responses'
          /\ c \in response_started => c \in response_started'
    BY <1>2 DEF RemoveState, Owned
  <1>5. response_started' \subseteq response_started
    BY DEF RemoveState
  <1>6. \A t \in Sockets : WrittenAside(t) \/ (conn'[t] = "closed" /\ WrittenLost(t))
    BY <1>1, <1>2, LoseAside
  <1> QED BY <1>1, <1>2, <1>3, <1>4, <1>5, <1>6 DEF Frame, Undisturbed

LEMMA EndKeepsOrder ==
    ASSUME PipelineInvariant, TypeOK', OrderInvariant, OnClose \/ OnDisconnect \/ OnEOF
    PROVE  OrderInvariant'
  <1>1. TypeOK /\ DisconnectsAreReal
    BY DEF PipelineInvariant
  <1>2. PICK s \in Sockets : OnClose!(s) \/ OnDisconnect!(s) \/ OnEOF!(s)
    BY DEF OnClose, OnDisconnect, OnEOF
  <1>3. "disconnect" \in SocketEventNames
    BY DEF SocketEventNames
  <1>4. OldStreams
    BY <1>1, <1>2, <1>3, AsideStreams DEF FiresAside, TakeSocket
  <1>5. UNCHANGED <<born, socket, done>> /\ (UNCHANGED written \/ Lose(s))
    BY <1>2 DEF clientVars
  <1>6. CASE OnClose!(s)
    BY <1>4, <1>5, <1>6, RemoveStateFrame, FrameKeeps
  <1>7. CASE OnDisconnect!(s)
    <2>1. queue # <<>> /\ Head(queue).name = "disconnect" /\ Head(queue).socket = s
      BY <1>7 DEF TakeSocket, Take
    <2>2. 1 \in 1..Len(queue) /\ Head(queue) = queue[1]
      BY <1>1, <2>1, HeadTailProperties, LenProperties, EmptySeq DEF TypeOK
    <2>3. conn[s] = "closed"
      BY <1>1, <2>1, <2>2 DEF DisconnectsAreReal
    <2>4. conn' = [conn EXCEPT ![s] = "closed"]
      BY <1>1, <1>7, <2>3 DEF TypeOK, netVars
    <2> QED BY <1>4, <1>5, <1>7, <2>4, RemoveStateFrame, FrameKeeps
  <1>8. CASE OnEOF!(s)
    <2>1. UNCHANGED <<requests, responses, response_started>>
      BY <1>8 DEF stateVars, pipeVars
    <2>2. \A t \in Sockets : conn'[t] # "closed" => conn[t] # "closed"
      BY <1>1, <1>8 DEF TypeOK
    <2>3. \A t \in Sockets : WrittenAside(t) \/ (conn'[t] = "closed" /\ WrittenLost(t))
      BY <1>1, <1>5, <1>8, LoseAside DEF TypeOK
    <2> QED BY <1>1, <1>4, <1>5, <2>1, <2>2, <2>3, FrameKeeps DEF Frame, Undisturbed
  <1> QED BY <1>2, <1>6, <1>7, <1>8

-----------------------------------------------------------------------------
(* The first request and its response *)

\* The event e says what StreamSoFar asks, after the step.
StaysTrue(e) == \E n, c, s : /\ n = e.name /\ c = e.client /\ s = socket'[c]
                             /\ OnCourse(n, c, s)'

LEMMA DispatchOnCourse ==
    ASSUME TypeOK, NEW n, Take(n), NEW es \in Seq(Events), Fire(es),
           \A j \in Streams : j > 1 => StaysTrue(queue[j]),
           \A k \in 1..Len(es) : es[k].name \in StreamNames => StaysTrue(es[k])
    PROVE  StreamSoFar'
  <1> SUFFICES ASSUME NEW i \in Streams'
               PROVE  \E m, c, s : /\ m = queue'[i].name /\ c = queue'[i].client
                                   /\ s = socket'[c] /\ OnCourse(m, c, s)'
    BY OnCourseAll
  <1>1. \/ \E j \in Streams : j > 1 /\ queue'[i] = queue[j]
        \/ \E k \in 1..Len(es) : queue'[i] = es[k] /\ es[k].name \in StreamNames
    BY FiredStreams
  <1>2. PICK e : e = queue'[i] /\ StaysTrue(e)
    BY <1>1
  <1> QED BY <1>2 DEF StaysTrue

\* A handler that fires one event, or none
LEMMA FireAtMostOne ==
    ASSUME NEW e \in Events, Fire(<<>>) \/ Fire(<<e>>)
    PROVE  \E es \in Seq(Events) : Fire(es) /\ \A k \in 1..Len(es) : es[k] = e
  <1>1. PICK es, fs : es = <<>> /\ fs = <<e>>
    OBVIOUS
  <1>2. /\ es \in Seq(Events) /\ \A k \in 1..Len(es) : es[k] = e
        /\ fs \in Seq(Events) /\ \A k \in 1..Len(fs) : fs[k] = e
    BY <1>1
  <1>3. Fire(es) \/ Fire(fs)
    BY <1>1
  <1> QED BY <1>2, <1>3

LEMMA DispatchOneOnCourse ==
    ASSUME TypeOK, NEW n, Take(n), NEW m \in ClientEventNames, NEW c \in Clients,
           Fire(<<>>) \/ Fire(<<ClientEvent(m, c)>>),
           \A j \in Streams : j > 1 => StaysTrue(queue[j]),
           m \in StreamNames => \E s : s = socket'[c] /\ OnCourse(m, c, s)'
    PROVE  StreamSoFar'
  <1> DEFINE e == ClientEvent(m, c)
  <1>1. e \in Events /\ e.name = m /\ e.client = c
    BY ClientEventType DEF ClientEvent
  <1>2. m \in StreamNames => StaysTrue(e)
    <2> HIDE DEF e
    <2> QED BY <1>1 DEF StaysTrue
  <1> HIDE DEF e
  <1>3. Fire(<<>>) \/ Fire(<<e>>)
    BY DEF e
  <1>4. PICK es \in Seq(Events) : Fire(es) /\ \A k \in 1..Len(es) : es[k] = e
    BY <1>1, <1>3, FireAtMostOne
  <1>5. \A k \in 1..Len(es) : es[k].name \in StreamNames => StaysTrue(es[k])
    BY <1>1, <1>2, <1>4
  <1> QED BY <1>4, <1>5, DispatchOnCourse

\* The dispatched event itself
LEMMA DispatchedOnCourse ==
    ASSUME PipelineInvariant, StreamSoFar, NEW n \in StreamNames, NEW c \in Clients,
           TakeClient(n, c)
    PROVE  c \in 1..born /\ socket[c] \in Sockets /\ OnCourse(n, c, socket[c])
  <1>1. queue # <<>> /\ Head(queue).name = n /\ Head(queue).client = c
    BY DEF TakeClient, Take
  <1>2. 1 \in 1..Len(queue) /\ Head(queue) = queue[1]
    BY <1>1, HeadTailProperties, LenProperties, EmptySeq DEF PipelineInvariant, TypeOK
  <1>3. 1 \in Streams
    BY <1>1, <1>2 DEF Streams
  <1> QED BY <1>1, <1>2, <1>3, StreamOnCourse

\* The responses of other connections are not concerned by a step of one.
LEMMA OthersOnCourse ==
    ASSUME PipelineInvariant, StreamSoFar, NEW n \in StreamNames, NEW c \in Clients,
           TakeClient(n, c), UNCHANGED <<conn, born, socket>>,
           \A d \in Clients : done[d] => done'[d],
           response_started' \subseteq response_started \cup {c},
           \A t \in Sockets : t # socket[c] => written'[t] = written[t]
    PROVE  \A j \in Streams : j > 1 => StaysTrue(queue[j])
  <1> SUFFICES ASSUME NEW j \in Streams, j > 1 PROVE StaysTrue(queue[j])
    OBVIOUS
  <1>1. PICK d \in 1..born, t \in Sockets :
             /\ d = queue[j].client /\ t = socket[d] /\ d \in Clients
             /\ OnCourse(queue[j].name, d, t)
    BY StreamOnCourse
  <1>2. t # socket[c]
    BY <1>1, InvariantParts, HeadIsOnlyStream
  <1>3. HeadWritten(t, d) => HeadWritten(t, d)'
    BY <1>2 DEF HeadWritten
  <1>4. PICK m : m = queue[j].name
    OBVIOUS
  <1>5. d # c
    BY <1>1, <1>2
  <1>6. OnCourse(m, d, t)'
    BY <1>1, <1>3, <1>4, <1>5 DEF OnCourse
  <1> QED BY <1>1, <1>4, <1>6 DEF StaysTrue

\* The first request is the earliest of those that wait.
LEMMA HeadIsLeast ==
    ASSUME PipelineInvariant, RequestsAscend, NEW s \in Sockets, NEW c, IsHead(s, c)
    PROVE  /\ 1 \in 1..Len(requests[s]) /\ requests[s][1] = c
           /\ \A j \in 1..Len(requests[s]) : c <= requests[s][j]
  <1>1. requests[s] \in Seq(Clients) /\ requests[s] # <<>> /\ Head(requests[s]) = c
    BY DEF PipelineInvariant, TypeOK, IsHead
  <1>2. 1 \in 1..Len(requests[s]) /\ Head(requests[s]) = requests[s][1]
    BY <1>1, HeadTailProperties, LenProperties, EmptySeq
  <1>3. ASSUME NEW j \in 1..Len(requests[s]) PROVE c <= requests[s][j]
    <2>1. c \in Int /\ requests[s][j] \in Int
      <3>1. c \in Clients /\ requests[s][j] \in Clients
        BY <1>1, <1>2, <1>3, ElementOfSeq
      <3> QED BY <3>1 DEF Clients
    <2>2. j = 1 \/ 1 < j
      OBVIOUS
    <2>3. 1 < j => c < requests[s][j]
      BY <1>1, <1>2, <1>3 DEF RequestsAscend
    <2> QED BY <1>1, <1>2, <2>1, <2>2, <2>3
  <1> QED BY <1>1, <1>2, <1>3

\* A part of the response of client c is written behind what belongs to no later one.
LEMMA WriteInOrder ==
    ASSUME TypeOK, ResponsesInOrder, NEW s \in Sockets, NEW c \in Clients,
           NEW p \in {"head", "body"}, Write(s, c, p),
           conn[s] # "closed" =>
              /\ \A i \in 1..Len(written[s]) : OfResponse(s, i) =>
                    IF p = "head" THEN written[s][i].client < c ELSE written[s][i].client <= c
              /\ p = "body" => HeadWritten(s, c)
    PROVE  ResponsesInOrder'
  <1>1. p \in Parts /\ c \in Clients \cup {0}
    BY DEF Parts
  <1> SUFFICES ASSUME NEW t \in Sockets, NEW j \in 1..Len(written'[t])
               PROVE  /\ written'[t][j].part = "head" =>
                          \A i \in 1..j-1 : OfResponse(t, i)' =>
                             written'[t][i].client < written'[t][j].client
                      /\ written'[t][j].part = "body" =>
                          /\ \A i \in 1..j-1 : OfResponse(t, i)' =>
                               written'[t][i].client <= written'[t][j].client
                          /\ \E i \in 1..j-1 :
                               written'[t][i] = [client |-> written'[t][j].client, part |-> "head"]
    BY DEF ResponsesInOrder
  <1>2. CASE written'[t] = written[t]
    BY <1>2 DEF ResponsesInOrder, OfResponse
  <1>3. CASE t = s /\ conn[s] # "closed"
    <2> DEFINE new == [client |-> c, part |-> p]
    <2>1. /\ Len(written[s]) \in Nat /\ Len(written'[s]) = Len(written[s]) + 1
          /\ \A i \in 1..Len(written[s]) : written'[s][i] = written[s][i]
          /\ written'[s][Len(written[s]) + 1] = new
      BY <1>1, <1>3, WriteElements
    <2>2. new.client = c /\ new.part = p
      OBVIOUS
    <2> HIDE DEF new
    <2>3. PICK k \in Nat : k = Len(written[s])
      BY <2>1
    <2>4. j \in 1..k+1 /\ \A i \in 1..j-1 : i \in 1..k /\ written'[s][i] = written[s][i]
      BY <1>3, <2>1, <2>3
    <2>5. CASE j \in 1..k
      BY <1>3, <2>1, <2>3, <2>4, <2>5 DEF ResponsesInOrder, OfResponse
    <2>6. CASE j = k + 1
      <3>1. written'[s][j] = new /\ \A i \in 1..k : i \in 1..j-1 /\ i \in 1..Len(written[s])
        BY <2>1, <2>3, <2>6
      <3>2. \A i \in 1..j-1 : OfResponse(s, i)' => i \in 1..Len(written[s]) /\ OfResponse(s, i)
        BY <2>3, <2>4 DEF OfResponse
      <3>3. \A i \in 1..j-1 : OfResponse(s, i)' =>
               IF p = "head" THEN written'[s][i].client < c ELSE written'[s][i].client <= c
        BY <1>3, <2>4, <3>2
      <3>4. p = "body" => \E i \in 1..j-1 : written'[s][i] = [client |-> c, part |-> "head"]
        BY <1>3, <2>3, <2>4, <3>1 DEF HeadWritten
      <3> QED BY <1>3, <2>2, <3>1, <3>3, <3>4
    <2> QED BY <2>4, <2>5, <2>6
  <1> QED BY <1>1, <1>2, <1>3, WriteElements

LEMMA WriteSoFar ==
    ASSUME PipelineInvariant, WrittenSoFar, NEW c \in Clients, c \in 1..born,
           NEW s \in Sockets, s = socket[c], NEW p \in Parts, Write(s, c, p),
           UNCHANGED <<conn, born, socket, requests>>,
           response_started \subseteq response_started',
           conn[s] # "closed" =>
              c \in response_started' /\ \A j \in 1..Len(requests[s]) : c <= requests[s][j]
    PROVE  WrittenSoFar'
  <1>1. TypeOK /\ c \in Clients \cup {0}
    BY DEF PipelineInvariant
  <1> SUFFICES ASSUME NEW t \in Sockets, NEW i \in 1..Len(written'[t]), OfResponse(t, i)',
                      NEW d, d = written'[t][i].client
               PROVE  /\ d \in 1..born /\ socket[d] = t
                      /\ conn[t] # "closed" =>
                           d \in response_started' /\ \A j \in 1..Len(requests[t]) : d <= requests[t][j]
    BY DEF WrittenSoFar
  <1>2. CASE i \in 1..Len(written[t]) /\ written'[t][i] = written[t][i]
    BY <1>2 DEF WrittenSoFar, OfResponse
  <1>3. CASE t = s /\ conn[s] # "closed" /\ i = Len(written[s]) + 1
    <2> DEFINE new == [client |-> c, part |-> p]
    <2>1. written'[s][i] = new
      BY <1>1, <1>3, WriteElements
    <2>2. new.client = c
      OBVIOUS
    <2> HIDE DEF new
    <2> QED BY <1>3, <2>1, <2>2
  <1>4. \/ i \in 1..Len(written[t]) /\ written'[t][i] = written[t][i]
        \/ t = s /\ conn[s] # "closed" /\ i = Len(written[s]) + 1
    <2>1. CASE written'[t] = written[t]
      BY <2>1
    <2>2. CASE t = s /\ conn[s] # "closed"
      <3>1. /\ Len(written[s]) \in Nat /\ Len(written'[s]) = Len(written[s]) + 1
            /\ \A k \in 1..Len(written[s]) : written'[s][k] = written[s][k]
        BY <1>1, <2>2, WriteElements
      <3> QED BY <2>2, <3>1
    <2> QED BY <1>1, <2>1, <2>2, WriteElements
  <1> QED BY <1>2, <1>3, <1>4

LEMMA WriteSkipsNone ==
    ASSUME TypeOK, NoResponseSkipped, NEW s \in Sockets, NEW c \in Clients,
           NEW p \in Parts, Write(s, c, p),
           UNCHANGED socket, \A d \in Clients : done[d] => done'[d],
           conn[s] # "closed" /\ p = "head" => \A d \in Owned(s) : d < c => done[d]
    PROVE  NoResponseSkipped'
  <1>1. c \in Clients \cup {0}
    OBVIOUS
  <1> SUFFICES ASSUME NEW t \in Sockets, NEW i \in 1..Len(written'[t]),
                      written'[t][i].part = "head",
                      NEW d \in Clients, socket[d] = t, d < written'[t][i].client
               PROVE  done[d]
    BY DEF NoResponseSkipped, Owned
  <1>2. CASE written'[t] = written[t]
    BY <1>2 DEF NoResponseSkipped, Owned
  <1>3. CASE t = s /\ conn[s] # "closed"
    <2> DEFINE new == [client |-> c, part |-> p]
    <2>1. /\ Len(written[s]) \in Nat /\ Len(written'[s]) = Len(written[s]) + 1
          /\ \A k \in 1..Len(written[s]) : written'[s][k] = written[s][k]
          /\ written'[s][Len(written[s]) + 1] = new
      BY <1>1, <1>3, WriteElements
    <2>2. new.client = c /\ new.part = p
      OBVIOUS
    <2> HIDE DEF new
    <2>3. i \in 1..Len(written[s]) \/ i = Len(written[s]) + 1
      BY <1>3, <2>1
    <2>4. CASE i \in 1..Len(written[s])
      BY <1>3, <2>1, <2>4 DEF NoResponseSkipped, Owned
    <2>5. CASE i = Len(written[s]) + 1
      BY <1>3, <2>1, <2>2, <2>5 DEF Owned
    <2> QED BY <2>3, <2>4, <2>5
  <1> QED BY <1>1, <1>2, <1>3, WriteElements

-----------------------------------------------------------------------------
(* The handlers that move a response on *)

\* A response is started once: State.responses remembers it from then on.
LEMMA OnResponseKeepsOrder ==
    ASSUME PipelineInvariant, TypeOK', OrderInvariant, OnResponse
    PROVE  OrderInvariant'
  <1>1. PICK c \in Clients : OnResponse!(c)
    BY DEF OnResponse
  <1>2. /\ {"response", "response.start", "response_failure", "httperror"} \subseteq ClientEventNames
        /\ {"response_failure", "httperror"} \cap StreamNames = {}
    BY DEF ClientEventNames, StreamNames
  <1>3. c \in 1..born /\ socket[c] \in Sockets /\ Take("response")
    BY <1>1, <1>2, InvariantParts, HeadOwned DEF TakeClient
  <1>4. /\ UNCHANGED <<conn, born, socket, done, requests, response_started, written>>
        /\ responses \subseteq responses'
    BY <1>1 DEF netVars
  <1>5. Undisturbed
    BY <1>4, InvariantParts, UnwrittenAside DEF Undisturbed
  <1> DEFINE f == ClientEvent("response_failure", c)
             h == ClientEvent("httperror", c)
             b == ClientEvent("response.start", c)
             Fired == {f, h} \cup (IF c \in responses THEN {} ELSE {b})
  <1>6. /\ f \in Events /\ f.name \notin StreamNames
        /\ h \in Events /\ h.name \notin StreamNames
        /\ b \in Events /\ b.name = "response.start" /\ b.client = c
    BY <1>2, ClientEventType DEF ClientEvent
  <1>7. \E es \in Seq(Fired) : Fire(es)
    <2>1. <<>> \in Seq(Fired) /\ <<f>> \in Seq(Fired) /\ <<h>> \in Seq(Fired)
          /\ (c \notin responses => <<b>> \in Seq(Fired))
      BY EmptySeq
    <2>2. PICK none, failure, error, start :
               /\ none = <<>> /\ failure = <<f>> /\ error = <<h>> /\ start = ResponseOutcome(c)
      OBVIOUS
    <2>3. start \in Seq(Fired)
      BY <2>1, <2>2 DEF ResponseOutcome
    <2>4. failure \o start \in Seq(Fired) /\ start \o failure \in Seq(Fired)
      BY <2>1, <2>2, <2>3, ConcatProperties
    <2>5. Fire(none) \/ Fire(failure) \/ Fire(error) \/ Fire(start)
          \/ Fire(failure \o start) \/ Fire(start \o failure)
      BY <1>1, <2>2
    <2> QED BY <2>1, <2>2, <2>3, <2>4, <2>5
  <1>8. StaysTrue(b) \/ c \in responses
    <2>1. PICK s : s = socket[c]
      OBVIOUS
    <2>2. c \notin responses => OnCourse("response.start", c, s)'
      BY <1>3, <1>4, <2>1 DEF OrderInvariant, StartedIsAccepted, OnCourse
    <2> HIDE DEF b
    <2>3. PICK n : n = "response.start"
      OBVIOUS
    <2>4. c \notin responses => OnCourse(n, c, s)'
      BY <2>2, <2>3
    <2> QED BY <1>4, <1>6, <2>1, <2>3, <2>4 DEF StaysTrue
  <1>9. StreamSoFar'
    <2>1. PICK es \in Seq(Fired) : Fire(es)
      BY <1>7
    <2> HIDE DEF f, h, b
    <2>2. es \in Seq(Events) /\ \A k \in 1..Len(es) : es[k] \in Fired
      BY <1>6, <2>1, ElementOfSeq
    <2>3. \A k \in 1..Len(es) : es[k].name \in StreamNames => StaysTrue(es[k])
      <3> SUFFICES ASSUME NEW k \in 1..Len(es), es[k].name \in StreamNames
                   PROVE  StaysTrue(es[k])
        OBVIOUS
      <3>1. es[k] = b /\ c \notin responses
        BY <1>6, <2>2
      <3> QED BY <1>8, <3>1
    <2>4. \A j \in Streams : StaysTrue(queue[j])
      BY <1>5, StaysOnCourse DEF OrderInvariant, StaysTrue
    <2> QED BY <1>3, <2>1, <2>2, <2>3, <2>4, InvariantParts, DispatchOnCourse
  <1> QED BY <1>5, <1>9, UndisturbedRequests, UndisturbedWritten DEF OrderInvariant

\* The head goes behind the responses of the earlier requests, which are done.
LEMMA OnResponseStartKeepsOrder ==
    ASSUME PipelineInvariant, TypeOK', OrderInvariant, OnResponseStart
    PROVE  OrderInvariant'
  <1>1. PICK c \in Clients : OnResponseStart!(c)
    BY DEF OnResponseStart
  <1>2. /\ {"response.start", "response.body"} \subseteq StreamNames
        /\ StreamNames \subseteq ClientEventNames
    BY DEF ClientEventNames, StreamNames
  <1>3. PICK s \in Sockets : s = socket[c] /\ c \in 1..born /\ Take("response.start")
                             /\ OnCourse("response.start", c, s)
    BY <1>1, <1>2, DispatchedOnCourse DEF OrderInvariant, TakeClient
  <1>4. /\ UNCHANGED <<conn, born, socket, done, requests, responses>>
        /\ response_started \subseteq response_started'
        /\ response_started' \subseteq response_started \cup {c}
    BY <1>1 DEF netVars
  <1>5. /\ MayStream(c)
        /\ \/ UNCHANGED written /\ Fire(<<>>)
           \/ /\ Write(s, c, "head")
              /\ Fire(<<ClientEvent("response.body", c)>>)
              /\ c \in response_started' /\ s \in known
    BY <1>1, <1>2, <1>3, InvariantParts, HeadIsOnlyStream DEF Unanswerable
  <1>6. RequestsAscend' /\ LeftIsDone'
    BY <1>4 DEF OrderInvariant, RequestsAscend, LeftIsDone
  <1>7. StartedIsAccepted'
    BY <1>3, <1>4, <1>5 DEF OrderInvariant, StartedIsAccepted, MayStream
  <1>8. CASE UNCHANGED written /\ Fire(<<>>)
    <2>1. \A j \in Streams : j > 1 => StaysTrue(queue[j])
      BY <1>1, <1>2, <1>4, <1>8, OthersOnCourse DEF OrderInvariant
    <2>2. StreamSoFar'
      <3>1. PICK es : es = <<>>
        OBVIOUS
      <3>2. es \in Seq(Events) /\ Fire(es) /\ \A k \in 1..Len(es) : FALSE
        BY <1>8, <3>1
      <3> QED BY <1>3, <2>1, <3>2, InvariantParts, DispatchOnCourse
    <2>3. WrittenSoFar'
      BY <1>4, <1>8 DEF OrderInvariant, WrittenSoFar, OfResponse
    <2>4. ResponsesInOrder' /\ NoResponseSkipped'
      BY <1>4, <1>8 DEF OrderInvariant, ResponsesInOrder, NoResponseSkipped, OfResponse, Owned
    <2> QED BY <1>6, <1>7, <2>2, <2>3, <2>4 DEF OrderInvariant
  <1>9. CASE /\ Write(s, c, "head")
             /\ Fire(<<ClientEvent("response.body", c)>>)
             /\ c \in response_started' /\ s \in known
    <2>0. "head" \in Parts /\ "head" \in {"head", "body"} /\ c \in Clients \cup {0}
      BY DEF Parts
    <2>1. conn[s] # "closed" => /\ c \notin response_started
                                /\ 1 \in 1..Len(requests[s]) /\ requests[s][1] = c
                                /\ \A j \in 1..Len(requests[s]) : c <= requests[s][j]
      BY <1>3, <1>5, HeadIsLeast DEF OnCourse, MayStream, OrderInvariant
    <2>2. ASSUME conn[s] # "closed", NEW i \in 1..Len(written[s]), OfResponse(s, i)
          PROVE  written[s][i].client < c
      <3>1. PICK d : d = written[s][i].client
        OBVIOUS
      <3>2. d \in 1..born /\ d \in response_started /\ d <= c
        BY <2>1, <2>2, <3>1 DEF OrderInvariant, WrittenSoFar
      <3>3. d # c
        BY <2>1, <2>2, <3>2
      <3> QED BY <1>3, <3>1, <3>2, <3>3
    <2>3. ASSUME conn[s] # "closed", NEW d \in Owned(s), d < c
          PROVE  done[d]
      <3>1. d \in 1..born /\ socket[d] = s
        <4>1. d \in Clients /\ socket[d] = s /\ born \in Nat
          BY <2>3, InvariantParts, ClientsBorn DEF Owned
        <4>2. d \in Int /\ 1 <= d
          BY <4>1 DEF Clients
        <4> QED BY <1>3, <2>3, <4>1, <4>2
      <3>2. ~\E i \in 1..Len(requests[s]) : requests[s][i] = d
        BY <1>3, <2>1, <2>3, <3>1
      <3> QED BY <2>3, <3>1, <3>2 DEF OrderInvariant, LeftIsDone
    <2>4. ResponsesInOrder'
      BY <1>9, <2>0, <2>2, InvariantParts, WriteInOrder DEF OrderInvariant
    <2>5. WrittenSoFar'
      BY <1>3, <1>4, <1>9, <2>0, <2>1, WriteSoFar DEF OrderInvariant
    <2>6. NoResponseSkipped'
      BY <1>4, <1>9, <2>0, <2>3, InvariantParts, WriteSkipsNone DEF OrderInvariant
    <2>7. StreamSoFar'
      <3>1. \A t \in Sockets : t # s => written'[t] = written[t]
        BY <1>9, <2>0, InvariantParts, WriteElements
      <3>2. \A j \in Streams : j > 1 => StaysTrue(queue[j])
        BY <1>1, <1>2, <1>3, <1>4, <3>1, OthersOnCourse DEF OrderInvariant
      <3>3. conn[s] # "closed" => HeadWritten(s, c)'
        <4> SUFFICES ASSUME conn[s] # "closed"
                     PROVE  \E i \in 1..Len(written'[s]) :
                               written'[s][i] = [client |-> c, part |-> "head"]
          BY DEF HeadWritten
        <4>1. /\ Len(written[s]) \in Nat /\ Len(written'[s]) = Len(written[s]) + 1
              /\ written'[s][Len(written[s]) + 1] = [client |-> c, part |-> "head"]
          BY <1>9, <2>0, InvariantParts, WriteElements
        <4>2. Len(written[s]) + 1 \in 1..Len(written'[s])
          BY <4>1
        <4> QED BY <4>1, <4>2
      <3>4. PICK n : n = "response.body"
        OBVIOUS
      <3>5. OnCourse(n, c, s)'
        BY <1>4, <3>3, <3>4 DEF OnCourse
      <3> QED BY <1>2, <1>3, <1>4, <1>9, <3>2, <3>4, <3>5, InvariantParts, DispatchOneOnCourse
    <2> QED BY <1>6, <1>7, <2>4, <2>5, <2>6, <2>7 DEF OrderInvariant
  <1> QED BY <1>5, <1>8, <1>9

\* A chunk follows the head of its own response; behind the last one the
\* response is done.
LEMMA OnResponseBodyKeepsOrder ==
    ASSUME PipelineInvariant, TypeOK', OrderInvariant, OnResponseBody
    PROVE  OrderInvariant'
  <1>1. PICK c \in Clients : OnResponseBody!(c)
    BY DEF OnResponseBody
  <1>2. /\ {"response.body", "response.complete"} \subseteq StreamNames
        /\ StreamNames \subseteq ClientEventNames
        /\ "exception:response.body" \in ClientEventNames \ StreamNames
    BY DEF ClientEventNames, StreamNames
  <1>3. PICK s \in Sockets : s = socket[c] /\ c \in 1..born /\ Take("response.body")
                             /\ OnCourse("response.body", c, s)
    BY <1>1, <1>2, DispatchedOnCourse DEF OrderInvariant, TakeClient
  <1>4. UNCHANGED <<conn, born, socket, requests, responses, response_started>>
    BY <1>1 DEF netVars, stateVars, pipeVars
  <1>5. MayStream(c) /\ (conn[s] # "closed" => HeadWritten(s, c))
    BY <1>1, <1>2, <1>3, InvariantParts, HeadIsOnlyStream DEF OnCourse
  <1>6. \/ Write(s, c, "body") /\ UNCHANGED done /\ Fire(<<ClientEvent("response.body", c)>>)
        \/ UNCHANGED written /\ done' = [done EXCEPT ![c] = TRUE]
           /\ Fire(<<ClientEvent("response.complete", c)>>)
        \/ UNCHANGED <<written, done>> /\ Fire(<<ClientEvent("exception:response.body", c)>>)
    BY <1>1, <1>3
  <1>7. done' \in [Clients -> BOOLEAN] /\ \A d \in Clients : done[d] => done'[d]
    BY <1>6, InvariantParts DEF TypeOK
  <1>8. RequestsAscend' /\ LeftIsDone' /\ StartedIsAccepted'
    <2>1. RequestsAscend' /\ StartedIsAccepted'
      BY <1>4 DEF OrderInvariant, RequestsAscend, StartedIsAccepted
    <2>2. LeftIsDone'
      <3>1. 1..born \subseteq Clients
        BY InvariantParts, ClientsBorn
      <3> QED BY <1>4, <1>7, <3>1 DEF OrderInvariant, LeftIsDone
    <2> QED BY <2>1, <2>2
  <1>9. CASE Write(s, c, "body") /\ UNCHANGED done /\ Fire(<<ClientEvent("response.body", c)>>)
    <2>0. "body" \in Parts /\ "body" \in {"head", "body"} /\ c \in Clients \cup {0}
      BY DEF Parts
    <2>1. conn[s] # "closed" => /\ 1 \in 1..Len(requests[s]) /\ requests[s][1] = c
                                /\ \A j \in 1..Len(requests[s]) : c <= requests[s][j]
      BY <1>3, <1>5, HeadIsLeast DEF MayStream, OrderInvariant
    <2>2. ASSUME conn[s] # "closed", NEW i \in 1..Len(written[s]), OfResponse(s, i)
          PROVE  written[s][i].client <= c
      BY <2>1, <2>2 DEF OrderInvariant, WrittenSoFar
    <2>3. conn[s] # "closed" => c \in response_started
      <3> SUFFICES ASSUME conn[s] # "closed" PROVE c \in response_started
        OBVIOUS
      <3> DEFINE head == [client |-> c, part |-> "head"]
      <3>1. head.client = c /\ head.part = "head"
        OBVIOUS
      <3>2. PICK i \in 1..Len(written[s]) : written[s][i] = head
        BY <1>5 DEF HeadWritten
      <3> HIDE DEF head
      <3> QED BY <3>1, <3>2 DEF OrderInvariant, WrittenSoFar, OfResponse
    <2>4. ResponsesInOrder'
      BY <1>5, <1>9, <2>0, <2>2, InvariantParts, WriteInOrder DEF OrderInvariant
    <2>5. WrittenSoFar'
      BY <1>3, <1>4, <1>9, <2>0, <2>1, <2>3, WriteSoFar DEF OrderInvariant
    <2>6. NoResponseSkipped'
      BY <1>4, <1>7, <1>9, <2>0, InvariantParts, WriteSkipsNone DEF OrderInvariant
    <2>7. StreamSoFar'
      <3>1. /\ \A t \in Sockets : t # s => written'[t] = written[t]
            /\ Len(written[s]) \in Nat
            /\ conn[s] # "closed" =>
                 /\ Len(written'[s]) = Len(written[s]) + 1
                 /\ \A i \in 1..Len(written[s]) : written'[s][i] = written[s][i]
        BY <1>9, <2>0, InvariantParts, WriteElements
      <3>2. \A j \in Streams : j > 1 => StaysTrue(queue[j])
        BY <1>1, <1>2, <1>3, <1>4, <1>7, <3>1, OthersOnCourse DEF OrderInvariant
      <3>3. conn[s] # "closed" => HeadWritten(s, c)'
        <4>1. conn[s] # "closed" => 1..Len(written[s]) \subseteq 1..Len(written'[s])
          BY <3>1
        <4> QED BY <1>5, <3>1, <4>1 DEF HeadWritten
      <3>4. PICK n : n = "response.body"
        OBVIOUS
      <3>5. OnCourse(n, c, s)'
        BY <1>4, <3>3, <3>4 DEF OnCourse
      <3> QED BY <1>2, <1>3, <1>4, <1>9, <3>2, <3>4, <3>5, InvariantParts, DispatchOneOnCourse
    <2> QED BY <1>8, <2>4, <2>5, <2>6, <2>7 DEF OrderInvariant
  <1>10. ASSUME UNCHANGED written,
                NEW n \in {"response.complete", "exception:response.body"},
                Fire(<<ClientEvent(n, c)>>), n = "response.complete" => done'[c]
         PROVE  OrderInvariant'
    <2>1. \A j \in Streams : j > 1 => StaysTrue(queue[j])
      BY <1>1, <1>2, <1>4, <1>7, <1>10, OthersOnCourse DEF OrderInvariant
    <2>2. n \in StreamNames => OnCourse(n, c, s)'
      BY <1>4, <1>5, <1>10 DEF OnCourse, HeadWritten
    <2>3. StreamSoFar'
      BY <1>2, <1>3, <1>4, <1>10, <2>1, <2>2, InvariantParts, DispatchOneOnCourse
    <2>4. WrittenSoFar'
      BY <1>4, <1>10 DEF OrderInvariant, WrittenSoFar, OfResponse
    <2>5. ResponsesInOrder' /\ NoResponseSkipped'
      BY <1>4, <1>7, <1>10 DEF OrderInvariant, ResponsesInOrder, NoResponseSkipped, OfResponse, Owned
    <2> QED BY <1>8, <2>3, <2>4, <2>5 DEF OrderInvariant
  <1>11. done' = [done EXCEPT ![c] = TRUE] => done'[c]
    BY InvariantParts DEF TypeOK
  <1> QED BY <1>6, <1>9, <1>10, <1>11

\* The first request leaves: it is done, and the next one has not begun.
LEMMA OnResponseCompleteKeepsOrder ==
    ASSUME PipelineInvariant, TypeOK', OrderInvariant, OnResponseComplete
    PROVE  OrderInvariant'
  <1>1. PICK c \in Clients : OnResponseComplete!(c)
    BY DEF OnResponseComplete
  <1>2. /\ {"response.start", "response.complete"} \subseteq StreamNames
        /\ StreamNames \subseteq ClientEventNames
        /\ "close" \in SocketEventNames /\ "close" \notin StreamNames
    BY DEF ClientEventNames, StreamNames, SocketEventNames
  <1>3. PICK s \in Sockets : s = socket[c] /\ c \in 1..born /\ Take("response.complete")
                             /\ OnCourse("response.complete", c, s)
    BY <1>1, <1>2, DispatchedOnCourse DEF OrderInvariant, TakeClient
  <1>4. UNCHANGED <<conn, born, socket, done, responses, response_started, written>>
    BY <1>1 DEF netVars
  <1>5. done[c] /\ MayStream(c)
    BY <1>1, <1>2, <1>3, InvariantParts, HeadIsOnlyStream DEF OnCourse
  <1>6. \A j \in Streams : j > 1 => StaysTrue(queue[j])
    BY <1>1, <1>2, <1>4, OthersOnCourse DEF OrderInvariant
  <1>7. ResponsesInOrder' /\ NoResponseSkipped' /\ StartedIsAccepted'
    <2>1. ResponsesInOrder'
      BY <1>4 DEF OrderInvariant, ResponsesInOrder, OfResponse
    <2>2. NoResponseSkipped'
      BY <1>4 DEF OrderInvariant, NoResponseSkipped, Owned
    <2>3. StartedIsAccepted'
      BY <1>4 DEF OrderInvariant, StartedIsAccepted
    <2> QED BY <2>1, <2>2, <2>3
  <1>8. CASE Fire(<<>>) /\ UNCHANGED requests
    <2>1. OldStreams
      BY <1>3, <1>8, InvariantParts, AsideStreams DEF FiresAside
    <2> QED BY <1>4, <1>8, <2>1, InvariantParts, UnwrittenAside, QuietOrder
  <1>9. CASE /\ IsHead(s, c) /\ requests' = [requests EXCEPT ![s] = Tail(@)]
             /\ Fire(AfterComplete(s, c))
    <2>1. /\ requests'[s] = Tail(requests[s])
          /\ \A t \in Sockets : t # s => requests'[t] = requests[t]
      BY <1>9, InvariantParts DEF TypeOK
    <2>2. /\ Len(requests[s]) \in Nat /\ Len(requests'[s]) = Len(requests[s]) - 1
          /\ \A i \in 1..Len(requests'[s]) : requests'[s][i] = requests[s][i+1]
      BY <1>9, <2>1, InvariantParts, HeadTailProperties, LenProperties DEF TypeOK, IsHead
    <2>3. \A i \in 1..Len(requests'[s]) : i+1 \in 1..Len(requests[s])
      BY <2>2
    <2>4. requests[s][1] = c
      BY <1>9, HeadIsLeast DEF OrderInvariant
    <2>5. RequestsAscend'
      <3>1. ASSUME NEW i \in 1..Len(requests'[s]), NEW j \in 1..Len(requests'[s]), i < j
            PROVE  requests'[s][i] < requests'[s][j]
        <4>1. i+1 < j+1
          BY <3>1
        <4>2. requests[s][i+1] < requests[s][j+1]
          BY <2>3, <4>1 DEF OrderInvariant, RequestsAscend
        <4> QED BY <2>2, <4>2
      <3> QED BY <2>1, <3>1 DEF OrderInvariant, RequestsAscend
    <2>6. LeftIsDone'
      <3> SUFFICES ASSUME NEW d \in 1..born, NEW t \in Sockets, t = socket[d], conn[t] # "closed"
                   PROVE  \/ \E i \in 1..Len(requests'[t]) : requests'[t][i] = d
                          \/ done[d] /\ d \in responses
        BY <1>4, InvariantParts DEF LeftIsDone, ClientsOwned
      <3>1. CASE t # s
        BY <2>1, <3>1 DEF OrderInvariant, LeftIsDone
      <3>2. CASE d = c
        BY <1>3, <1>5, <3>2 DEF MayStream
      <3>3. CASE t = s /\ d # c
        <4>1. CASE done[d] /\ d \in responses
          BY <4>1
        <4>2. CASE \E i \in 1..Len(requests[s]) : requests[s][i] = d
          <5>1. PICK i \in 1..Len(requests[s]) : requests[s][i] = d
            BY <4>2
          <5>2. i # 1
            BY <2>4, <3>3, <5>1
          <5>3. PICK k \in Nat : k = i - 1
            BY <2>2, <5>1
          <5>4. k \in 1..Len(requests'[s]) /\ k + 1 = i
            BY <2>2, <5>1, <5>2, <5>3
          <5> QED BY <2>2, <3>3, <5>1, <5>4
        <4> QED BY <3>3, <4>1, <4>2 DEF OrderInvariant, LeftIsDone
      <3> QED BY <3>1, <3>2, <3>3
    <2>7. WrittenSoFar'
      <3> SUFFICES ASSUME NEW t \in Sockets, NEW i \in 1..Len(written[t]), OfResponse(t, i),
                          NEW d, d = written[t][i].client
                   PROVE  /\ d \in 1..born /\ socket[d] = t
                          /\ conn[t] # "closed" =>
                               /\ d \in response_started
                               /\ \A j \in 1..Len(requests'[t]) : d <= requests'[t][j]
        BY <1>4 DEF WrittenSoFar, OfResponse
      <3>1. /\ d \in 1..born /\ socket[d] = t
            /\ conn[t] # "closed" =>
                 d \in response_started /\ \A j \in 1..Len(requests[t]) : d <= requests[t][j]
        BY DEF OrderInvariant, WrittenSoFar
      <3>2. CASE t # s
        BY <2>1, <3>1, <3>2
      <3>3. CASE t = s
        BY <2>2, <2>3, <3>1, <3>3
      <3> QED BY <3>2, <3>3
    <2>8. StreamSoFar'
      <3> DEFINE next == Head(Tail(requests[s]))
      <3>1. \/ Fire(<<>>)
            \/ Fire(<<SocketEvent("close", s)>>)
            \/ /\ Tail(requests[s]) # <<>> /\ next \notin response_started
               /\ Fire(<<ClientEvent("response.start", next)>>)
        BY <1>9 DEF AfterComplete
      <3>2. CASE Fire(<<>>) \/ Fire(<<SocketEvent("close", s)>>)
        <4> DEFINE e == SocketEvent("close", s)
        <4>1. e \in Events /\ e.name \notin StreamNames
          BY <1>2, SocketEventType DEF SocketEvent
        <4> HIDE DEF e
        <4>2. Fire(<<>>) \/ Fire(<<e>>)
          BY <3>2 DEF e
        <4>3. PICK es \in Seq(Events) : Fire(es) /\ \A k \in 1..Len(es) : es[k] = e
          BY <4>1, <4>2, FireAtMostOne
        <4>4. \A k \in 1..Len(es) : es[k].name \in StreamNames => FALSE
          BY <4>1, <4>3
        <4> QED BY <1>3, <1>6, <4>3, <4>4, InvariantParts, DispatchOnCourse
      <3>3. CASE /\ Tail(requests[s]) # <<>> /\ next \notin response_started
                 /\ Fire(<<ClientEvent("response.start", next)>>)
        <4>1. PICK d : d = next
          OBVIOUS
        <4>2. d \in 1..born /\ d \in Clients /\ socket[d] = s
          BY <1>9, <3>3, <4>1, InvariantParts, NextOwned DEF IsHead
        <4>3. PICK n : n = "response.start"
          OBVIOUS
        <4>4. OnCourse(n, d, s)'
          BY <1>4, <3>3, <4>1, <4>3 DEF OnCourse
        <4>5. Fire(<<ClientEvent(n, d)>>)
          BY <3>3, <4>1, <4>3
        <4> QED BY <1>2, <1>3, <1>4, <1>6, <4>2, <4>3, <4>4, <4>5, InvariantParts,
                   DispatchOneOnCourse
      <3> QED BY <3>1, <3>2, <3>3
    <2> QED BY <1>7, <2>5, <2>6, <2>7, <2>8 DEF OrderInvariant
  <1> QED BY <1>1, <1>3, <1>8, <1>9

-----------------------------------------------------------------------------
(* Reading *)

\* New requests come later than all that is written or waits.
LEMMA OnReadKeepsOrder ==
    ASSUME PipelineInvariant, TypeOK', OrderInvariant, OnRead
    PROVE  OrderInvariant'
  <1>1. PICK s \in Sockets, n \in Nat, first \in {"routing", "httperror"} :
             ReadOutcome(s, n, first)
    BY InvariantParts, OnReadCases
  <1>2. UNCHANGED <<conn, done, responses, response_started>>
    BY DEF OnRead, netVars
  <1>3. Take("read") /\ born' = born + n
    BY <1>1 DEF ReadOutcome
  <1>4. PICK new \in Seq(Clients) :
             /\ Len(new) = n /\ \A i \in 1..n : new[i] = born + i
             /\ ReadAppends(s, n, new)
    BY <1>1, InvariantParts, ReadRequests
  <1>5. /\ born \in Nat /\ 1..born \subseteq Clients
        /\ Len(requests[s]) \in Nat /\ Len(requests'[s]) = Len(requests[s]) + n
        /\ \A t \in Sockets : t # s => requests'[t] = requests[t]
        /\ \A c \in 1..born : socket'[c] = socket[c]
        /\ \A c \in born+1 .. born+n : socket'[c] = s
    BY <1>4 DEF ReadAppends
  <1>6. \A i \in 1..Len(requests[s]) : i \in 1..Len(requests'[s]) /\ requests'[s][i] = requests[s][i]
    BY <1>4, <1>5 DEF ReadAppends
  <1>7. ASSUME NEW k \in 1..n
        PROVE  /\ Len(requests[s]) + k \in 1..Len(requests'[s])
               /\ requests'[s][Len(requests[s]) + k] = born + k
    <2>1. PICK l \in Nat : l = Len(requests[s])
      BY <1>5
    <2>2. l + k \in 1..Len(requests'[s]) /\ ~(l + k <= l) /\ (l + k) - l = k
      BY <1>5, <2>1
    <2> QED BY <1>4, <2>1, <2>2 DEF ReadAppends
  <1>8. ASSUME NEW i \in 1..Len(requests'[s])
        PROVE  \/ i \in 1..Len(requests[s])
               \/ \E k \in 1..n : i = Len(requests[s]) + k /\ requests'[s][i] = born + k
    <2>1. CASE i <= Len(requests[s])
      BY <1>5, <2>1
    <2>2. CASE ~(i <= Len(requests[s]))
      <3>1. PICK k \in 1..n : i = Len(requests[s]) + k
        <4>1. i - Len(requests[s]) \in 1..n /\ i = Len(requests[s]) + (i - Len(requests[s]))
          BY <1>5, <2>2
        <4> QED BY <4>1
      <3> QED BY <1>7, <3>1
    <2> QED BY <2>1, <2>2
  <1>9. \A i \in 1..Len(requests[s]) : requests[s][i] \in 1..born
    BY InvariantParts DEF ClientsOwned
  <1>10. RequestsAscend'
    <2>1. ASSUME NEW i \in 1..Len(requests'[s]), NEW j \in 1..Len(requests'[s]), i < j
          PROVE  requests'[s][i] < requests'[s][j]
      <3>1. CASE j \in 1..Len(requests[s])
        <4>1. i \in 1..Len(requests[s])
          BY <1>5, <2>1, <3>1
        <4> QED BY <1>6, <2>1, <3>1, <4>1 DEF OrderInvariant, RequestsAscend
      <3>2. CASE j \notin 1..Len(requests[s])
        <4>1. PICK k \in 1..n : j = Len(requests[s]) + k /\ requests'[s][j] = born + k
          BY <1>8, <3>2
        <4>2. CASE i \in 1..Len(requests[s])
          <5>1. PICK c \in 1..born : requests'[s][i] = c
            BY <1>6, <1>9, <4>2
          <5>2. c < born + k
            BY <1>5
          <5> QED BY <4>1, <5>1, <5>2
        <4>3. CASE i \notin 1..Len(requests[s])
          <5>1. PICK l \in 1..n : i = Len(requests[s]) + l /\ requests'[s][i] = born + l
            BY <1>8, <4>3
          <5> QED BY <1>5, <2>1, <4>1, <5>1
        <4> QED BY <4>2, <4>3
      <3> QED BY <3>1, <3>2
    <2> QED BY <1>5, <2>1 DEF OrderInvariant, RequestsAscend
  <1>11. LeftIsDone'
    <2> SUFFICES ASSUME NEW c \in 1..born', NEW t, t = socket'[c], conn[t] # "closed"
                 PROVE  \/ \E i \in 1..Len(requests'[t]) : requests'[t][i] = c
                        \/ done[c] /\ c \in responses
      BY <1>2 DEF LeftIsDone
    <2>1. CASE c \in 1..born
      <3>1. t = socket[c] /\ t \in Sockets
        BY <1>5, <2>1, InvariantParts DEF ClientsOwned
      <3>2. \/ \E i \in 1..Len(requests[t]) : requests[t][i] = c
            \/ done[c] /\ c \in responses
        BY <2>1, <3>1 DEF OrderInvariant, LeftIsDone
      <3> QED BY <1>5, <1>6, <3>1, <3>2
    <2>2. CASE c \notin 1..born
      <3>1. PICK k \in 1..n : c = born + k
        <4>1. c - born \in 1..n /\ c = born + (c - born)
          BY <1>3, <1>5, <2>2
        <4> QED BY <4>1
      <3>2. c \in born+1 .. born+n
        BY <1>5, <3>1
      <3> QED BY <1>5, <1>7, <3>1, <3>2
    <2> QED BY <2>1, <2>2
  <1>12. StartedIsAccepted'
    BY <1>2, <1>3, <1>5 DEF OrderInvariant, StartedIsAccepted
  <1>13. \A t \in Sockets : WrittenAside(t)
    <2>1. UNCHANGED written \/ Write(s, 0, "alert")
      BY <1>1 DEF ReadOutcome
    <2> QED BY <2>1, InvariantParts, UnwrittenAside, WriteAside
  <1>14. StreamSoFar'
    <2>1. PICK es \in Seq(Events) :
               Fire(es) /\ \A i \in 1..Len(es) :
                 \/ es[i] = SocketEvent("timeout.check", s) \/ es[i] = SocketEvent("close", s)
                 \/ \E c \in 1..born' : es[i] = ClientEvent(first, c)
      BY <1>1, InvariantParts, ReadFires
    <2>2. \A i \in 1..Len(es) : es[i].name \notin StreamNames
      <3>1. /\ SocketEvent("timeout.check", s).name = "timeout.check"
            /\ SocketEvent("close", s).name = "close"
            /\ \A c : ClientEvent(first, c).name = first
        BY DEF SocketEvent, ClientEvent
      <3>2. \A i \in 1..Len(es) : es[i].name \in {"timeout.check", "close", first}
        BY <2>1, <3>1
      <3> QED BY <3>2 DEF StreamNames
    <2>3. ASSUME NEW j \in Streams PROVE StaysTrue(queue[j])
      <3>1. PICK c \in 1..born, t \in Sockets :
                 /\ c = queue[j].client /\ t = socket[c] /\ c \in Clients
                 /\ OnCourse(queue[j].name, c, t)
        BY StreamOnCourse DEF OrderInvariant
      <3>2. PICK m : m = queue[j].name
        OBVIOUS
      <3>3. HeadWritten(t, c) => HeadWritten(t, c)'
        BY <1>13, HeadStays
      <3>4. OnCourse(m, c, t)'
        BY <1>2, <3>1, <3>2, <3>3 DEF OnCourse
      <3> QED BY <1>5, <3>1, <3>2, <3>4 DEF StaysTrue
    <2> QED BY <1>3, <2>1, <2>2, <2>3, InvariantParts, DispatchOnCourse
  <1>15. ASSUME NEW t \in Sockets, NEW i \in 1..Len(written'[t]), OfResponse(t, i)'
         PROVE  i \in 1..Len(written[t]) /\ written'[t][i] = written[t][i] /\ OfResponse(t, i)
    BY <1>13, <1>15 DEF WrittenAside, OfResponse
  <1>16. WrittenSoFar'
    <2> SUFFICES ASSUME NEW t \in Sockets, NEW i \in 1..Len(written'[t]), OfResponse(t, i)',
                        NEW d, d = written'[t][i].client
                 PROVE  /\ d \in 1..born' /\ socket'[d] = t
                        /\ conn[t] # "closed" =>
                             /\ d \in response_started
                             /\ \A j \in 1..Len(requests'[t]) : d <= requests'[t][j]
      BY <1>2 DEF WrittenSoFar
    <2>1. /\ d \in 1..born /\ socket[d] = t
          /\ conn[t] # "closed" =>
               d \in response_started /\ \A j \in 1..Len(requests[t]) : d <= requests[t][j]
      BY <1>15 DEF OrderInvariant, WrittenSoFar
    <2>2. d \in 1..born' /\ socket'[d] = t
      BY <1>3, <1>5, <2>1
    <2>3. ASSUME conn[t] # "closed", NEW j \in 1..Len(requests'[t])
          PROVE  d <= requests'[t][j]
      <3>1. CASE t # s
        BY <1>5, <2>1, <2>3, <3>1
      <3>2. CASE t = s /\ j \in 1..Len(requests[s])
        BY <1>6, <2>1, <2>3, <3>2
      <3>3. CASE t = s /\ j \notin 1..Len(requests[s])
        <4>1. PICK k \in 1..n : requests'[s][j] = born + k
          BY <1>8, <2>3, <3>3
        <4> QED BY <1>5, <2>1, <3>3, <4>1
      <3> QED BY <3>1, <3>2, <3>3
    <2> QED BY <2>1, <2>2, <2>3
  <1>17. ResponsesInOrder'
    BY <1>13, AsideInOrder DEF OrderInvariant
  <1>18. NoResponseSkipped'
    <2> SUFFICES ASSUME NEW t \in Sockets, NEW i \in 1..Len(written'[t]),
                        written'[t][i].part = "head",
                        NEW c \in Clients, socket'[c] = t, c < written'[t][i].client
                 PROVE  done[c]
      BY <1>2 DEF NoResponseSkipped, Owned
    <2>1. i \in 1..Len(written[t]) /\ written'[t][i] = written[t][i] /\ OfResponse(t, i)
      BY <1>15 DEF OfResponse
    <2>2. written[t][i].client \in 1..born
      BY <2>1 DEF OrderInvariant, WrittenSoFar
    <2>3. c \in Int /\ 1 <= c
      BY DEF Clients
    <2>4. c \in 1..born
      BY <1>5, <2>1, <2>2, <2>3
    <2> QED BY <1>5, <2>1, <2>4 DEF OrderInvariant, NoResponseSkipped, Owned
  <1> QED BY <1>10, <1>11, <1>12, <1>14, <1>16, <1>17, <1>18 DEF OrderInvariant

-----------------------------------------------------------------------------
(* The theorems *)

LEMMA OrderInit == Init => OrderInvariant
  <1> SUFFICES ASSUME Init PROVE OrderInvariant
    OBVIOUS
  <1>1. /\ Len(queue) = 0 /\ born = 0 /\ response_started = {}
        /\ \A s \in Sockets : Len(requests[s]) = 0 /\ Len(written[s]) = 0
    BY EmptySeq DEF Init
  <1>2. RequestsAscend /\ LeftIsDone /\ StartedIsAccepted
    BY <1>1 DEF RequestsAscend, LeftIsDone, StartedIsAccepted
  <1>3. StreamSoFar
    BY <1>1 DEF StreamSoFar, Streams
  <1>4. WrittenSoFar /\ ResponsesInOrder /\ NoResponseSkipped
    BY <1>1 DEF WrittenSoFar, ResponsesInOrder, NoResponseSkipped
  <1> QED BY <1>2, <1>3, <1>4 DEF OrderInvariant

LEMMA OrderStutter ==
    ASSUME PipelineInvariant, TypeOK', OrderInvariant, UNCHANGED vars
    PROVE  OrderInvariant'
  <1>1. UNCHANGED <<queue, conn, born, socket, done, requests, responses, response_started,
                    written>>
    BY DEF vars, loopVars, netVars, clientVars, stateVars, pipeVars
  <1> QED BY <1>1, SameStreams, UnwrittenAside, QuietOrder, InvariantParts

\* What a peer is sent keeps the order of its requests, and so does everything
\* this rests on, for any peers and failures of foreign code.
THEOREM OrderIsKept == Spec => []OrderInvariant
  <1>1. ASSUME PipelineInvariant, PipelineInvariant', OrderInvariant, [Next]_vars
        PROVE  OrderInvariant'
    <2>0. TypeOK'
      BY <1>1 DEF PipelineInvariant
    <2>1. CASE Chatter
      BY <1>1, <2>0, <2>1, ChatterKeepsOrder
    <2>2. CASE Dispatch /\ ~Chatter
      BY <1>1, <2>0, <2>2, OnReadKeepsOrder, OnResponseKeepsOrder, OnResponseStartKeepsOrder,
         OnResponseBodyKeepsOrder, OnResponseCompleteKeepsOrder, EndKeepsOrder
         DEF Dispatch, Chatter
    <2>3. CASE Environment \/ Tasks \/ Tick
      BY <1>1, <2>0, <2>3, EnvironmentKeepsOrder, TasksKeepOrder, TickKeepsOrder
    <2>4. CASE UNCHANGED vars
      BY <1>1, <2>0, <2>4, OrderStutter
    <2> QED BY <1>1, <2>1, <2>2, <2>3, <2>4 DEF Next
  <1> QED BY <1>1, OrderInit, PipelineIsSound, PTL DEF Spec

\* A peer that pipelines its requests is sent their responses in that order,
\* each from its head on and none mixed with another.
THEOREM InOrder == Spec => []ResponsesInOrder
  <1>1. OrderInvariant => ResponsesInOrder
    BY DEF OrderInvariant
  <1> QED BY <1>1, OrderIsKept, PTL

\* No response begins before those of all earlier requests are done.
THEOREM NoneSkipped == Spec => []NoResponseSkipped
  <1>1. OrderInvariant => NoResponseSkipped
    BY DEF OrderInvariant
  <1> QED BY <1>1, OrderIsKept, PTL

-----------------------------------------------------------------------------
(* No response stalls *)

\* The first request of a connection whose response is there
Turn(s, c) == s \in known /\ conn[s] # "closed" /\ IsHead(s, c) /\ c \in responses

DriverNames == StreamNames \cup {"exception:response.body", "close"}

\* An event that moves the response of c on, or ends its connection s
Drives(e, s, c) ==
    \/ e.name \in StreamNames \cup {"exception:response.body"} /\ e.client = c
    \/ e.name = "close" /\ e.socket = s

Driven(s, c) == \E i \in 1..Len(queue) : Drives(queue[i], s, c)

\* Only the first request of an open connection has begun to be answered.
StartedIsFirst ==
    \A s \in Sockets : \A j \in 1..Len(requests[s]) :
        conn[s] # "closed" /\ requests[s][j] \in response_started => j = 1

\* NoStall, and what it rests on
StallInvariant ==
    /\ \A s \in Sockets, c \in Clients : Turn(s, c) => Driven(s, c)
    /\ StartedIsFirst
    /\ responses \subseteq 1..born

LEMMA StallImplies ==
    ASSUME TypeOK, StallInvariant
    PROVE  NoStall
  <1> SUFFICES ASSUME NEW s \in known, conn[s] # "closed", requests[s] # <<>>,
                      Head(requests[s]) \in responses
               PROVE  \/ InQueue(StreamNames \cup {"exception:response.body"}, Head(requests[s]))
                      \/ CloseQueued(s)
    BY DEF NoStall
  <1>1. PICK c : c = Head(requests[s])
    OBVIOUS
  <1>2. s \in Sockets /\ c \in Clients /\ Turn(s, c)
    BY <1>1 DEF TypeOK, Turn, IsHead
  <1>3. PICK i \in 1..Len(queue) : Drives(queue[i], s, c)
    BY <1>2 DEF StallInvariant, Driven
  <1> QED BY <1>1, <1>3 DEF Drives, InQueue, CloseQueued

\* An event that is not dispatched stays.
Stays(i) == \E k \in 1..Len(queue') : queue'[k] = queue[i]

LEMMA EventsStay ==
    ASSUME TypeOK, NEW n, Take(n), NEW es \in Seq(Events), Fire(es)
    PROVE  /\ 1 \in 1..Len(queue) /\ queue[1].name = n /\ queue[1] = Head(queue)
           /\ \A i \in 1..Len(queue) : i # 1 => Stays(i)
           /\ \A j \in 1..Len(es) : \E k \in 1..Len(queue') : queue'[k] = es[j]
  <1>1. queue \in Seq(Events) /\ queue # <<>> /\ queue' = Tail(queue) \o es
    BY DEF Take, Fire, TypeOK
  <1>2. /\ Tail(queue) \in Seq(Events) /\ Len(Tail(queue)) = Len(queue) - 1
        /\ \A i \in 1..Len(Tail(queue)) : Tail(queue)[i] = queue[i+1]
        /\ Head(queue) = queue[1]
    BY <1>1, HeadTailProperties
  <1>3. Len(queue) \in Nat \ {0} /\ Len(es) \in Nat
    BY <1>1, LenProperties, EmptySeq
  <1>4. /\ Len(queue') = Len(queue) - 1 + Len(es)
        /\ \A i \in 1..Len(queue') :
             queue'[i] = IF i <= Len(queue) - 1 THEN Tail(queue)[i]
                         ELSE es[i - (Len(queue) - 1)]
    BY <1>1, <1>2, ConcatProperties
  <1>5. ASSUME NEW i \in 1..Len(queue), i # 1 PROVE Stays(i)
    <2>1. i-1 \in 1..Len(Tail(queue)) /\ i-1 \in 1..Len(queue') /\ (i-1)+1 = i
          /\ i-1 <= Len(queue) - 1
      BY <1>2, <1>3, <1>4, <1>5
    <2>2. queue'[i-1] = queue[i]
      BY <1>2, <1>4, <2>1
    <2> QED BY <2>1, <2>2 DEF Stays
  <1>6. ASSUME NEW j \in 1..Len(es) PROVE \E k \in 1..Len(queue') : queue'[k] = es[j]
    <2>1. PICK k : k = j + (Len(queue) - 1)
      OBVIOUS
    <2>2. k \in 1..Len(queue') /\ ~(k <= Len(queue) - 1) /\ k - (Len(queue) - 1) = j
      BY <1>3, <1>4, <2>1
    <2> QED BY <1>4, <2>2
  <1> QED BY <1>2, <1>3, <1>5, <1>6 DEF Take

LEMMA EventsStayEnqueued ==
    ASSUME TypeOK, NEW e, Enqueue(e)
    PROVE  \A i \in 1..Len(queue) : Stays(i)
  <1>1. queue \in Seq(Events) /\ queue' = Append(queue, e)
    BY DEF Enqueue, TypeOK
  <1>2. Len(queue) \in Nat
    BY <1>1, LenProperties
  <1>3. Len(queue') = Len(queue) + 1 /\ \A i \in 1..Len(queue) : queue'[i] = queue[i]
    BY <1>1, <1>2
  <1> QED BY <1>2, <1>3 DEF Stays

\* A step that moves nothing on but what its event was about.
Calm ==
    /\ UNCHANGED born
    /\ known' \subseteq known
    /\ responses' \subseteq responses /\ response_started' \subseteq response_started
    /\ \A s \in Sockets : /\ conn'[s] # "closed" => conn[s] # "closed"
                          /\ requests'[s] \in {requests[s], <<>>}

\* The event i stays, or what it drove is driven by another or has lost its turn.
Passed(i) ==
    Stays(i) \/ \A s \in Sockets, c \in Clients :
                   Turn(s, c) /\ Turn(s, c)' /\ Drives(queue[i], s, c) => Driven(s, c)'

LEMMA StaysDriven ==
    ASSUME NEW s \in Sockets, NEW c \in Clients, Turn(s, c), Turn(s, c)', Driven(s, c),
           \A i \in 1..Len(queue) : Passed(i)
    PROVE  Driven(s, c)'
  <1>1. PICK i \in 1..Len(queue) : Drives(queue[i], s, c)
    BY DEF Driven
  <1>2. CASE Stays(i)
    <2>1. PICK k \in 1..Len(queue') : queue'[k] = queue[i]
      BY <1>2 DEF Stays
    <2> QED BY <1>1, <2>1 DEF Driven, Drives
  <1> QED BY <1>1, <1>2 DEF Passed

LEMMA CalmTurn ==
    ASSUME Calm, NEW s \in Sockets, NEW c \in Clients, Turn(s, c)'
    PROVE  Turn(s, c)
  BY DEF Calm, Turn, IsHead

LEMMA CalmStall ==
    ASSUME StallInvariant, Calm, \A i \in 1..Len(queue) : Passed(i)
    PROVE  StallInvariant'
  <1>1. \A s \in Sockets, c \in Clients : Turn(s, c)' => Driven(s, c)'
    BY CalmTurn, StaysDriven DEF StallInvariant
  <1>2. StartedIsFirst'
    <2>1. \A s \in Sockets : Len(requests'[s]) = 0 \/ requests'[s] = requests[s]
      BY EmptySeq DEF Calm
    <2> QED BY <2>1 DEF StallInvariant, StartedIsFirst, Calm
  <1>3. responses' \subseteq 1..born'
    BY DEF StallInvariant, Calm
  <1> QED BY <1>1, <1>2, <1>3 DEF StallInvariant

\* A handler of an event that drives nothing, or hands on what it drove.
LEMMA DispatchPasses ==
    ASSUME TypeOK, NEW n, Take(n), NEW es \in Seq(Events), Fire(es),
           n \notin DriverNames \/ Passed(1)
    PROVE  \A i \in 1..Len(queue) : Passed(i)
  <1>1. n \notin DriverNames => Passed(1)
    BY EventsStay DEF Passed, Drives, DriverNames
  <1>2. \A i \in 1..Len(queue) : i # 1 => Passed(i)
    BY EventsStay DEF Passed
  <1> QED BY <1>1, <1>2

\* FiresAside as a sequence of events
LEMMA AsideSequence ==
    ASSUME FiresAside
    PROVE  \E es \in Seq(Events) : Fire(es)
  <1>1. CASE Fire(<<>>)
    BY <1>1, EmptySeq
  <1>2. ASSUME NEW e \in Events, Fire(<<e>>) PROVE \E es \in Seq(Events) : Fire(es)
    <2>1. <<e>> \in Seq(Events)
      OBVIOUS
    <2> QED BY <1>2, <2>1
  <1>3. \A m \in ClientEventNames \ StreamNames, c \in Clients : ClientEvent(m, c) \in Events
    BY ClientEventType
  <1>4. \A m \in SocketEventNames, s \in Sockets : SocketEvent(m, s) \in Events
    BY SocketEventType
  <1> QED BY <1>1, <1>2, <1>3, <1>4 DEF FiresAside

\* What is dispatched drives the client or connection it is about, and no other.
LEMMA HeadDrives ==
    ASSUME TypeOK, NEW n, Take(n), NEW s, NEW c, Drives(queue[1], s, c)
    PROVE  \/ TakeClient(n, c) /\ n \in StreamNames \cup {"exception:response.body"}
           \/ TakeSocket(n, s) /\ n = "close"
  <1>1. Head(queue) = queue[1]
    BY HeadTailProperties DEF Take, TypeOK
  <1> QED BY <1>1 DEF Take, TakeClient, TakeSocket, Drives

\* The connection a client waits on is its own.
LEMMA TurnOwner ==
    ASSUME TypeOK, ClientsOwned, NEW s \in Sockets, NEW c \in Clients, Turn(s, c)
    PROVE  /\ s = socket[c] /\ 1 \in 1..Len(requests[s]) /\ requests[s][1] = c
           /\ ~Unanswerable(c)
  <1>1. requests[s] \in Seq(Clients) /\ requests[s] # <<>>
    BY DEF TypeOK, Turn, IsHead
  <1>2. 1 \in 1..Len(requests[s]) /\ requests[s][1] = c
    BY <1>1, HeadTailProperties, LenProperties, EmptySeq DEF Turn, IsHead
  <1> QED BY <1>2 DEF ClientsOwned, Turn, Unanswerable

LEMMA ChatterStall ==
    ASSUME PipelineInvariant, StallInvariant, Chatter
    PROVE  StallInvariant'
  <1>1. TypeOK /\ ClientsOwned /\ QueueOwned
    BY InvariantParts
  <1>2. PICK n : Take(n) /\ FiresAside
    BY ChatterIsAside
  <1>3. Calm
    <2>1. UNCHANGED known
      BY DEF Chatter, OnTimeoutCheck, OnRouting, OnRequest, OnRequestSuccess, OnRequestFailure,
             OnHTTPError, OnHTTPErrorSuccess, OnHTTPErrorFailure, OnResponseFailure,
             OnException, OnSocketError, stateVars
    <2> QED BY <2>1, ChatterIsAside DEF Calm
  <1>4. CASE ~OnException
    <2>1. n \notin DriverNames
      <3>1. n = Head(queue).name
        BY <1>2 DEF Take
      <3>2. Head(queue).name \in {"timeout.check", "request", "request_success",
              "request_failure", "httperror", "httperror_success", "httperror_failure",
              "exception:httperror_success", "response_failure", "ssl error",
              "plaintext error"} \cup DOMAIN NextHop
        BY <1>4 DEF Chatter, OnTimeoutCheck, OnRouting, OnRequest, OnRequestSuccess,
             OnRequestFailure, OnHTTPError, OnHTTPErrorSuccess, OnHTTPErrorFailure,
             OnResponseFailure, OnSocketError, Take, TakeClient, TakeSocket
      <3> QED BY <3>1, <3>2 DEF DriverNames, StreamNames, NextHop
    <2> QED BY <1>1, <1>2, <1>3, <2>1, AsideSequence, DispatchPasses, CalmStall
  <1>5. CASE OnException
    <2>1. PICK c \in Clients : OnException!(c)
      BY <1>5 DEF OnException
    <2>2. "exception:response.body" \in ClientEventNames /\ "close" \in SocketEventNames
      BY DEF ClientEventNames, SocketEventNames
    <2>3. PICK s \in Sockets : s = socket[c]
      BY <1>1, <2>1, <2>2, HeadOwned
    <2>4. PICK es : es = <<SocketEvent("close", s)>>
      OBVIOUS
    <2>5. es \in Seq(Events) /\ Fire(es) /\ 1 \in 1..Len(es) /\ es[1] = SocketEvent("close", s)
      BY <2>1, <2>2, <2>3, <2>4, SocketEventType
    <2>6. Take("exception:response.body")
      BY <2>1 DEF TakeClient
    <2>7. Passed(1)
      <3> SUFFICES ASSUME NEW t \in Sockets, NEW d \in Clients, Turn(t, d),
                          Drives(queue[1], t, d)
                   PROVE  Driven(t, d)'
        BY DEF Passed
      <3>1. d = c
        BY <1>1, <2>1, <2>6, HeadDrives DEF TakeClient
      <3>2. t = s
        BY <1>1, <2>3, <3>1, TurnOwner
      <3>3. Drives(SocketEvent("close", s), t, d)
        BY <3>2 DEF Drives, SocketEvent
      <3> QED BY <1>1, <2>5, <2>6, <3>3, EventsStay DEF Driven, Drives
    <2> QED BY <1>1, <1>3, <2>5, <2>6, <2>7, DispatchPasses, CalmStall
  <1> QED BY <1>4, <1>5

\* The poller, the coroutines and the timers only add events.
LEMMA LoopStall ==
    ASSUME PipelineInvariant, StallInvariant, Environment \/ Tasks \/ Tick
    PROVE  StallInvariant'
  <1>1. TypeOK
    BY InvariantParts
  <1>2. UNCHANGED <<born, known, requests, responses, response_started>>
    BY DEF Environment, Accept, Hangup, PeerSends, TLSError, Tasks, TaskEnds, StoppedTaskEnds,
           TimerExpires, Tick, clientVars, stateVars, pipeVars
  <1>3. \A s \in Sockets : conn'[s] # "closed" => conn[s] # "closed"
    <2>1. conn \in [Sockets -> {"new", "open", "eof", "closed"}]
      BY <1>1 DEF TypeOK
    <2>2. \/ conn' = conn
          \/ \E s \in Sockets, x \in {"open", "eof"} :
                conn[s] # "closed" /\ conn' = [conn EXCEPT ![s] = x]
      BY DEF Environment, Accept, Hangup, PeerSends, TLSError, Tasks, TaskEnds,
             StoppedTaskEnds, TimerExpires, Tick, netVars
    <2> QED BY <2>1, <2>2
  <1>4. UNCHANGED queue \/ \E e : Enqueue(e)
    BY DEF Environment, Accept, Hangup, PeerSends, TLSError, Tasks, TaskEnds, StoppedTaskEnds,
           TimerExpires, Tick, loopVars, Enqueue
  <1>5. \A i \in 1..Len(queue) : Passed(i)
    BY <1>1, <1>4, EventsStayEnqueued DEF Passed, Stays
  <1> QED BY <1>2, <1>3, <1>5, CalmStall DEF Calm

\* A connection that is closed drives no response any more, and needs none.
LEMMA EndStall ==
    ASSUME PipelineInvariant, StallInvariant, OnClose \/ OnDisconnect \/ OnEOF
    PROVE  StallInvariant'
  <1>1. TypeOK
    BY InvariantParts
  <1>2. PICK s \in Sockets : OnClose!(s) \/ OnDisconnect!(s) \/ OnEOF!(s)
    BY DEF OnClose, OnDisconnect, OnEOF
  <1>3. PICK n \in {"close", "disconnect", "eof"} : TakeSocket(n, s) /\ FiresAside
                                                  /\ (n = "close" => s \notin known')
    BY <1>2 DEF FiresAside, SocketEventNames, RemoveState
  <1>4. Calm
    <2>1. RemoveState(s) \/ UNCHANGED stateVars
      BY <1>2
    <2>2. /\ known' \subseteq known
          /\ responses' \subseteq responses /\ response_started' \subseteq response_started
          /\ \A t \in Sockets : requests'[t] \in {requests[t], <<>>}
      BY <1>1, <2>1 DEF RemoveState, stateVars, pipeVars, TypeOK
    <2>3. \A t \in Sockets : conn'[t] # "closed" => conn[t] # "closed"
      BY <1>1, <1>2 DEF TypeOK, netVars
    <2>4. UNCHANGED born
      BY <1>2 DEF clientVars
    <2> QED BY <2>2, <2>3, <2>4 DEF Calm
  <1>5. Take(n)
    BY <1>3 DEF TakeSocket
  <1>6. n \notin DriverNames \/ Passed(1)
    <2>1. CASE n = "close"
      <3> SUFFICES ASSUME NEW t \in Sockets, NEW d \in Clients, Turn(t, d)',
                          Drives(queue[1], t, d)
                   PROVE  FALSE
        BY DEF Passed
      <3>1. t = s
        BY <1>1, <1>3, <1>5, <2>1, HeadDrives DEF TakeSocket, StreamNames
      <3> QED BY <1>3, <2>1, <3>1 DEF Turn
    <2>2. CASE n # "close"
      BY <2>2 DEF DriverNames, StreamNames
    <2> QED BY <2>1, <2>2
  <1> QED BY <1>1, <1>3, <1>4, <1>5, <1>6, AsideSequence, DispatchPasses, CalmStall

\* What is under way is the response of a client whose turn it is.
LEMMA StreamTurn ==
    ASSUME PipelineInvariant, NEW n \in StreamNames, NEW c \in Clients, TakeClient(n, c),
           NEW t \in Sockets, NEW d \in Clients, Turn(t, d), Drives(queue[1], t, d)
    PROVE  d = c /\ t = socket[c] /\ ~Unanswerable(c) /\ IsHead(t, c)
  <1>1. TypeOK /\ ClientsOwned /\ Take(n)
    BY InvariantParts DEF TakeClient
  <1>2. d = c
    BY <1>1, HeadDrives DEF TakeClient, TakeSocket, StreamNames
  <1> QED BY <1>1, <1>2, TurnOwner DEF Turn

\* A body goes on, ends, or fails, which closes the connection.
LEMMA BodyStall ==
    ASSUME PipelineInvariant, StallInvariant, OnResponseBody
    PROVE  StallInvariant'
  <1>1. PICK c \in Clients : OnResponseBody!(c)
    BY DEF OnResponseBody
  <1>2. TypeOK /\ "response.body" \in StreamNames /\ Take("response.body")
    BY <1>1, InvariantParts DEF StreamNames, TakeClient
  <1>3. Calm
    BY <1>1 DEF Calm, netVars, stateVars, pipeVars
  <1>4. PICK m \in {"response.body", "response.complete", "exception:response.body"} :
             Fire(<<ClientEvent(m, c)>>)
    BY <1>1
  <1>5. m \in ClientEventNames /\ m \in StreamNames \cup {"exception:response.body"}
    BY DEF ClientEventNames, StreamNames
  <1>6. PICK es : es = <<ClientEvent(m, c)>>
    OBVIOUS
  <1>7. es \in Seq(Events) /\ Fire(es) /\ 1 \in 1..Len(es) /\ es[1] = ClientEvent(m, c)
    BY <1>4, <1>5, <1>6, ClientEventType
  <1>8. Passed(1)
    <2> SUFFICES ASSUME NEW t \in Sockets, NEW d \in Clients, Turn(t, d),
                        Drives(queue[1], t, d)
                 PROVE  Driven(t, d)'
      BY DEF Passed
    <2>1. d = c
      BY <1>1, <1>2, StreamTurn
    <2>2. Drives(ClientEvent(m, c), t, d)
      BY <1>5, <2>1 DEF Drives, ClientEvent
    <2> QED BY <1>2, <1>7, <2>2, EventsStay DEF Driven, Drives
  <1> QED BY <1>2, <1>3, <1>7, <1>8, DispatchPasses, CalmStall

\* A response that starts has its turn, and its body follows: unless the head
\* cannot be composed.
LEMMA StartStall ==
    ASSUME "prepare" \notin Raises,
           PipelineInvariant, OrderInvariant, StallInvariant, OnResponseStart
    PROVE  StallInvariant'
  <1>1. PICK c \in Clients : OnResponseStart!(c)
    BY DEF OnResponseStart
  <1>2. /\ TypeOK /\ ClientsOwned /\ Take("response.start")
        /\ {"response.start", "response.body"} \subseteq StreamNames
        /\ {"response.start", "response.body"} \subseteq ClientEventNames
    BY <1>1, InvariantParts DEF StreamNames, ClientEventNames, TakeClient
  <1>3. UNCHANGED <<conn, born, known, requests, responses>>
    BY <1>1 DEF netVars
  <1>4. \/ Unanswerable(c) /\ Fire(<<>>) /\ UNCHANGED response_started
        \/ /\ ~Unanswerable(c) /\ Fire(<<ClientEvent("response.body", c)>>)
           /\ response_started' = response_started \cup {c}
    BY <1>1 DEF Fault
  <1>5. \A i \in 1..Len(queue) : Passed(i)
    <2>1. CASE Unanswerable(c) /\ Fire(<<>>)
      <3>1. Passed(1)
        BY <1>1, <1>2, <2>1, StreamTurn DEF Passed
      <3>2. <<>> \in Seq(Events)
        BY EmptySeq
      <3> QED BY <1>2, <2>1, <3>1, <3>2, DispatchPasses
    <2>2. CASE Fire(<<ClientEvent("response.body", c)>>)
      <3>1. PICK es : es = <<ClientEvent("response.body", c)>>
        OBVIOUS
      <3>2. /\ es \in Seq(Events) /\ Fire(es)
            /\ 1 \in 1..Len(es) /\ es[1] = ClientEvent("response.body", c)
        BY <1>2, <2>2, <3>1, ClientEventType
      <3>3. Passed(1)
        <4> SUFFICES ASSUME NEW t \in Sockets, NEW d \in Clients, Turn(t, d),
                            Drives(queue[1], t, d)
                     PROVE  Driven(t, d)'
          BY DEF Passed
        <4>1. d = c
          BY <1>1, <1>2, StreamTurn
        <4>2. Drives(ClientEvent("response.body", c), t, d)
          BY <1>2, <4>1 DEF Drives, ClientEvent
        <4> QED BY <1>2, <3>2, <4>2, EventsStay DEF Driven, Drives
      <3> QED BY <1>2, <3>2, <3>3, DispatchPasses
    <2> QED BY <1>4, <2>1, <2>2
  <1>6. \A s \in Sockets, d \in Clients : Turn(s, d)' => Driven(s, d)'
    BY <1>3, <1>5, StaysDriven DEF StallInvariant, Turn, IsHead
  <1>7. StartedIsFirst'
    <2> SUFFICES ASSUME NEW s \in Sockets, NEW j \in 1..Len(requests[s]), conn[s] # "closed",
                        requests[s][j] = c, ~Unanswerable(c)
                 PROVE  j = 1
      BY <1>3, <1>4 DEF StallInvariant, StartedIsFirst
    <2>1. s = socket[c]
      BY <1>2 DEF ClientsOwned
    <2>2. IsHead(s, c)
      BY <1>1, <1>2, <2>1, InvariantParts, HeadIsOnlyStream DEF MayStream
    <2>3. 1 \in 1..Len(requests[s]) /\ requests[s][1] = c
      BY <2>2, HeadIsLeast DEF OrderInvariant
    <2>4. ~(1 < j)
      BY <2>3 DEF OrderInvariant, RequestsAscend, Clients
    <2> QED BY <2>4
  <1> QED BY <1>3, <1>6, <1>7 DEF StallInvariant

\* A response that is accepted when its request is the first starts.
LEMMA ResponseStall ==
    ASSUME PipelineInvariant, StallInvariant, OnResponse
    PROVE  StallInvariant'
  <1>1. PICK c \in Clients : OnResponse!(c)
    BY DEF OnResponse
  <1>2. {"response", "response.start", "response_failure", "httperror"} \subseteq ClientEventNames
    BY DEF ClientEventNames, StreamNames
  <1>3. /\ TypeOK /\ ClientsOwned /\ c \in 1..born /\ Take("response")
        /\ "response" \notin DriverNames
    BY <1>1, <1>2, InvariantParts, HeadOwned DEF TakeClient, DriverNames, StreamNames
  <1>4. UNCHANGED <<conn, born, socket, known, requests, response_started>>
    BY <1>1 DEF netVars
  <1>5. PICK start : start = ClientEvent("response.start", c)
    OBVIOUS
  <1>6. PICK es \in Seq(Events) :
          /\ Fire(es)
          /\ \/ responses' \subseteq responses
             \/ /\ ~Unanswerable(c) /\ responses' = responses \cup {c}
                /\ c \notin responses /\ IsHead(socket[c], c) =>
                      \E k \in 1..Len(es) : es[k] = start
    <2>1. PICK none, failure, error, outcome, first :
               /\ none = <<>> /\ failure = <<ClientEvent("response_failure", c)>>
               /\ error = <<ClientEvent("httperror", c)>> /\ outcome = ResponseOutcome(c)
               /\ first = <<start>>
      OBVIOUS
    <2>2. none \in Seq(Events) /\ failure \in Seq(Events) /\ error \in Seq(Events)
      BY <1>2, <2>1, ClientEventType, EmptySeq
    <2>3. Len(failure) = 1 /\ first \in Seq(Events) /\ Len(first) = 1 /\ first[1] = start
      BY <1>2, <1>5, <2>1, ClientEventType
    <2>4. /\ outcome \in Seq(Events)
          /\ c \notin responses /\ IsHead(socket[c], c) => outcome = first
      BY <1>5, <2>1, <2>2, <2>3 DEF ResponseOutcome
    <2>5. failure \o outcome \in Seq(Events) /\ outcome \o failure \in Seq(Events)
      BY <2>2, <2>4, ConcatProperties
    <2>6. \/ responses' = responses /\ (Fire(none) \/ Fire(failure) \/ Fire(error))
          \/ /\ ~Unanswerable(c) /\ responses' = responses \cup {c}
             /\ Fire(outcome) \/ Fire(failure \o outcome) \/ Fire(outcome \o failure)
      BY <1>1, <2>1
    <2>7. c \notin responses /\ IsHead(socket[c], c) =>
             /\ \E k \in 1..Len(outcome) : outcome[k] = start
             /\ \E k \in 1..Len(failure \o outcome) : (failure \o outcome)[k] = start
             /\ \E k \in 1..Len(outcome \o failure) : (outcome \o failure)[k] = start
      <3> SUFFICES ASSUME c \notin responses, IsHead(socket[c], c)
                   PROVE  /\ \E k \in 1..Len(first) : first[k] = start
                          /\ \E k \in 1..Len(failure \o first) : (failure \o first)[k] = start
                          /\ \E k \in 1..Len(first \o failure) : (first \o failure)[k] = start
        BY <2>4
      <3>1. PICK f : f = ClientEvent("response_failure", c) /\ f \in Events /\ start \in Events
        BY <1>2, <1>5, ClientEventType
      <3>2. PICK p, q : p = <<f, start>> /\ q = <<start, f>>
        OBVIOUS
      <3>3. failure \o first = p /\ first \o failure = q
        BY <2>1, <3>1, <3>2, TwoEvents
      <3>4. Len(p) = 2 /\ p[2] = start /\ Len(q) = 2 /\ q[1] = start
        BY <3>1, <3>2
      <3> QED BY <2>3, <3>3, <3>4
    <2> QED BY <2>2, <2>4, <2>5, <2>6, <2>7
  <1>7. \A i \in 1..Len(queue) : Passed(i)
    BY <1>3, <1>6, DispatchPasses
  <1>8. ASSUME NEW s \in Sockets, NEW d \in Clients, Turn(s, d)' PROVE Driven(s, d)'
    <2>1. CASE Turn(s, d)
      BY <1>7, <1>8, <2>1, StaysDriven DEF StallInvariant
    <2>2. CASE ~Turn(s, d)
      <3>1. d = c /\ c \notin responses /\ IsHead(s, c) /\ s \in known
        BY <1>4, <1>6, <1>8, <2>2 DEF Turn, IsHead
      <3>2. s = socket[c]
        <4>1. requests[s] \in Seq(Clients) /\ requests[s] # <<>> /\ Head(requests[s]) = c
          BY <1>3, <3>1 DEF TypeOK, IsHead
        <4>2. 1 \in 1..Len(requests[s]) /\ requests[s][1] = c
          BY <4>1, HeadTailProperties, LenProperties, EmptySeq
        <4> QED BY <1>3, <4>2 DEF ClientsOwned
      <3>3. PICK k \in 1..Len(es) : es[k] = start
        BY <1>4, <1>6, <1>8, <3>1, <3>2 DEF Turn
      <3>4. Drives(start, s, d)
        BY <1>5, <3>1 DEF Drives, ClientEvent, StreamNames
      <3> QED BY <1>3, <1>6, <3>3, <3>4, EventsStay DEF Driven, Drives
    <2> QED BY <2>1, <2>2
  <1>9. StartedIsFirst' /\ responses' \subseteq 1..born'
    BY <1>3, <1>4, <1>6 DEF StallInvariant, StartedIsFirst
  <1> QED BY <1>8, <1>9 DEF StallInvariant

\* When a response is complete the next one starts, or is not there yet.
LEMMA CompleteStall ==
    ASSUME PipelineInvariant, StallInvariant, OnResponseComplete
    PROVE  StallInvariant'
  <1>1. PICK c \in Clients : OnResponseComplete!(c)
    BY DEF OnResponseComplete
  <1>2. /\ TypeOK /\ ClientsOwned /\ QueueOwned /\ Take("response.complete")
        /\ {"response.start", "response.complete"} \subseteq StreamNames
        /\ {"response.start", "response.complete"} \subseteq ClientEventNames
        /\ "close" \in SocketEventNames
    BY <1>1, InvariantParts DEF StreamNames, ClientEventNames, SocketEventNames, TakeClient
  <1>3. UNCHANGED <<conn, born, known, responses, response_started>>
    BY <1>1 DEF netVars
  <1>4. PICK s \in Sockets : s = socket[c]
    BY <1>1, <1>2, HeadOwned
  <1>5. CASE /\ Unanswerable(c) \/ ~IsHead(s, c)
             /\ Fire(<<>>) /\ UNCHANGED requests
    <2>1. Calm
      BY <1>3, <1>5 DEF Calm
    <2>2. Passed(1)
      BY <1>1, <1>2, <1>4, <1>5, StreamTurn DEF Passed
    <2>3. <<>> \in Seq(Events)
      BY EmptySeq
    <2> QED BY <1>2, <1>5, <2>1, <2>2, <2>3, DispatchPasses, CalmStall
  <1>6. CASE /\ IsHead(s, c) /\ requests' = [requests EXCEPT ![s] = Tail(@)]
             /\ Fire(AfterComplete(s, c))
    <2>1. /\ requests'[s] = Tail(requests[s])
          /\ \A t \in Sockets : t # s => requests'[t] = requests[t]
      BY <1>2, <1>6 DEF TypeOK
    <2>2. requests[s] \in Seq(Clients) /\ requests[s] # <<>>
      BY <1>2, <1>6 DEF TypeOK, IsHead
    <2>3. /\ Tail(requests[s]) \in Seq(Clients)
          /\ Len(requests[s]) \in Nat /\ Len(Tail(requests[s])) = Len(requests[s]) - 1
          /\ \A j \in 1..Len(Tail(requests[s])) : Tail(requests[s])[j] = requests[s][j+1]
      BY <2>2, HeadTailProperties, LenProperties
    <2>4. PICK next : next = Head(Tail(requests[s]))
      OBVIOUS
    <2>5. Tail(requests[s]) # <<>> => /\ next \in Clients
                                      /\ 2 \in 1..Len(requests[s]) /\ requests[s][2] = next
      <3> SUFFICES ASSUME Tail(requests[s]) # <<>>
                   PROVE  next \in Clients /\ 2 \in 1..Len(requests[s]) /\ requests[s][2] = next
        OBVIOUS
      <3>1. 1 \in 1..Len(Tail(requests[s])) /\ Tail(requests[s])[1] = next
        BY <2>3, <2>4, HeadTailProperties, LenProperties, EmptySeq
      <3> QED BY <2>2, <2>3, <3>1, ElementOfSeq
    <2>6. PICK es : es = AfterComplete(s, c)
      OBVIOUS
    <2>7. /\ es \in Seq(Events)
          /\ Tail(requests[s]) # <<>> /\ next \in responses \ response_started =>
                \E k \in 1..Len(es) : es[k] = ClientEvent("response.start", next)
      <3>1. CASE Tail(requests[s]) = <<>>
        <4>1. PICK none, close : none = <<>> /\ close = <<SocketEvent("close", s)>>
          OBVIOUS
        <4>2. none \in Seq(Events) /\ close \in Seq(Events)
          BY <1>2, <4>1, SocketEventType, EmptySeq
        <4>3. es = none \/ es = close
          BY <2>6, <3>1, <4>1 DEF AfterComplete
        <4> QED BY <3>1, <4>2, <4>3
      <3>2. CASE Tail(requests[s]) # <<>>
        <4>1. PICK none, start : none = <<>> /\ start = <<ClientEvent("response.start", next)>>
          OBVIOUS
        <4>2. /\ none \in Seq(Events) /\ start \in Seq(Events) /\ 1 \in 1..Len(start)
              /\ start[1] = ClientEvent("response.start", next)
          BY <1>2, <2>5, <3>2, <4>1, ClientEventType, EmptySeq
        <4>3. es = IF next \in responses \ response_started THEN start ELSE none
          BY <2>4, <2>6, <3>2, <4>1 DEF AfterComplete
        <4> QED BY <4>2, <4>3
      <3> QED BY <3>1, <3>2
    <2>8. Fire(es)
      BY <1>6, <2>6
    <2>9. ASSUME NEW t \in Sockets, NEW d \in Clients, Turn(t, d)' PROVE Driven(t, d)'
      <3>1. CASE t = s
        <4>1. conn[s] # "closed" /\ d = next /\ next \in responses /\ Tail(requests[s]) # <<>>
          BY <1>3, <2>1, <2>4, <2>9, <3>1 DEF Turn, IsHead
        <4>2. next \notin response_started
          BY <2>5, <4>1 DEF StallInvariant, StartedIsFirst
        <4>3. PICK k \in 1..Len(es) : es[k] = ClientEvent("response.start", next)
          BY <2>7, <4>1, <4>2
        <4>4. Drives(ClientEvent("response.start", next), t, d)
          BY <1>2, <4>1 DEF Drives, ClientEvent
        <4> QED BY <1>2, <2>7, <2>8, <4>3, <4>4, EventsStay DEF Driven, Drives
      <3>2. CASE t # s
        <4>1. Turn(t, d)
          BY <1>3, <2>1, <2>9, <3>2 DEF Turn, IsHead
        <4>2. PICK i \in 1..Len(queue) : Drives(queue[i], t, d)
          BY <4>1 DEF StallInvariant, Driven
        <4>3. i # 1
          BY <1>1, <1>2, <1>4, <3>2, <4>1, <4>2, StreamTurn
        <4>4. PICK k \in 1..Len(queue') : queue'[k] = queue[i]
          BY <1>2, <2>7, <2>8, <4>3, EventsStay DEF Stays
        <4> QED BY <4>2, <4>4 DEF Driven, Drives
      <3> QED BY <3>1, <3>2
    <2>10. StartedIsFirst'
      <3> SUFFICES ASSUME NEW t \in Sockets, NEW j \in 1..Len(requests'[t]), conn[t] # "closed",
                          requests'[t][j] \in response_started
                   PROVE  j = 1
        BY <1>3 DEF StartedIsFirst
      <3>1. CASE t # s
        BY <2>1, <3>1 DEF StallInvariant, StartedIsFirst
      <3>2. CASE t = s
        <4>1. j+1 \in 1..Len(requests[s]) /\ requests'[t][j] = requests[s][j+1]
          <5>1. PICK n \in Nat : n = Len(requests[s])
            BY <2>3
          <5>2. j \in 1..n-1
            BY <2>1, <2>3, <3>2, <5>1
          <5>3. j+1 \in 1..n
            BY <5>2
          <5>4. requests'[t][j] = requests[s][j+1]
            BY <2>1, <2>3, <3>2
          <5> QED BY <5>1, <5>3, <5>4
        <4>2. j+1 = 1
          BY <3>2, <4>1 DEF StallInvariant, StartedIsFirst
        <4> QED BY <4>2
      <3> QED BY <3>1, <3>2
    <2> QED BY <1>3, <2>9, <2>10 DEF StallInvariant
  <1> QED BY <1>1, <1>4, <1>5, <1>6

\* What is read waits behind the requests before it, and is new.
LEMMA ReadStall ==
    ASSUME PipelineInvariant, OrderInvariant, StallInvariant, OnRead
    PROVE  StallInvariant'
  <1>1. PICK s \in Sockets, n \in Nat, first \in {"routing", "httperror"} :
             ReadOutcome(s, n, first)
    BY InvariantParts, OnReadCases
  <1>2. TypeOK /\ ClientsOwned /\ Take("read") /\ "read" \notin DriverNames
    BY <1>1, InvariantParts DEF ReadOutcome, DriverNames, StreamNames
  <1>3. UNCHANGED <<conn, responses, response_started>> /\ known' = known \cup {s}
    BY <1>1 DEF OnRead, netVars, ReadOutcome
  <1>4. PICK new \in Seq(Clients) :
             /\ Len(new) = n /\ \A i \in 1..n : new[i] = born + i
             /\ ReadAppends(s, n, new)
    BY <1>1, <1>2, ReadRequests
  <1>5. /\ born \in Nat /\ born' = born + n
        /\ requests[s] \in Seq(Clients) /\ Len(requests[s]) \in Nat
        /\ \A t \in Sockets : t # s => requests'[t] = requests[t]
        /\ Len(requests'[s]) = Len(requests[s]) + n
        /\ \A i \in 1..Len(requests'[s]) :
             requests'[s][i] = IF i <= Len(requests[s]) THEN requests[s][i]
                               ELSE new[i - Len(requests[s])]
    BY <1>1, <1>4 DEF ReadAppends, ReadOutcome
  <1>6. \A i \in 1..Len(requests'[s]) : i > Len(requests[s]) => requests'[s][i] > born
    <2> SUFFICES ASSUME NEW i \in 1..Len(requests'[s]), i > Len(requests[s])
                 PROVE  requests'[s][i] > born
      OBVIOUS
    <2>1. PICK k : k = i - Len(requests[s])
      OBVIOUS
    <2>2. k \in 1..n /\ ~(i <= Len(requests[s]))
      BY <1>5, <2>1
    <2>3. requests'[s][i] = new[k] /\ new[k] = born + k
      BY <1>4, <1>5, <2>1, <2>2
    <2>4. born + k > born
      BY <1>5, <2>2
    <2> QED BY <2>3, <2>4
  <1>7. \A i \in 1..Len(queue) : Passed(i)
    <2>1. PICK es \in Seq(Events) : Fire(es)
      BY <1>1, <1>2, ReadFires
    <2> QED BY <1>2, <2>1, DispatchPasses
  <1>8. ASSUME NEW t \in Sockets, NEW c \in Clients, Turn(t, c)' PROVE Turn(t, c)
    <2>1. CASE t # s
      BY <1>3, <1>5, <1>8, <2>1 DEF Turn, IsHead
    <2>2. CASE t = s
      <3>1. requests'[s] \in Seq(Clients) /\ requests'[s] # <<>> /\ Head(requests'[s]) = c
        BY <1>2, <1>8, <2>2, OnReadTypeOK DEF TypeOK, Turn, IsHead
      <3>2. 1 \in 1..Len(requests'[s]) /\ requests'[s][1] = c
        BY <3>1, HeadTailProperties, LenProperties, EmptySeq
      <3>3. c \in 1..born
        BY <1>3, <1>8 DEF StallInvariant, Turn
      <3>4. 1 <= Len(requests[s])
        <4>1. 1 > Len(requests[s]) => c > born
          BY <1>6, <3>2
        <4>2. ~(c > born)
          BY <1>5, <3>3
        <4> QED BY <1>5, <4>1, <4>2
      <3>5. 1 \in 1..Len(requests[s]) /\ requests[s][1] = c
        BY <1>5, <3>2, <3>4
      <3>6. requests[s] # <<>> /\ Head(requests[s]) = c
        BY <1>5, <3>5, HeadTailProperties, EmptySeq
      <3>7. s \in known
        BY <1>2, <3>5 DEF ClientsOwned
      <3> QED BY <1>3, <1>8, <2>2, <3>6, <3>7 DEF Turn, IsHead
    <2> QED BY <2>1, <2>2
  <1>9. StartedIsFirst'
    <2> SUFFICES ASSUME NEW t \in Sockets, NEW j \in 1..Len(requests'[t]), conn[t] # "closed",
                        requests'[t][j] \in response_started
                 PROVE  j = 1
      BY <1>3 DEF StartedIsFirst
    <2>1. CASE t # s
      BY <1>5, <2>1 DEF StallInvariant, StartedIsFirst
    <2>2. CASE t = s
      <3>1. requests'[s][j] \in 1..born
        BY <2>2 DEF OrderInvariant, StartedIsAccepted
      <3>2. j <= Len(requests[s])
        <4>1. j > Len(requests[s]) => requests'[s][j] > born
          BY <1>6, <2>2
        <4>2. ~(requests'[s][j] > born)
          BY <1>5, <3>1
        <4>3. j \in Nat /\ Len(requests[s]) \in Nat
          BY <1>5, <2>2
        <4> QED BY <4>1, <4>2, <4>3
      <3>3. j \in 1..Len(requests[s]) /\ requests'[s][j] = requests[s][j]
        BY <1>5, <2>2, <3>2
      <3> QED BY <2>2, <3>3 DEF StallInvariant, StartedIsFirst
    <2> QED BY <2>1, <2>2
  <1>10. responses' \subseteq 1..born'
    BY <1>3, <1>5 DEF StallInvariant
  <1>11. \A t \in Sockets, c \in Clients : Turn(t, c)' => Driven(t, c)'
    BY <1>7, <1>8, StaysDriven DEF StallInvariant
  <1> QED BY <1>9, <1>10, <1>11 DEF StallInvariant

LEMMA StallInit == Init => StallInvariant
  <1> SUFFICES ASSUME Init PROVE StallInvariant
    OBVIOUS
  <1>1. known = {} /\ responses = {} /\ response_started = {}
    BY DEF Init
  <1> QED BY <1>1 DEF StallInvariant, Turn, StartedIsFirst

LEMMA StallStutter ==
    ASSUME StallInvariant, UNCHANGED vars
    PROVE  StallInvariant'
  <1>1. UNCHANGED <<queue, conn, born, known, requests, responses, response_started>>
    BY DEF vars, loopVars, netVars, clientVars, stateVars, pipeVars
  <1> QED BY <1>1, CalmStall DEF Calm, Passed, Stays

\* Where the head of a response can always be composed, a response that has its
\* turn is under way or its connection about to be closed: no wakeup between
\* _on_response and _on_response_complete is lost, whatever else raises.
THEOREM NothingStalls ==
    ASSUME "prepare" \notin Raises
    PROVE  Spec => []NoStall
  <1>1. ASSUME PipelineInvariant, OrderInvariant, StallInvariant, [Next]_vars
        PROVE  StallInvariant'
    <2>1. CASE Chatter
      BY <1>1, <2>1, ChatterStall
    <2>2. CASE Dispatch /\ ~Chatter
      BY <1>1, <2>2, ReadStall, ResponseStall, StartStall, BodyStall, CompleteStall, EndStall
         DEF Dispatch, Chatter
    <2>3. CASE Environment \/ Tasks \/ Tick
      BY <1>1, <2>3, LoopStall
    <2>4. CASE UNCHANGED vars
      BY <1>1, <2>4, StallStutter
    <2> QED BY <1>1, <2>1, <2>2, <2>3, <2>4 DEF Next
  <1>2. PipelineInvariant /\ StallInvariant => NoStall
    BY StallImplies, InvariantParts
  <1> QED BY <1>1, <1>2, StallInit, PipelineIsSound, OrderIsKept, PTL DEF Spec

-----------------------------------------------------------------------------
(* The promise of Pipeline *)

\* What Pipeline calls pending and active
Pending(s) == IF conn[s] = "closed" THEN <<>> ELSE requests[s]

Active(s) == IF /\ conn[s] # "closed" /\ requests[s] # <<>>
                /\ HeadWritten(s, Head(requests[s]))
             THEN Head(requests[s]) ELSE 0

\* Of connection s Pipeline sees no change.
Untouched(s) ==
    /\ conn'[s] = "closed" <=> conn[s] = "closed"
    /\ Pending(s)' = Pending(s) /\ Active(s)' = Active(s) /\ written'[s] = written[s]

LEMMA PromiseStutters ==
    ASSUME TypeOK, TypeOK', UNCHANGED born, \A s \in Sockets : Untouched(s)
    PROVE  [Promise!Next]_Promise!vars
  <1>1. written' = written
    BY DEF TypeOK, Untouched
  <1>2. UNCHANGED Promise!vars
    BY <1>1 DEF Promise!vars, Untouched, Pending, Active
  <1> QED BY <1>2

\* A connection that stays as it was, with its requests and what it was sent
LEMMA UntouchedAlike ==
    ASSUME NEW s \in Sockets, conn'[s] = "closed" <=> conn[s] = "closed",
           conn'[s] # "closed" => requests'[s] = requests[s], written'[s] = written[s]
    PROVE  Untouched(s)
  <1>1. Pending(s)' = Pending(s)
    BY DEF Pending
  <1>2. Active(s)' = Active(s)
    BY DEF Active, HeadWritten
  <1> QED BY <1>1, <1>2 DEF Untouched

LEMMA PromiseInit == Init => Promise!Init
  <1> SUFFICES ASSUME Init PROVE Promise!Init
    OBVIOUS
  <1>1. \A s \in Sockets : Pending(s) = <<>> /\ Active(s) = 0 /\ conn[s] # "closed"
    BY DEF Init, Pending, Active
  <1>2. {s \in Sockets : conn[s] = "closed"} = {}
    BY <1>1
  <1>3. born = 0 /\ written = [s \in Sockets |-> <<>>]
    BY DEF Init
  <1> QED BY <1>1, <1>2, <1>3 DEF Promise!Init, Promise!None, Pending, Active

LEMMA PromiseEnds ==
    ASSUME TypeOK, TypeOK', UNCHANGED born, NEW s \in Sockets, Lose(s),
           conn[s] # "closed", conn'[s] = "closed",
           \A t \in Sockets : t # s => Untouched(t)
    PROVE  Promise!Next
  <1>1. Pending(s)' = <<>> /\ Active(s)' = 0
    BY DEF Pending, Active
  <1>2. {t \in Sockets : conn'[t] = "closed"} = {t \in Sockets : conn[t] = "closed"} \cup {s}
    BY DEF Untouched
  <1>3. [t \in Sockets |-> Pending(t)'] = [[t \in Sockets |-> Pending(t)] EXCEPT ![s] = <<>>]
    BY <1>1 DEF Untouched
  <1>4. [t \in Sockets |-> Active(t)'] = [[t \in Sockets |-> Active(t)] EXCEPT ![s] = 0]
    BY <1>1 DEF Untouched
  <1>5. s \notin {t \in Sockets : conn[t] = "closed"}
    OBVIOUS
  <1>6. Promise!End(s)
    BY <1>2, <1>3, <1>4, <1>5 DEF Lose, Promise!End, Promise!None, Pending, Active
  <1> QED BY <1>6 DEF Promise!Next

LEMMA PromiseBegins ==
    ASSUME TypeOK, UNCHANGED <<born, conn>>, NEW s \in Sockets, NEW c \in Clients,
           conn[s] # "closed", IsHead(s, c), Active(s) = 0,
           Pending(s)' = Pending(s), Active(s)' = c, Write(s, c, "head"),
           \A t \in Sockets : t # s => Untouched(t)
    PROVE  Promise!Next
  <1>1. Pending(s) # <<>> /\ Head(Pending(s)) = c
    BY DEF Pending, IsHead
  <1>2. [t \in Sockets |-> Pending(t)'] = [t \in Sockets |-> Pending(t)]
    BY DEF Untouched
  <1>3. [t \in Sockets |-> Active(t)'] = [[t \in Sockets |-> Active(t)] EXCEPT ![s] = c]
    BY DEF Untouched
  <1>4. written' = [written EXCEPT ![s] = Append(@, [client |-> c, part |-> "head"])]
    BY DEF Write
  <1>5. Promise!Begin(s)
    BY <1>1, <1>2, <1>3, <1>4 DEF Promise!Begin, Promise!Send, Promise!None, Pending, Active
  <1> QED BY <1>5 DEF Promise!Next

\* A chunk, an alert or the error of last resort is sent, and nothing else happens.
LEMMA PromiseSends ==
    ASSUME TypeOK, UNCHANGED <<born, conn>>, NEW s \in Sockets, NEW c \in Clients \cup {0},
           NEW p, conn[s] # "closed", Write(s, c, p),
           \A t \in Sockets : Pending(t)' = Pending(t) /\ Active(t)' = Active(t),
           \/ p = "body" /\ Active(s) = c /\ c # 0
           \/ p = "alert" /\ c = 0
           \/ /\ p = "error" /\ Active(s) # c /\ c \in Clients
              /\ \E i \in 1..Len(requests[s]) : requests[s][i] = c
    PROVE  Promise!Next
  <1>2. [t \in Sockets |-> Pending(t)'] = [t \in Sockets |-> Pending(t)]
    OBVIOUS
  <1>3. [t \in Sockets |-> Active(t)'] = [t \in Sockets |-> Active(t)]
    OBVIOUS
  <1>4. written' = [written EXCEPT ![s] = Append(@, [client |-> c, part |-> p])]
    BY DEF Write
  <1>5. CASE p = "body" /\ Active(s) = c /\ c # 0
    <2>1. Promise!Chunk(s)
      BY <1>2, <1>3, <1>4, <1>5 DEF Promise!Chunk, Promise!Send, Promise!None, Pending, Active
    <2> QED BY <2>1 DEF Promise!Next
  <1>6. CASE p = "alert" /\ c = 0
    <2>1. Promise!Alert(s)
      BY <1>2, <1>3, <1>4, <1>6 DEF Promise!Alert, Promise!Send, Promise!None, Pending, Active
    <2> QED BY <2>1 DEF Promise!Next
  <1>7. CASE /\ p = "error" /\ Active(s) # c /\ c \in Clients
             /\ \E i \in 1..Len(requests[s]) : requests[s][i] = c
    <2>1. \E i \in 1..Len(Pending(s)) : Pending(s)[i] = c
      BY <1>7 DEF Pending
    <2>2. Promise!Abort(s, c)
      BY <1>2, <1>3, <1>4, <1>7, <2>1 DEF Promise!Abort, Promise!Send, Pending, Active
    <2> QED BY <1>7, <2>2 DEF Promise!Next, Promise!Requests, Clients
  <1> QED BY <1>5, <1>6, <1>7

LEMMA PromiseFinishes ==
    ASSUME TypeOK, UNCHANGED <<born, conn, written>>, NEW s \in Sockets,
           conn[s] # "closed", Active(s) # 0, Active(s)' = 0,
           requests' = [requests EXCEPT ![s] = Tail(@)],
           \A t \in Sockets : t # s => Untouched(t)
    PROVE  Promise!Next
  <1>1. Pending(s)' = Tail(Pending(s))
    BY DEF Pending, TypeOK
  <1>2. [t \in Sockets |-> Pending(t)']
            = [[t \in Sockets |-> Pending(t)] EXCEPT ![s] = Tail(Pending(s))]
    BY <1>1 DEF Untouched
  <1>3. [t \in Sockets |-> Active(t)'] = [[t \in Sockets |-> Active(t)] EXCEPT ![s] = 0]
    BY DEF Untouched
  <1>4. Promise!Finish(s)
    BY <1>2, <1>3 DEF Promise!Finish, Promise!None, Pending, Active
  <1> QED BY <1>4 DEF Promise!Next

LEMMA PromiseArrives ==
    ASSUME TypeOK, UNCHANGED <<conn, written>>, NEW s \in Sockets, NEW n \in 1..MaxClients,
           conn[s] # "closed", born' = born + n, born + n <= MaxClients,
           requests' = [requests EXCEPT ![s] = @ \o [k \in 1..n |-> born + k]],
           Active(s)' = Active(s),
           \A t \in Sockets : t # s => Untouched(t)
    PROVE  Promise!Next
  <1>1. Pending(s)' = Pending(s) \o [k \in 1..n |-> born + k]
    BY DEF Pending, TypeOK
  <1>2. [t \in Sockets |-> Pending(t)']
            = [[t \in Sockets |-> Pending(t)] EXCEPT ![s] = Pending(s) \o [k \in 1..n |-> born + k]]
    BY <1>1 DEF Untouched
  <1>3. [t \in Sockets |-> Active(t)'] = [t \in Sockets |-> Active(t)]
    BY DEF Untouched
  <1>4. Promise!Arrive(s, n)
    BY <1>2, <1>3 DEF Promise!Arrive, Pending, Active
  <1> QED BY <1>4 DEF Promise!Next, Promise!Requests

\* What is written aside is no head: the same response stays under way.
LEMMA AsideActive ==
    ASSUME NEW s \in Sockets, UNCHANGED <<conn, requests>>, WrittenAside(s)
    PROVE  Pending(s)' = Pending(s) /\ Active(s)' = Active(s)
  <1>1. PICK c : c = Head(requests[s])
    OBVIOUS
  <1>2. HeadWritten(s, c)' <=> HeadWritten(s, c)
    BY HeadStays
  <1>3. Active(s)' = Active(s)
    BY <1>1, <1>2 DEF Active, HeadWritten
  <1>4. Pending(s)' = Pending(s)
    BY DEF Pending
  <1> QED BY <1>3, <1>4

LEMMA PromiseUnmoved ==
    ASSUME TypeOK, TypeOK', UNCHANGED <<born, requests, written>>,
           \A s \in Sockets : conn'[s] = "closed" <=> conn[s] = "closed"
    PROVE  [Promise!Next]_Promise!vars
  BY UntouchedAlike, PromiseStutters

\* The last resort writes an error for a request that waits and whose response
\* has not begun.
LEMMA ErrorKeepsPromise ==
    ASSUME PipelineInvariant, TypeOK', OrderInvariant, OnHTTPErrorFailure
    PROVE  [Promise!Next]_Promise!vars
  <1>1. PICK c \in Clients, n \in {"httperror_failure", "exception:httperror_success"} :
             OnHTTPErrorFailure!(c, n)
    BY DEF OnHTTPErrorFailure
  <1>2. UNCHANGED <<conn, born, requests>>
    BY <1>1 DEF netVars, stateVars, pipeVars
  <1>3. PICK s \in Sockets : s = socket[c] /\ c \in 1..born
    BY <1>1, InvariantParts, HeadOwned DEF ClientEventNames
  <1>4. CASE UNCHANGED written
    BY <1>2, <1>4, InvariantParts, PromiseUnmoved
  <1>5. CASE conn[s] # "closed" /\ c \notin responses /\ Write(s, c, "error")
    <2>1. \A t \in Sockets : Pending(t)' = Pending(t) /\ Active(t)' = Active(t)
      BY <1>2, <1>5, InvariantParts, WriteAside, AsideActive
    <2>2. \E i \in 1..Len(requests[s]) : requests[s][i] = c
      BY <1>3, <1>5 DEF OrderInvariant, LeftIsDone
    <2>3. ~HeadWritten(s, c)
      <3> DEFINE head == [client |-> c, part |-> "head"]
      <3>1. head.client = c /\ head.part = "head"
        OBVIOUS
      <3> HIDE DEF head
      <3>2. ASSUME NEW i \in 1..Len(written[s]), written[s][i] = head
            PROVE  FALSE
        <4>1. c \in response_started
          BY <1>5, <3>1, <3>2 DEF OrderInvariant, WrittenSoFar, OfResponse
        <4> QED BY <1>3, <1>5, <4>1 DEF OrderInvariant, StartedIsAccepted
      <3> QED BY <3>2 DEF HeadWritten, head
    <2>4. Active(s) # c
      <3>1. c # 0
        BY DEF Clients
      <3> QED BY <2>3, <3>1 DEF Active
    <2> QED BY <1>2, <1>5, <2>1, <2>2, <2>4, InvariantParts, PromiseSends
  <1>6. CASE conn[s] = "closed" /\ Write(s, c, "error")
    <2>1. UNCHANGED written
      BY <1>6 DEF Write
    <2> QED BY <1>4, <2>1
  <1> QED BY <1>1, <1>3, <1>4, <1>5, <1>6

LEMMA SocketErrorKeepsPromise ==
    ASSUME PipelineInvariant, TypeOK', OrderInvariant, OnSocketError
    PROVE  [Promise!Next]_Promise!vars
  <1>1. PICK s \in Sockets, e \in {"ssl error", "plaintext error"} : OnSocketError!(s, e)
    BY DEF OnSocketError
  <1>2. UNCHANGED <<conn, born, requests>>
    BY <1>1 DEF netVars, clientVars, stateVars, pipeVars
  <1>3. CASE UNCHANGED written
    BY <1>2, <1>3, InvariantParts, PromiseUnmoved
  <1>4. CASE conn[s] # "closed" /\ Write(s, 0, "alert")
    <2>1. \A t \in Sockets : Pending(t)' = Pending(t) /\ Active(t)' = Active(t)
      BY <1>2, <1>4, InvariantParts, WriteAside, AsideActive
    <2> QED BY <1>2, <1>4, <2>1, InvariantParts, PromiseSends
  <1>5. CASE conn[s] = "closed" /\ Write(s, 0, "alert")
    <2>1. UNCHANGED written
      BY <1>5 DEF Write
    <2> QED BY <1>3, <2>1
  <1> QED BY <1>1, <1>3, <1>4, <1>5

LEMMA QuietKeepsPromise ==
    ASSUME PipelineInvariant, TypeOK', OrderInvariant,
           Chatter \/ OnResponse \/ Environment \/ Tasks \/ Tick
    PROVE  [Promise!Next]_Promise!vars
  <1>1. CASE OnHTTPErrorFailure \/ OnSocketError
    BY <1>1, ErrorKeepsPromise, SocketErrorKeepsPromise
  <1>2. CASE (Chatter /\ ~OnHTTPErrorFailure /\ ~OnSocketError) \/ OnResponse \/ Tasks \/ Tick
    <2>1. UNCHANGED <<conn, born, requests, written>>
      BY <1>2 DEF Chatter, OnTimeoutCheck, OnRouting, OnRequest, OnRequestSuccess,
         OnRequestFailure, OnHTTPError, OnHTTPErrorSuccess, OnResponseFailure, OnException,
         OnResponse, Tasks, TaskEnds, StoppedTaskEnds, TimerExpires, Tick,
         netVars, clientVars, stateVars, pipeVars
    <2> QED BY <2>1, InvariantParts, PromiseUnmoved
  <1>3. CASE Environment
    <2>1. UNCHANGED <<born, requests, written>>
      BY <1>3 DEF Environment, Accept, Hangup, PeerSends, TLSError, clientVars, stateVars, pipeVars
    <2>2. \A t \in Sockets : conn'[t] = "closed" <=> conn[t] = "closed"
      <3>1. conn \in [Sockets -> {"new", "open", "eof", "closed"}]
        BY InvariantParts DEF TypeOK
      <3>2. \/ conn' = conn
            \/ \E s \in Sockets, x \in {"open", "eof"} :
                  conn[s] # "closed" /\ conn' = [conn EXCEPT ![s] = x]
        BY <1>3 DEF Environment, Accept, Hangup, PeerSends, TLSError
      <3> QED BY <3>1, <3>2
    <2> QED BY <2>1, <2>2, InvariantParts, PromiseUnmoved
  <1> QED BY <1>1, <1>2, <1>3

\* A connection ends when the server closes it or TCPServer sees its end.
LEMMA EndKeepsPromise ==
    ASSUME PipelineInvariant, TypeOK', OrderInvariant, OnClose \/ OnDisconnect \/ OnEOF
    PROVE  [Promise!Next]_Promise!vars
  <1>1. TypeOK
    BY InvariantParts
  <1>2. PICK s \in Sockets : OnClose!(s) \/ OnDisconnect!(s) \/ OnEOF!(s)
    BY DEF OnClose, OnDisconnect, OnEOF
  <1>3. UNCHANGED born /\ \A t \in Sockets : t # s => written'[t] = written[t]
    BY <1>1, <1>2, LoseOthers DEF clientVars
  <1>4. /\ conn'[s] = "closed" /\ \A t \in Sockets : t # s => conn'[t] = conn[t]
        /\ IF conn[s] = "closed" THEN UNCHANGED written ELSE Lose(s)
    <2>1. CASE OnClose!(s) \/ OnEOF!(s)
      BY <1>1, <2>1 DEF TypeOK
    <2>2. CASE OnDisconnect!(s)
      <3>1. queue # <<>> /\ Head(queue).name = "disconnect" /\ Head(queue).socket = s
        BY <2>2 DEF TakeSocket, Take
      <3>2. 1 \in 1..Len(queue) /\ Head(queue) = queue[1]
        BY <1>1, <3>1, HeadTailProperties, LenProperties, EmptySeq DEF TypeOK
      <3>3. conn[s] = "closed"
        BY <3>1, <3>2, InvariantParts DEF DisconnectsAreReal
      <3> QED BY <2>2, <3>3 DEF netVars
    <2> QED BY <1>2, <2>1, <2>2
  <1>5. \A t \in Sockets : t # s => requests'[t] = requests[t]
    <2>1. requests' = [requests EXCEPT ![s] = <<>>] \/ requests' = requests
      BY <1>2 DEF RemoveState, stateVars, pipeVars
    <2>2. requests \in [Sockets -> Seq(Clients)]
      BY <1>1 DEF TypeOK
    <2> QED BY <2>1, <2>2
  <1>6. \A t \in Sockets : t # s => Untouched(t)
    BY <1>3, <1>4, <1>5, UntouchedAlike
  <1>7. CASE conn[s] = "closed"
    <2>1. Untouched(s)
      BY <1>3, <1>4, <1>7, UntouchedAlike
    <2> QED BY <1>1, <1>3, <1>6, <2>1, PromiseStutters
  <1>8. CASE conn[s] # "closed"
    BY <1>1, <1>3, <1>4, <1>6, <1>8, PromiseEnds
  <1> QED BY <1>7, <1>8

LEMMA StartKeepsPromise ==
    ASSUME PipelineInvariant, TypeOK', OrderInvariant, OnResponseStart
    PROVE  [Promise!Next]_Promise!vars
  <1>1. PICK c \in Clients : OnResponseStart!(c)
    BY DEF OnResponseStart
  <1>2. "response.start" \in StreamNames /\ "head" \in Parts /\ c \in Clients \cup {0}
    BY DEF StreamNames, Parts
  <1>3. PICK s \in Sockets : s = socket[c] /\ OnCourse("response.start", c, s)
    BY <1>1, <1>2, DispatchedOnCourse DEF OrderInvariant
  <1>4. UNCHANGED <<conn, born, requests>> /\ MayStream(c)
    BY <1>1, <1>2, InvariantParts, HeadIsOnlyStream DEF netVars
  <1>5. UNCHANGED written \/ Write(s, c, "head")
    BY <1>1, <1>3
  <1>6. CASE UNCHANGED written \/ conn[s] = "closed"
    <2>1. UNCHANGED written
      BY <1>5, <1>6 DEF Write
    <2> QED BY <1>4, <2>1, InvariantParts, PromiseUnmoved
  <1>7. CASE conn[s] # "closed" /\ Write(s, c, "head")
    <2>1. IsHead(s, c) /\ c \notin response_started
      BY <1>3, <1>4, <1>7 DEF MayStream, OnCourse
    <2>2. ~HeadWritten(s, c)
      <3> DEFINE head == [client |-> c, part |-> "head"]
      <3>1. head.client = c /\ head.part = "head"
        OBVIOUS
      <3> HIDE DEF head
      <3>2. \A i \in 1..Len(written[s]) : written[s][i] # head
        BY <1>7, <2>1, <3>1 DEF OrderInvariant, WrittenSoFar, OfResponse
      <3> QED BY <3>2 DEF HeadWritten, head
    <2>3. Active(s) = 0
      BY <2>1, <2>2 DEF Active, IsHead
    <2>4. HeadWritten(s, c)'
      <3> SUFFICES \E i \in 1..Len(written'[s]) : written'[s][i] = [client |-> c, part |-> "head"]
        BY DEF HeadWritten
      <3>1. /\ Len(written[s]) \in Nat /\ Len(written'[s]) = Len(written[s]) + 1
            /\ written'[s][Len(written[s]) + 1] = [client |-> c, part |-> "head"]
        BY <1>2, <1>7, InvariantParts, WriteElements
      <3>2. Len(written[s]) + 1 \in 1..Len(written'[s])
        BY <3>1
      <3> QED BY <3>1, <3>2
    <2>5. Active(s)' = c /\ Pending(s)' = Pending(s)
      BY <1>4, <1>7, <2>1, <2>4 DEF Active, Pending, IsHead, HeadWritten
    <2>6. \A t \in Sockets : t # s => written'[t] = written[t]
      BY <1>2, <1>7, InvariantParts, WriteElements
    <2>7. \A t \in Sockets : t # s => Untouched(t)
      BY <1>4, <2>6, UntouchedAlike
    <2> QED BY <1>4, <1>7, <2>1, <2>3, <2>5, <2>7, InvariantParts, PromiseBegins
  <1> QED BY <1>5, <1>6, <1>7

LEMMA BodyKeepsPromise ==
    ASSUME PipelineInvariant, TypeOK', OrderInvariant, OnResponseBody
    PROVE  [Promise!Next]_Promise!vars
  <1>1. PICK c \in Clients : OnResponseBody!(c)
    BY DEF OnResponseBody
  <1>2. "response.body" \in StreamNames /\ "body" \in Parts /\ c \in Clients \cup {0} /\ c # 0
    BY DEF StreamNames, Parts, Clients
  <1>3. PICK s \in Sockets : s = socket[c] /\ OnCourse("response.body", c, s)
    BY <1>1, <1>2, DispatchedOnCourse DEF OrderInvariant
  <1>4. UNCHANGED <<conn, born, requests>> /\ MayStream(c)
    BY <1>1, <1>2, InvariantParts, HeadIsOnlyStream DEF netVars, stateVars, pipeVars
  <1>5. UNCHANGED written \/ Write(s, c, "body")
    BY <1>1, <1>3
  <1>6. CASE UNCHANGED written \/ conn[s] = "closed"
    <2>1. UNCHANGED written
      BY <1>5, <1>6 DEF Write
    <2> QED BY <1>4, <2>1, InvariantParts, PromiseUnmoved
  <1>7. CASE conn[s] # "closed" /\ Write(s, c, "body")
    <2>1. IsHead(s, c) /\ HeadWritten(s, c)
      BY <1>3, <1>4, <1>7 DEF MayStream, OnCourse
    <2>2. Active(s) = c
      BY <1>7, <2>1 DEF Active, IsHead
    <2>3. /\ \A t \in Sockets : t # s => written'[t] = written[t]
          /\ Len(written[s]) \in Nat /\ Len(written'[s]) = Len(written[s]) + 1
          /\ \A i \in 1..Len(written[s]) : written'[s][i] = written[s][i]
      BY <1>2, <1>7, InvariantParts, WriteElements
    <2>4. HeadWritten(s, c)'
      <3>1. 1..Len(written[s]) \subseteq 1..Len(written'[s])
        BY <2>3
      <3> QED BY <2>1, <2>3, <3>1 DEF HeadWritten
    <2>5. Active(s)' = Active(s) /\ Pending(s)' = Pending(s)
      BY <1>4, <1>7, <2>1, <2>2, <2>4 DEF Active, Pending, IsHead, HeadWritten
    <2>6. \A t \in Sockets : t # s => Untouched(t)
      BY <1>4, <2>3, UntouchedAlike
    <2>7. \A t \in Sockets : Pending(t)' = Pending(t) /\ Active(t)' = Active(t)
      BY <2>5, <2>6 DEF Untouched
    <2> QED BY <1>2, <1>4, <1>7, <2>2, <2>7, InvariantParts, PromiseSends
  <1> QED BY <1>5, <1>6, <1>7

\* The head of the next response has not been written yet.
LEMMA CompleteKeepsPromise ==
    ASSUME PipelineInvariant, TypeOK', OrderInvariant, OnResponseComplete
    PROVE  [Promise!Next]_Promise!vars
  <1>1. PICK c \in Clients : OnResponseComplete!(c)
    BY DEF OnResponseComplete
  <1>2. "response.complete" \in StreamNames /\ c # 0
    BY DEF StreamNames, Clients
  <1>3. PICK s \in Sockets : s = socket[c] /\ OnCourse("response.complete", c, s)
    BY <1>1, <1>2, DispatchedOnCourse DEF OrderInvariant
  <1>4. UNCHANGED <<conn, born, written>>
    BY <1>1 DEF netVars
  <1>5. CASE UNCHANGED requests
    BY <1>4, <1>5, InvariantParts, PromiseUnmoved
  <1>6. CASE IsHead(s, c) /\ requests' = [requests EXCEPT ![s] = Tail(@)]
    <2>1. /\ requests'[s] = Tail(requests[s])
          /\ \A t \in Sockets : t # s => requests'[t] = requests[t]
      BY <1>6, InvariantParts DEF TypeOK
    <2>2. \A t \in Sockets : t # s => Untouched(t)
      BY <1>4, <2>1, UntouchedAlike
    <2>3. CASE conn[s] = "closed"
      <3>1. Untouched(s)
        BY <1>4, <2>3, UntouchedAlike
      <3> QED BY <1>4, <2>2, <3>1, InvariantParts, PromiseStutters
    <2>4. CASE conn[s] # "closed"
      <3>1. Active(s) # 0
        BY <1>2, <1>3, <1>6, <2>4 DEF Active, IsHead, OnCourse
      <3>2. Active(s)' = 0
        <4>1. PICK d : d = Head(Tail(requests[s]))
          OBVIOUS
        <4>2. Tail(requests[s]) # <<>> => ~HeadWritten(s, d)
          <5> SUFFICES ASSUME Tail(requests[s]) # <<>>, NEW i \in 1..Len(written[s]),
                              written[s][i].client = d, OfResponse(s, i)
                       PROVE  FALSE
            <6> DEFINE head == [client |-> d, part |-> "head"]
            <6>1. head.client = d /\ head.part = "head"
              OBVIOUS
            <6> HIDE DEF head
            <6>2. HeadWritten(s, d) => \E i \in 1..Len(written[s]) : written[s][i] = head
              BY DEF HeadWritten, head
            <6> QED BY <6>1, <6>2 DEF OfResponse
          <5>1. /\ 1 \in 1..Len(requests[s]) /\ requests[s][1] = c
                /\ \A j \in 1..Len(requests[s]) : c <= requests[s][j]
            BY <1>6, HeadIsLeast DEF OrderInvariant
          <5>2. requests[s] \in Seq(Clients) /\ requests[s] # <<>>
            BY <1>6, InvariantParts DEF IsHead, TypeOK
          <5>3. /\ Tail(requests[s]) \in Seq(Clients)
                /\ Len(Tail(requests[s])) = Len(requests[s]) - 1
                /\ \A j \in 1..Len(Tail(requests[s])) : Tail(requests[s])[j] = requests[s][j+1]
                /\ Len(requests[s]) \in Nat
            BY <5>2, HeadTailProperties, LenProperties
          <5>4. 1 \in 1..Len(Tail(requests[s])) /\ d = Tail(requests[s])[1]
            BY <4>1, <5>3, HeadTailProperties, LenProperties, EmptySeq
          <5>5. 2 \in 1..Len(requests[s]) /\ d = requests[s][2]
            BY <5>3, <5>4
          <5>6. c < d
            BY <5>1, <5>5 DEF OrderInvariant, RequestsAscend
          <5>7. d <= c
            BY <2>4, <5>1 DEF OrderInvariant, WrittenSoFar
          <5>8. c \in Int /\ d \in Int
            <6>1. d \in Clients
              BY <5>2, <5>5, ElementOfSeq
            <6> QED BY <6>1 DEF Clients
          <5> QED BY <5>6, <5>7, <5>8
        <4> QED BY <1>4, <2>1, <4>1, <4>2 DEF Active, HeadWritten
      <3> QED BY <1>4, <1>6, <2>2, <2>4, <3>1, <3>2, InvariantParts, PromiseFinishes
    <2> QED BY <2>3, <2>4
  <1> QED BY <1>1, <1>3, <1>5, <1>6

\* What is read is alerted, or waits behind the requests before it.
LEMMA ReadKeepsPromise ==
    ASSUME PipelineInvariant, TypeOK', OrderInvariant, OnRead
    PROVE  [Promise!Next]_Promise!vars
  <1>1. PICK s \in Sockets, n \in Nat, first \in {"routing", "httperror"} :
             ReadOutcome(s, n, first)
    BY InvariantParts, OnReadCases
  <1>2. UNCHANGED conn
    BY DEF OnRead, netVars
  <1>3. PICK new \in Seq(Clients) :
             /\ Len(new) = n /\ \A i \in 1..n : new[i] = born + i
             /\ ReadAppends(s, n, new)
    BY <1>1, InvariantParts, ReadRequests
  <1>4. /\ born \in Nat /\ requests[s] \in Seq(Clients) /\ Len(requests[s]) \in Nat
        /\ requests'[s] = requests[s] \o new
        /\ Len(requests'[s]) = Len(requests[s]) + n
        /\ \A t \in Sockets : t # s => requests'[t] = requests[t]
    BY <1>3 DEF ReadAppends
  <1>5. CASE n = 0
    <2>1. requests'[s] = requests[s]
      BY <1>3, <1>4, <1>5, ConcatEmptySeq, EmptySeq
    <2>2. UNCHANGED <<requests, born>>
      <3>1. born' = born
        BY <1>1, <1>4, <1>5 DEF ReadOutcome
      <3>2. requests' = requests
        BY <1>4, <2>1, InvariantParts DEF TypeOK
      <3> QED BY <3>1, <3>2
    <2>3. CASE UNCHANGED written
      BY <1>2, <2>2, <2>3, InvariantParts, PromiseUnmoved
    <2>4. CASE Write(s, 0, "alert") /\ conn[s] = "closed"
      <3>1. UNCHANGED written
        BY <2>4 DEF Write
      <3> QED BY <2>3, <3>1
    <2>5. CASE Write(s, 0, "alert") /\ conn[s] # "closed"
      <3>1. \A t \in Sockets : Pending(t)' = Pending(t) /\ Active(t)' = Active(t)
        BY <1>2, <2>2, <2>5, InvariantParts, WriteAside, AsideActive
      <3> QED BY <1>2, <2>2, <2>5, <3>1, InvariantParts, PromiseSends
    <2> QED BY <1>1, <2>3, <2>4, <2>5 DEF ReadOutcome
  <1>6. CASE n # 0
    <2>1. /\ conn[s] # "closed" /\ UNCHANGED written /\ born' = born + n
          /\ born + n <= MaxClients
          /\ requests' = [requests EXCEPT ![s] = @ \o [k \in 1..n |-> born + k]]
      BY <1>1, <1>6 DEF ReadOutcome
    <2>2. n \in 1..MaxClients
      BY <1>4, <1>6, <2>1, ConstantsAssumption DEF ConstantsAssumption
    <2>3. \A t \in Sockets : t # s => Untouched(t)
      BY <1>2, <1>4, <2>1, UntouchedAlike
    <2>4. \A i \in 1..Len(requests'[s]) :
            requests'[s][i] = IF i <= Len(requests[s]) THEN requests[s][i]
                              ELSE new[i - Len(requests[s])]
      BY <1>3 DEF ReadAppends
    <2>5. requests'[s] # <<>> /\ Head(requests'[s]) = requests'[s][1] /\ 1 \in 1..Len(requests'[s])
      <3>1. requests'[s] \in Seq(Clients) /\ Len(requests'[s]) > 0
        BY <1>4, <1>6 DEF TypeOK
      <3> QED BY <3>1, HeadTailProperties, LenProperties, EmptySeq
    <2>6. Active(s)' = Active(s)
      <3>1. CASE requests[s] # <<>>
        <4>1. 1 \in 1..Len(requests[s]) /\ Head(requests[s]) = requests[s][1]
          BY <1>4, <3>1, HeadTailProperties, LenProperties, EmptySeq
        <4>2. Head(requests'[s]) = Head(requests[s])
          BY <2>4, <2>5, <4>1
        <4> QED BY <1>2, <2>1, <2>5, <3>1, <4>2 DEF Active, HeadWritten
      <3>2. CASE requests[s] = <<>>
        <4>1. PICK d : d = Head(requests'[s])
          OBVIOUS
        <4>2. d = born + 1
          <5>1. Len(requests[s]) = 0
            BY <1>4, <3>2, EmptySeq
          <5>2. 1 \in 1..n /\ ~(1 <= 0) /\ 1 - 0 = 1
            BY <1>6
          <5> QED BY <1>3, <2>4, <2>5, <4>1, <5>1, <5>2
        <4>3. ~HeadWritten(s, d)
          <5> DEFINE head == [client |-> d, part |-> "head"]
          <5>1. head.client = d /\ head.part = "head"
            OBVIOUS
          <5> HIDE DEF head
          <5>2. ASSUME NEW i \in 1..Len(written[s]), written[s][i] = head PROVE FALSE
            <6>1. d \in 1..born
              BY <5>1, <5>2 DEF OrderInvariant, WrittenSoFar, OfResponse
            <6> QED BY <1>4, <4>2, <6>1
          <5> QED BY <5>2 DEF HeadWritten, head
        <4>4. ~HeadWritten(s, d)'
          BY <2>1, <4>3 DEF HeadWritten
        <4>5. Active(s)' = 0
          BY <4>1, <4>4 DEF Active, HeadWritten
        <4> QED BY <3>2, <4>5 DEF Active
      <3> QED BY <3>1, <3>2
    <2> QED BY <1>2, <2>1, <2>2, <2>3, <2>6, InvariantParts, PromiseArrives
  <1> QED BY <1>5, <1>6

\* The events keep what Pipeline promises a peer: every step of the server is
\* one of its steps, or shows the peer nothing.
THEOREM PromiseIsKept == Spec => KeepsPromise
  <1>1. ASSUME PipelineInvariant, PipelineInvariant', OrderInvariant, [Next]_vars
        PROVE  [Promise!Next]_Promise!vars
    <2>0. TypeOK'
      BY <1>1 DEF PipelineInvariant
    <2>1. CASE Chatter \/ OnResponse \/ Environment \/ Tasks \/ Tick
      BY <1>1, <2>0, <2>1, QuietKeepsPromise
    <2>2. CASE Dispatch /\ ~Chatter /\ ~OnResponse
      BY <1>1, <2>0, <2>2, ReadKeepsPromise, StartKeepsPromise, BodyKeepsPromise,
         CompleteKeepsPromise, EndKeepsPromise DEF Dispatch, Chatter
    <2>3. CASE UNCHANGED vars
      <3>1. UNCHANGED <<conn, born, requests, written>>
        BY <2>3 DEF vars, netVars, clientVars, stateVars, pipeVars
      <3> QED BY <1>1, <2>0, <3>1, InvariantParts, PromiseUnmoved
    <2> QED BY <1>1, <2>1, <2>2, <2>3 DEF Next
  <1> QED BY <1>1, PromiseInit, PipelineIsSound, OrderIsKept, PTL
          DEF Spec, KeepsPromise, Promise!Spec

-----------------------------------------------------------------------------
(* No response is cut *)

\* The event e is about the client c.
Mentions(e, c) == e.name \in ClientEventNames /\ e.client = c

\* A request for which nothing has been done, and nothing is before the i-th event
Fresh(c, i) ==
    /\ c \notin responses \cup response_started
    /\ \A j \in 1..i : ~Mentions(queue[j], c)

\* A close finds the responses of its connection done, or requests that have
\* come since it was fired.
Spared(i) ==
    queue[i].name = "close" /\ conn[queue[i].socket] # "closed" =>
        \A c \in 1..born : socket[c] = queue[i].socket => done[c] \/ Fresh(c, i)

\* What closes a connection whatever is under way
Cutting == {"exception:response.body", "exception:httperror_success", "ssl error",
            "plaintext error"}

\* Nothing of that is queued, and the last resort only where it is refused.
Justified(e) ==
    /\ e.name \notin Cutting
    /\ e.name = "httperror_failure" =>
          e.client \in responses \/ conn[socket[e.client]] = "closed"

\* A connection that only gets alerts has made no request.
NoRequestYet ==
    /\ \A s \in Sockets : s \notin known => parser[s] = "http"
    /\ \A s \in Sockets, c \in 1..born : conn[s] # "closed" /\ OnlyAlerts(s) => socket[c] # s

CutQueue ==
    /\ \A i \in 1..Len(queue) : Justified(queue[i]) /\ Spared(i)
    /\ responses \subseteq 1..born

CutInvariant == CutQueue /\ NoRequestYet

\* An event that is fired closes no connection before its responses are done.
Harmless(e) ==
    /\ Justified(e)
    /\ e.name = "close" => \/ conn[e.socket] = "closed"
                           \/ \A c \in 1..born : socket[c] = e.socket => done[c]

Mild(e) == e.name \notin Cutting \cup {"httperror_failure", "close"}

LEMMA MildIsHarmless ==
    ASSUME NEW e, Mild(e)
    PROVE  Harmless(e) /\ Harmless(e)'
  BY DEF Mild, Harmless, Justified

LEMMA MildEvents ==
    /\ \A m \in ClientEventNames \ (Cutting \cup {"httperror_failure"}), c \in Clients :
          ClientEvent(m, c) \in Events /\ Mild(ClientEvent(m, c))
    /\ \A m \in {"timeout.check", "eof", "disconnect"}, s \in Sockets :
          SocketEvent(m, s) \in Events /\ Mild(SocketEvent(m, s))
  <1>1. "close" \notin ClientEventNames /\ {"timeout.check", "eof", "disconnect"} \subseteq SocketEventNames
    BY DEF ClientEventNames, StreamNames, SocketEventNames
  <1> QED BY <1>1, ClientEventType, SocketEventType DEF Mild, ClientEvent, SocketEvent, Cutting

\* Requests stay and responses go on; only what the first d events are about
\* becomes a response.
Advances(d) ==
    /\ born' \in Nat /\ born <= born'
    /\ \A c \in 1..born : socket'[c] = socket[c] /\ (done[c] => done'[c])
    /\ \A s \in Sockets : conn'[s] # "closed" => conn[s] # "closed"
    /\ \A c \in responses' \cup response_started' :
          c \in responses \cup response_started \/ (d = 1 /\ Mentions(queue[1], c))
    /\ \A c \in responses : c \in responses' \/ conn'[socket[c]] = "closed"

LEMMA CutStep ==
    ASSUME PipelineInvariant, OrderInvariant, CutQueue, NEW d \in {0, 1}, Advances(d),
           d <= Len(queue),
           \A i \in 1..Len(queue') :
             IF i+d <= Len(queue) THEN queue'[i] = queue[i+d] ELSE Harmless(queue[i])'
    PROVE  CutQueue'
  <1>1. TypeOK /\ QueueOwned /\ ClientsOwned /\ born \in Nat /\ Len(queue) \in Nat
    BY InvariantParts, ClientsBorn, LenProperties DEF TypeOK
  <1>2. responses \cup response_started \subseteq 1..born
    BY DEF CutQueue, OrderInvariant, StartedIsAccepted
  <1>3. \A i \in 1..Len(queue), c \in Clients : Mentions(queue[i], c) => c \in 1..born
    BY <1>1 DEF QueueOwned, Mentions
  <1>4. responses' \subseteq 1..born'
    <2> SUFFICES ASSUME NEW c \in responses' PROVE c \in 1..born'
      OBVIOUS
    <2>1. c \in responses \cup response_started \/ (1 \in 1..Len(queue) /\ Mentions(queue[1], c))
      BY <1>1 DEF Advances
    <2>2. c \in 1..born
      BY <1>1, <1>2, <2>1 DEF QueueOwned, Mentions
    <2> QED BY <1>1, <2>2 DEF Advances
  <1>5. ASSUME NEW i \in 1..Len(queue'), ~(i+d <= Len(queue))
        PROVE  (Justified(queue[i]) /\ Spared(i))'
    <2>1. Harmless(queue[i])'
      BY <1>5
    <2> QED BY <2>1 DEF Harmless, Spared
  <1>6. ASSUME NEW i \in 1..Len(queue'), i+d <= Len(queue)
        PROVE  (Justified(queue[i]) /\ Spared(i))'
    <2>1. queue'[i] = queue[i+d] /\ i+d \in 1..Len(queue)
      BY <1>6
    <2>2. Justified(queue[i+d]) /\ Spared(i+d)
      BY <2>1 DEF CutQueue
    <2>3. PICK e \in Events : e = queue[i+d]
      BY <1>1, <2>1 DEF TypeOK
    <2>4. Justified(queue[i])'
      <3>1. e.name = "httperror_failure" => e.client \in 1..born
        BY <1>1, <2>1, <2>3 DEF QueueOwned, ClientEventNames
      <3>2. e.name = "httperror_failure" => socket[e.client] \in Sockets /\ socket'[e.client] = socket[e.client]
        BY <1>1, <3>1 DEF ClientsOwned, Advances
      <3> QED BY <2>1, <2>2, <2>3, <3>2 DEF Justified, Advances
    <2>5. Spared(i)'
      <3> SUFFICES ASSUME e.name = "close", conn'[e.socket] # "closed",
                          NEW c \in 1..born', socket'[c] = e.socket, ~done'[c]
                   PROVE  Fresh(c, i)'
        BY <2>1, <2>3 DEF Spared
      <3>1. e.socket \in Sockets
        BY DEF Events, ClientEvents, ReadEvents, SocketEvents, ClientEventNames, StreamNames
      <3>2. CASE c \in 1..born
        <4>1. Fresh(c, i+d)
          BY <2>2, <2>3, <3>1, <3>2 DEF Spared, Advances
        <4>2. \A j \in 1..i : j+d \in 1..i+d /\ queue'[j] = queue[j+d] /\ j \in 1..Len(queue')
          BY <1>1, <1>6
        <4>3. d = 1 => ~Mentions(queue[1], c)
          BY <1>6, <4>1 DEF Fresh
        <4> QED BY <4>1, <4>2, <4>3 DEF Fresh, Advances, Mentions
      <3>3. CASE c \notin 1..born
        <4>1. \A j \in 1..i : j+d \in 1..Len(queue) /\ queue'[j] = queue[j+d] /\ j \in 1..Len(queue')
          BY <1>1, <1>6
        <4>2. \A j \in 1..Len(queue) : ~Mentions(queue[j], c)
          BY <1>1, <3>3 DEF QueueOwned, Mentions
        <4>3. c \notin responses' \cup response_started'
          <5>1. d = 1 => 1 \in 1..Len(queue)
            BY <1>1
          <5> QED BY <1>2, <3>3, <4>2, <5>1 DEF Advances
        <4> QED BY <4>1, <4>2, <4>3 DEF Fresh, Mentions
      <3> QED BY <3>2, <3>3
    <2> QED BY <2>4, <2>5
  <1> QED BY <1>4, <1>5, <1>6 DEF CutQueue

LEMMA CutDispatch ==
    ASSUME PipelineInvariant, OrderInvariant, CutQueue, Advances(1),
           NEW n, Take(n), NEW es \in Seq(Events), Fire(es),
           \A k \in 1..Len(es) : Harmless(es[k])'
    PROVE  CutQueue'
  <1>1. queue \in Seq(Events) /\ queue # <<>> /\ queue' = Tail(queue) \o es
    BY InvariantParts DEF Take, Fire, TypeOK
  <1>2. /\ Tail(queue) \in Seq(Events) /\ Len(Tail(queue)) = Len(queue) - 1
        /\ \A i \in 1..Len(Tail(queue)) : Tail(queue)[i] = queue[i+1]
    BY <1>1, HeadTailProperties
  <1>3. Len(queue) \in Nat \ {0} /\ Len(es) \in Nat
    BY <1>1, LenProperties, EmptySeq
  <1>4. /\ Len(queue') = Len(queue) - 1 + Len(es)
        /\ \A i \in 1..Len(queue') :
             queue'[i] = IF i <= Len(queue) - 1 THEN Tail(queue)[i]
                         ELSE es[i - (Len(queue) - 1)]
    BY <1>1, <1>2, ConcatProperties
  <1>5. ASSUME NEW i \in 1..Len(queue'), i+1 <= Len(queue) PROVE queue'[i] = queue[i+1]
    BY <1>2, <1>3, <1>4, <1>5
  <1>6. ASSUME NEW i \in 1..Len(queue'), ~(i+1 <= Len(queue)) PROVE Harmless(queue[i])'
    <2>1. PICK k : k = i - (Len(queue) - 1)
      OBVIOUS
    <2>2. k \in 1..Len(es) /\ queue'[i] = es[k]
      BY <1>3, <1>4, <1>6, <2>1
    <2>3. Harmless(es[k])'
      BY <2>2
    <2> QED BY <2>2, <2>3 DEF Harmless, Justified
  <1>7. 1 <= Len(queue)
    BY <1>3
  <1> QED BY <1>5, <1>6, <1>7, CutStep

LEMMA CutDispatchOne ==
    ASSUME PipelineInvariant, OrderInvariant, CutQueue, Advances(1),
           NEW n, Take(n), Fire(<<>>) \/ \E e \in Events : Fire(<<e>>) /\ Harmless(e)'
    PROVE  CutQueue'
  <1>1. CASE Fire(<<>>)
    <2>1. PICK es : es = <<>>
      OBVIOUS
    <2>2. es \in Seq(Events) /\ Fire(es) /\ 1..Len(es) = {}
      BY <1>1, <2>1
    <2> QED BY <2>2, CutDispatch
  <1>2. ASSUME NEW e \in Events, Fire(<<e>>), Harmless(e)' PROVE CutQueue'
    <2>1. PICK es : es = <<e>>
      OBVIOUS
    <2>2. es \in Seq(Events) /\ Fire(es) /\ \A k \in 1..Len(es) : es[k] = e
      BY <1>2, <2>1
    <2>3. \A k \in 1..Len(es) : Harmless(es[k])'
      BY <1>2, <2>2 DEF Harmless, Justified
    <2> QED BY <2>2, <2>3, CutDispatch
  <1> QED BY <1>1, <1>2

LEMMA CutBetween ==
    ASSUME PipelineInvariant, OrderInvariant, CutQueue, Advances(0),
           UNCHANGED queue \/ \E e \in Events : queue' = Append(queue, e) /\ Harmless(e)'
    PROVE  CutQueue'
  <1>1. queue \in Seq(Events) /\ Len(queue) \in Nat
    BY InvariantParts, LenProperties DEF TypeOK
  <1>2. CASE UNCHANGED queue
    BY <1>1, <1>2, CutStep
  <1>3. ASSUME NEW e \in Events, queue' = Append(queue, e), Harmless(e)' PROVE CutQueue'
    <2>1. /\ Len(queue') = Len(queue) + 1
          /\ \A i \in 1..Len(queue') :
               queue'[i] = IF i <= Len(queue) THEN queue[i] ELSE e
      BY <1>1, <1>3, AppendProperties
    <2>2. \A i \in 1..Len(queue') :
             IF i+0 <= Len(queue) THEN queue'[i] = queue[i+0] ELSE Harmless(queue[i])'
      BY <1>3, <2>1 DEF Harmless, Justified
    <2> QED BY <1>1, <2>2, CutStep
  <1> QED BY <1>2, <1>3

LEMMA AdvancesUnmoved ==
    ASSUME TypeOK, UNCHANGED <<born, socket, responses, response_started>>,
           \A c \in Clients : done[c] => done'[c],
           \A s \in Sockets : conn'[s] # "closed" => conn[s] # "closed", NEW d
    PROVE  Advances(d)
  BY ClientsBorn DEF Advances

LEMMA NoRequestStill ==
    ASSUME NoRequestYet, UNCHANGED <<born, socket, known, parser>>,
           \A s \in Sockets : conn'[s] # "closed" => conn[s] # "closed"
    PROVE  NoRequestYet'
  BY DEF NoRequestYet, OnlyAlerts

LEMMA HeadJustified ==
    ASSUME TypeOK, CutQueue, NEW n, Take(n)
    PROVE  /\ 1 \in 1..Len(queue) /\ queue[1] = Head(queue) /\ Head(queue).name = n
           /\ Justified(Head(queue)) /\ Spared(1)
  <1>1. 1 \in 1..Len(queue) /\ queue[1] = Head(queue)
    BY HeadTailProperties, LenProperties, EmptySeq DEF Take, TypeOK
  <1>2. Justified(queue[1]) /\ Spared(1)
    BY <1>1 DEF CutQueue
  <1> QED BY <1>1, <1>2 DEF Take

Ordinary == ClientEventNames \ (Cutting \cup {"httperror_failure"})

FiresMild == Fire(<<>>) \/ \E m \in Ordinary, c \in Clients : Fire(<<ClientEvent(m, c)>>)

LEMMA OrdinaryNames ==
    /\ {"routing", "routing_success", "domain.routing", "domain.routing_success", "request",
        "request_success", "request_failure", "response", "response_failure", "httperror",
        "httperror_success", "response.start", "response.body", "response.complete"}
            \subseteq Ordinary
    /\ {"httperror_failure", "exception:httperror_success", "exception:response.body"}
            \subseteq ClientEventNames
  BY DEF Ordinary, ClientEventNames, StreamNames, Cutting

LEMMA MildDispatch ==
    ASSUME PipelineInvariant, OrderInvariant, CutQueue, Advances(1), NEW n, Take(n), FiresMild
    PROVE  CutQueue'
  <1>1. \A m \in Ordinary, c \in Clients :
           ClientEvent(m, c) \in Events /\ Harmless(ClientEvent(m, c))'
    BY MildEvents, MildIsHarmless DEF Ordinary
  <1>2. CASE Fire(<<>>)
    BY <1>2, CutDispatchOne
  <1>3. CASE \E m \in Ordinary, c \in Clients : Fire(<<ClientEvent(m, c)>>)
    BY <1>1, <1>3, CutDispatchOne
  <1> QED BY <1>2, <1>3 DEF FiresMild

\* A close that is fired for a connection that is closed already
LEMMA CloseAgain ==
    ASSUME NEW s \in Sockets, conn'[s] = "closed"
    PROVE  SocketEvent("close", s) \in Events /\ Harmless(SocketEvent("close", s))'
  <1>1. SocketEvent("close", s) \in Events
    BY SocketEventType DEF SocketEventNames
  <1> QED BY <1>1 DEF Harmless, Justified, SocketEvent, Cutting

LEMMA ChatterCut ==
    ASSUME Raises \cap {"body", "encode", "httperror"} = {},
           PipelineInvariant, OrderInvariant, CutInvariant, Chatter
    PROVE  CutInvariant'
  <1>1. TypeOK /\ QueueOwned /\ ClientsOwned /\ CutQueue /\ NoRequestYet
    BY InvariantParts DEF CutInvariant
  <1>2. /\ UNCHANGED <<conn, born, socket, requests, responses, response_started>>
        /\ \A c \in Clients : done[c] => done'[c]
    BY ChatterIsAside
  <1>3. UNCHANGED <<known, parser>>
    BY DEF Chatter, OnTimeoutCheck, OnRouting, OnRequest, OnRequestSuccess, OnRequestFailure,
           OnHTTPError, OnHTTPErrorSuccess, OnHTTPErrorFailure, OnResponseFailure,
           OnException, OnSocketError, stateVars
  <1>4. NoRequestYet' /\ Advances(1)
    BY <1>1, <1>2, <1>3, AdvancesUnmoved, NoRequestStill
  <1>5. ASSUME NEW n, Take(n), FiresMild PROVE CutInvariant'
    BY <1>1, <1>4, <1>5, MildDispatch DEF CutInvariant
  <1>6. CASE OnTimeoutCheck
    BY <1>5, <1>6 DEF OnTimeoutCheck, TakeSocket, FiresMild
  <1>7. CASE OnRouting
    <2>1. PICK c \in Clients, n \in DOMAIN NextHop : OnRouting!(c, n)
      BY <1>7 DEF OnRouting
    <2>2. NextHop[n] \in Ordinary
      BY OrdinaryNames DEF NextHop
    <2> QED BY <1>5, <2>1, <2>2, OrdinaryNames DEF TakeClient, FiresMild
  <1>8. CASE OnRequest
    BY <1>5, <1>8, OrdinaryNames DEF OnRequest, TakeClient, FiresMild
  <1>9. CASE OnRequestSuccess \/ OnRequestFailure
    BY <1>5, <1>9, OrdinaryNames DEF OnRequestSuccess, OnRequestFailure, TakeClient, FiresMild
  <1>10. CASE OnHTTPErrorSuccess
    BY <1>5, <1>10, OrdinaryNames DEF OnHTTPErrorSuccess, TakeClient, FiresMild, Fault
  <1>11. CASE OnResponseFailure
    BY <1>5, <1>11, OrdinaryNames DEF OnResponseFailure, TakeClient, FiresMild
  <1>12. CASE OnHTTPError
    <2>1. PICK c \in Clients : OnHTTPError!(c)
      BY <1>12 DEF OnHTTPError
    <2>2. Take("httperror")
      BY <2>1 DEF TakeClient
    <2>3. CASE Fire(<<>>) \/ Fire(<<ClientEvent("httperror_success", c)>>)
      BY <1>5, <2>2, <2>3, OrdinaryNames DEF FiresMild
    <2>4. CASE c \in responses /\ Fire(<<ClientEvent("httperror_failure", c)>>)
      <3>1. ClientEvent("httperror_failure", c) \in Events
        BY OrdinaryNames, ClientEventType
      <3>2. Harmless(ClientEvent("httperror_failure", c))'
        BY <1>2, <2>4 DEF Harmless, Justified, ClientEvent, Cutting
      <3> QED BY <1>1, <1>4, <2>2, <2>4, <3>1, <3>2, CutDispatchOne DEF CutInvariant
    <2> QED BY <2>1, <2>3, <2>4 DEF Fault
  <1>13. CASE OnHTTPErrorFailure
    <2>1. PICK c \in Clients, n \in {"httperror_failure", "exception:httperror_success"} :
               OnHTTPErrorFailure!(c, n)
      BY <1>13 DEF OnHTTPErrorFailure
    <2>2. Take(n) /\ Head(queue).client = c /\ n \in ClientEventNames
      BY <2>1, OrdinaryNames DEF TakeClient
    <2>3. n = "httperror_failure" /\ (c \in responses \/ conn[socket[c]] = "closed")
      BY <1>1, <2>2, HeadJustified DEF Justified, Cutting
    <2>4. socket[c] \in Sockets
      BY <1>1, <2>1, <2>2, HeadOwned
    <2>5. CASE Fire(<<>>)
      BY <1>5, <2>2, <2>5 DEF FiresMild
    <2>6. CASE c \notin responses /\ Fire(<<SocketEvent("close", socket[c])>>)
      <3>1. PICK s \in Sockets : s = socket[c]
        BY <2>4
      <3>2. conn'[s] = "closed" /\ Fire(<<SocketEvent("close", s)>>)
        BY <1>2, <2>3, <2>6, <3>1
      <3> QED BY <1>1, <1>4, <2>2, <3>2, CloseAgain, CutDispatchOne DEF CutInvariant
    <2> QED BY <2>1, <2>5, <2>6
  <1>14. CASE OnException \/ OnSocketError
    <2>1. PICK n \in Cutting : Take(n)
      BY <1>14 DEF OnException, OnSocketError, TakeClient, TakeSocket, Cutting
    <2> QED BY <1>1, <2>1, HeadJustified DEF Justified
  <1> QED BY <1>4, <1>6, <1>7, <1>8, <1>9, <1>10, <1>11, <1>12, <1>13, <1>14 DEF Chatter

\* The poller, the coroutines and the timers: only a connection whose responses
\* are done is idle.
LEMMA LoopCut ==
    ASSUME Peer \cap {"ssl error", "plaintext error"} = {},
           PipelineInvariant, OrderInvariant, CutInvariant, Environment \/ Tasks \/ Tick
    PROVE  CutInvariant'
  <1>1. TypeOK /\ ClientsOwned /\ CutQueue /\ NoRequestYet
    BY InvariantParts DEF CutInvariant
  <1>2. UNCHANGED <<born, socket, done, known, parser, responses, response_started>>
    BY DEF Environment, Accept, Hangup, PeerSends, TLSError, Tasks, TaskEnds, StoppedTaskEnds,
           TimerExpires, Tick, clientVars, stateVars, pipeVars
  <1>3. \A s \in Sockets : conn'[s] # "closed" => conn[s] # "closed"
    <2>1. conn \in [Sockets -> {"new", "open", "eof", "closed"}]
      BY <1>1 DEF TypeOK
    <2>2. \/ conn' = conn
          \/ \E s \in Sockets, x \in {"open", "eof"} :
                conn[s] # "closed" /\ conn' = [conn EXCEPT ![s] = x]
      BY DEF Environment, Accept, Hangup, PeerSends, TLSError, Tasks, TaskEnds,
             StoppedTaskEnds, TimerExpires, Tick, netVars
    <2> QED BY <2>1, <2>2
  <1>4. NoRequestYet' /\ Advances(0)
    BY <1>1, <1>2, <1>3, AdvancesUnmoved, NoRequestStill
  <1>5. CASE UNCHANGED queue
    BY <1>1, <1>4, <1>5, CutBetween DEF CutInvariant
  <1>6. ASSUME NEW e \in Events, queue' = Append(queue, e), Harmless(e)' PROVE CutInvariant'
    BY <1>1, <1>4, <1>6, CutBetween DEF CutInvariant
  <1>7. CASE Environment
    <2>1. ASSUME NEW s \in Sockets, NEW m \in {"timeout.check", "eof"}, Enqueue(SocketEvent(m, s))
          PROVE  CutInvariant'
      BY <1>6, <2>1, MildEvents, MildIsHarmless DEF Enqueue
    <2>2. ASSUME NEW s \in Sockets, NEW n \in ReadSizes,
                 NEW d \in {"http", "malformed", "tls"}, PeerSends(s, n, d)
          PROVE  CutInvariant'
      <3>1. PICK e : e = [name |-> "read", socket |-> s, messages |-> n, data |-> d]
        OBVIOUS
      <3>2. e \in Events /\ Mild(e)
        BY <3>1 DEF Events, ReadEvents, Mild, Cutting
      <3> QED BY <1>6, <2>2, <3>1, <3>2, MildIsHarmless DEF PeerSends, Enqueue
    <2> QED BY <1>7, <2>1, <2>2 DEF Environment, Accept, Hangup, TLSError
  <1>8. CASE Tasks
    <2>1. ASSUME NEW c \in Clients, NEW m \in {"request_success", "request_failure"},
                 Enqueue(ClientEvent(m, c))
          PROVE  CutInvariant'
      <3>1. ClientEvent(m, c) \in Events /\ Harmless(ClientEvent(m, c))'
        BY OrdinaryNames, MildEvents, MildIsHarmless DEF Ordinary
      <3> QED BY <1>6, <2>1, <3>1 DEF Enqueue
    <2>2. ASSUME NEW c \in Clients, TaskEnds(c) \/ StoppedTaskEnds(c) PROVE CutInvariant'
      BY <1>5, <2>1, <2>2 DEF TaskEnds, StoppedTaskEnds, loopVars
    <2>3. ASSUME NEW s \in Sockets, TimerExpires(s) PROVE CutInvariant'
      <3>1. CASE Idle(s) /\ queue' = Append(queue, SocketEvent("close", s))
        <4>1. SocketEvent("close", s) \in Events
          BY SocketEventType DEF SocketEventNames
        <4>2. conn[s] = "closed" \/ \A c \in 1..born : socket[c] = s => done[c]
          BY <3>1 DEF OrderInvariant, LeftIsDone, Idle
        <4>3. UNCHANGED conn
          BY <2>3 DEF TimerExpires, netVars
        <4>4. Harmless(SocketEvent("close", s))'
          BY <1>2, <4>2, <4>3 DEF Harmless, Justified, SocketEvent, Cutting
        <4> QED BY <1>6, <3>1, <4>1, <4>4
      <3> QED BY <1>5, <2>3, <3>1 DEF TimerExpires
    <2> QED BY <1>8, <2>2, <2>3 DEF Tasks
  <1>9. CASE Tick
    BY <1>5, <1>9 DEF Tick
  <1> QED BY <1>7, <1>8, <1>9

\* What is being sent mentions the client it is about.
LEMMA HeadMentions ==
    ASSUME TypeOK, CutQueue, NEW n \in ClientEventNames, NEW c, TakeClient(n, c)
    PROVE  Mentions(queue[1], c) /\ Take(n)
  BY HeadJustified DEF TakeClient, Mentions

LEMMA ResponseCut ==
    ASSUME PipelineInvariant, OrderInvariant, CutInvariant, OnResponse
    PROVE  CutInvariant'
  <1>1. PICK c \in Clients : OnResponse!(c)
    BY DEF OnResponse
  <1>2. TypeOK /\ CutQueue /\ NoRequestYet
    BY InvariantParts DEF CutInvariant
  <1>3. Mentions(queue[1], c) /\ Take("response")
    BY <1>1, <1>2, HeadMentions, OrdinaryNames DEF Ordinary
  <1>4. UNCHANGED <<conn, born, socket, done, known, parser, response_started>>
    BY <1>1 DEF netVars
  <1>5. responses' = responses \/ responses' = responses \cup {c}
    BY <1>1
  <1>6. NoRequestYet' /\ Advances(1)
    BY <1>2, <1>3, <1>4, <1>5, ClientsBorn, NoRequestStill DEF Advances
  <1>7. PICK start, failure, error :
             /\ start = ClientEvent("response.start", c)
             /\ failure = ClientEvent("response_failure", c) /\ error = ClientEvent("httperror", c)
    OBVIOUS
  <1>8. {start, failure, error} \subseteq Events /\ \A e \in {start, failure, error} : Harmless(e)'
    <2>1. \A e \in {start, failure, error} : e \in Events /\ Mild(e)
      BY <1>7, OrdinaryNames, MildEvents DEF Ordinary
    <2> QED BY <2>1, MildIsHarmless
  <1>9. \/ Fire(<<>>) \/ Fire(<<start>>) \/ Fire(<<failure>>) \/ Fire(<<error>>)
        \/ Fire(<<failure>> \o <<>>) \/ Fire(<<failure>> \o <<start>>)
        \/ Fire(<<failure>> \o <<failure>>)
        \/ Fire(<<>> \o <<failure>>) \/ Fire(<<start>> \o <<failure>>)
    BY <1>1, <1>7 DEF ResponseOutcome
  <1>10. \/ Fire(<<>>) \/ Fire(<<start>>) \/ Fire(<<failure>>) \/ Fire(<<error>>)
         \/ Fire(<<failure, start>>) \/ Fire(<<failure, failure>>) \/ Fire(<<start, failure>>)
    BY <1>8, <1>9, TwoEvents
  <1>11. ASSUME NEW x \in {start, failure, error}, NEW y \in {start, failure, error}, Fire(<<x, y>>)
         PROVE  CutQueue'
    <2>1. PICK es : es = <<x, y>>
      OBVIOUS
    <2>2. es \in Seq(Events) /\ Fire(es) /\ \A k \in 1..Len(es) : es[k] \in {x, y}
      BY <1>8, <1>11, <2>1
    <2>3. \A k \in 1..Len(es) : Harmless(es[k])'
      BY <1>8, <2>2 DEF Harmless, Justified
    <2> QED BY <1>2, <1>3, <1>6, <2>2, <2>3, CutDispatch
  <1>12. ASSUME NEW x \in {start, failure, error}, Fire(<<x>>) PROVE CutQueue'
    BY <1>2, <1>3, <1>6, <1>8, <1>12, CutDispatchOne
  <1>13. CASE Fire(<<>>)
    BY <1>2, <1>3, <1>6, <1>13, CutDispatchOne DEF CutInvariant
  <1> QED BY <1>6, <1>10, <1>11, <1>12, <1>13 DEF CutInvariant

LEMMA StartCut ==
    ASSUME PipelineInvariant, OrderInvariant, CutInvariant, OnResponseStart
    PROVE  CutInvariant'
  <1>1. PICK c \in Clients : OnResponseStart!(c)
    BY DEF OnResponseStart
  <1>2. TypeOK /\ CutQueue /\ NoRequestYet
    BY InvariantParts DEF CutInvariant
  <1>3. Mentions(queue[1], c) /\ Take("response.start")
    BY <1>1, <1>2, HeadMentions, OrdinaryNames DEF Ordinary
  <1>4. UNCHANGED <<conn, born, socket, done, known, parser, responses>>
    BY <1>1 DEF netVars
  <1>5. response_started' = response_started \/ response_started' = response_started \cup {c}
    BY <1>1
  <1>6. NoRequestYet' /\ Advances(1)
    BY <1>2, <1>3, <1>4, <1>5, ClientsBorn, NoRequestStill DEF Advances
  <1>7. FiresMild
    BY <1>1, OrdinaryNames DEF FiresMild
  <1> QED BY <1>2, <1>3, <1>6, <1>7, MildDispatch DEF CutInvariant

LEMMA BodyCut ==
    ASSUME Raises \cap {"body", "encode", "httperror"} = {},
           PipelineInvariant, OrderInvariant, CutInvariant, OnResponseBody
    PROVE  CutInvariant'
  <1>1. PICK c \in Clients : OnResponseBody!(c)
    BY DEF OnResponseBody
  <1>2. TypeOK /\ CutQueue /\ NoRequestYet
    BY InvariantParts DEF CutInvariant
  <1>3. UNCHANGED <<conn, born, socket, known, parser, responses, response_started>>
    BY <1>1 DEF netVars, stateVars, pipeVars
  <1>4. \A d \in Clients : done[d] => done'[d]
    BY <1>1, <1>2 DEF TypeOK, Fault
  <1>5. NoRequestYet' /\ Advances(1)
    BY <1>2, <1>3, <1>4, AdvancesUnmoved, NoRequestStill
  <1>6. FiresMild /\ Take("response.body")
    BY <1>1, OrdinaryNames DEF FiresMild, Fault, TakeClient
  <1> QED BY <1>2, <1>5, <1>6, MildDispatch DEF CutInvariant

\* Behind the last response of a pipeline all of them are done.
LEMMA CompleteCut ==
    ASSUME PipelineInvariant, OrderInvariant, CutInvariant, OnResponseComplete
    PROVE  CutInvariant'
  <1>1. PICK c \in Clients : OnResponseComplete!(c)
    BY DEF OnResponseComplete
  <1>2. TypeOK /\ ClientsOwned /\ QueueOwned /\ CutQueue /\ NoRequestYet
    BY InvariantParts DEF CutInvariant
  <1>3. /\ TakeClient("response.complete", c) /\ Take("response.complete")
        /\ "response.complete" \in ClientEventNames
    BY <1>1, OrdinaryNames DEF TakeClient, Ordinary
  <1>4. UNCHANGED <<conn, born, socket, done, known, parser, responses, response_started>>
    BY <1>1 DEF netVars
  <1>5. NoRequestYet' /\ Advances(1)
    BY <1>2, <1>4, AdvancesUnmoved, NoRequestStill
  <1>6. PICK s \in Sockets : s = socket[c] /\ c \in 1..born
    BY <1>2, <1>3, HeadOwned
  <1>7. CASE Fire(<<>>)
    BY <1>2, <1>3, <1>5, <1>7, MildDispatch DEF FiresMild, CutInvariant
  <1>8. CASE IsHead(s, c) /\ Fire(AfterComplete(s, c)) /\ ~Fire(<<>>)
    <2>1. requests[s] \in Seq(Clients) /\ requests[s] # <<>> /\ Head(requests[s]) = c
      BY <1>2, <1>8 DEF IsHead, TypeOK
    <2>2. CASE Tail(requests[s]) = <<>> /\ Fire(<<SocketEvent("close", s)>>)
      <3>1. Len(requests[s]) = 1 /\ requests[s][1] = c
        <4>1. /\ Head(requests[s]) = requests[s][1]
              /\ Len(Tail(requests[s])) = Len(requests[s]) - 1
          BY <2>1, HeadTailProperties
        <4>2. Len(Tail(requests[s])) = 0
          BY <2>2, EmptySeq
        <4>3. Len(requests[s]) \in Nat
          BY <2>1, LenProperties
        <4> QED BY <2>1, <4>1, <4>2, <4>3
      <3>2. done[c]
        <4>1. 1 \in Streams /\ queue[1].client = c /\ queue[1].name = "response.complete"
          BY <1>2, <1>3, HeadJustified DEF Streams, StreamNames, TakeClient
        <4> QED BY <4>1 DEF OrderInvariant, StreamSoFar
      <3>3. conn[s] = "closed" \/ \A d \in 1..born : socket[d] = s => done[d]
        BY <3>1, <3>2 DEF OrderInvariant, LeftIsDone
      <3>4. SocketEvent("close", s) \in Events
        BY SocketEventType DEF SocketEventNames
      <3>5. Harmless(SocketEvent("close", s))'
        BY <1>4, <3>3 DEF Harmless, Justified, SocketEvent, Cutting
      <3> QED BY <1>2, <1>3, <1>5, <2>2, <3>4, <3>5, CutDispatchOne DEF CutInvariant
    <2>3. CASE Tail(requests[s]) # <<>>
      <3>1. PICK next : next = Head(Tail(requests[s]))
        OBVIOUS
      <3>2. next \in Clients
        BY <2>1, <2>3, <3>1, HeadTailProperties
      <3>3. Fire(<<ClientEvent("response.start", next)>>)
        BY <1>8, <2>3, <3>1 DEF AfterComplete
      <3>4. FiresMild
        BY <3>2, <3>3, OrdinaryNames DEF FiresMild
      <3> QED BY <1>2, <1>3, <1>5, <3>4, MildDispatch DEF CutInvariant
    <2> QED BY <1>8, <2>2, <2>3 DEF AfterComplete
  <1> QED BY <1>1, <1>6, <1>7, <1>8

\* The end of a connection takes away what belongs to it.
LEMMA EndCut ==
    ASSUME PipelineInvariant, OrderInvariant, CutInvariant, OnClose \/ OnDisconnect \/ OnEOF
    PROVE  CutInvariant'
  <1>1. TypeOK /\ ClientsOwned /\ DisconnectsAreReal /\ CutQueue /\ NoRequestYet
    BY InvariantParts DEF CutInvariant
  <1>2. PICK s \in Sockets : OnClose!(s) \/ OnDisconnect!(s) \/ OnEOF!(s)
    BY DEF OnClose, OnDisconnect, OnEOF
  <1>3. conn'[s] = "closed" /\ \A t \in Sockets : t # s => conn'[t] = conn[t]
    <2>1. CASE OnClose!(s) \/ OnEOF!(s)
      BY <1>1, <2>1 DEF TypeOK
    <2>2. CASE OnDisconnect!(s)
      <3>1. Take("disconnect") /\ Head(queue).socket = s
        BY <2>2 DEF TakeSocket
      <3>2. conn[s] = "closed"
        BY <1>1, <3>1, HeadJustified DEF DisconnectsAreReal
      <3> QED BY <2>2, <3>2 DEF netVars
    <2> QED BY <1>2, <2>1, <2>2
  <1>4. UNCHANGED <<born, socket, done>>
    BY <1>2 DEF clientVars
  <1>5. /\ \/ UNCHANGED <<known, parser, responses, response_started>>
           \/ /\ known' = known \ {s} /\ parser' = [parser EXCEPT ![s] = "http"]
              /\ responses' = responses \ Owned(s)
              /\ response_started' = response_started \ Owned(s)
    BY <1>2 DEF RemoveState, stateVars, pipeVars
  <1>6. Advances(1)
    BY <1>1, <1>3, <1>4, <1>5, ClientsBorn DEF Advances, Owned
  <1>7. NoRequestYet'
    <2>1. parser'[s] \in {parser[s], "http"} /\ (s \notin known' => parser'[s] = "http")
      BY <1>1, <1>5 DEF TypeOK, NoRequestYet
    <2>2. \A t \in Sockets : t # s => parser'[t] = parser[t] /\ (t \in known' <=> t \in known)
      BY <1>1, <1>5 DEF TypeOK
    <2>3. \A t \in Sockets : t \notin known' => parser'[t] = "http"
      BY <1>1, <2>1, <2>2 DEF NoRequestYet
    <2>4. \A t \in Sockets, c \in 1..born : conn'[t] # "closed" /\ OnlyAlerts(t)' => socket[c] # t
      BY <1>1, <1>3, <2>2 DEF NoRequestYet, OnlyAlerts
    <2> QED BY <1>4, <2>3, <2>4 DEF NoRequestYet
  <1>8. PICK n \in {"close", "disconnect", "eof"} : Take(n)
    BY <1>2 DEF TakeSocket
  <1>9. Fire(<<>>) \/ Fire(<<SocketEvent("disconnect", s)>>)
    BY <1>2
  <1>10. SocketEvent("disconnect", s) \in Events /\ Harmless(SocketEvent("disconnect", s))'
    BY MildEvents, MildIsHarmless
  <1> QED BY <1>1, <1>6, <1>7, <1>8, <1>9, <1>10, CutDispatchOne DEF CutInvariant

\* A TLS alert closes a connection that has made no request.
LEMMA ReadCut ==
    ASSUME PipelineInvariant, OrderInvariant, CutInvariant, OnRead
    PROVE  CutInvariant'
  <1>1. TypeOK /\ ClientsOwned /\ CutQueue /\ NoRequestYet
    BY InvariantParts DEF CutInvariant
  <1>2. PICK s \in Sockets, n \in Nat, first \in {"routing", "httperror"} :
             ReadOutcome(s, n, first)
    BY <1>1, OnReadCases
  <1>3. /\ Take("read") /\ born \in Nat /\ born' = born + n /\ known' = known \cup {s}
        /\ 1..born' \subseteq Clients
    <2>1. TypeOK'
      BY <1>1, OnReadTypeOK
    <2>2. born' <= MaxClients /\ MaxClients \in Nat /\ born \in Nat
      BY <1>1, <2>1, ClientsBorn, ConstantsAssumption DEF TypeOK, ConstantsAssumption
    <2> QED BY <1>2, <2>2 DEF ReadOutcome, Clients
  <1>4. PICK new \in Seq(Clients) : ReadAppends(s, n, new)
    BY <1>1, <1>2, ReadRequests
  <1>5. /\ \A c \in 1..born : socket'[c] = socket[c]
        /\ \A c \in 1..born' : c \in 1..born \/ (n # 0 /\ socket'[c] = s)
    <2>1. \A c \in 1..born' : c \in 1..born \/ (n # 0 /\ c \in born+1 .. born+n)
      BY <1>3
    <2> QED BY <1>4, <2>1 DEF ReadAppends
  <1>6. UNCHANGED <<conn, done, responses, response_started>>
    BY DEF OnRead, netVars
  <1>7. Advances(1)
    BY <1>3, <1>5, <1>6 DEF Advances
  <1>8. n # 0 => ~OnlyAlerts(s) \/ s \notin known
    BY <1>2 DEF ReadOutcome, OnlyAlerts
  <1>9. NoRequestYet'
    <2>1. parser' = parser \/ (n = 0 /\ OnlyAlerts(s) /\ parser' = [parser EXCEPT ![s] = "alert"])
      BY <1>2 DEF ReadOutcome
    <2>2. n # 0 => parser'[s] = "http"
      BY <1>1, <1>2 DEF ReadOutcome, NoRequestYet
    <2>3. \A t \in Sockets : t # s => parser'[t] = parser[t] /\ (t \in known' <=> t \in known)
      BY <1>1, <1>3, <2>1 DEF TypeOK
    <2>4. \A t \in Sockets : t \notin known' => parser'[t] = "http"
      BY <1>1, <1>3, <2>3 DEF NoRequestYet
    <2>5. OnlyAlerts(s)' => n = 0 /\ OnlyAlerts(s)
      BY <1>1, <1>3, <2>1, <2>2 DEF NoRequestYet, OnlyAlerts
    <2>6. ASSUME NEW t \in Sockets, NEW c \in 1..born', conn'[t] # "closed", OnlyAlerts(t)'
          PROVE  socket'[c] # t
      <3>1. CASE t = s
        BY <1>1, <1>5, <1>6, <2>5, <2>6, <3>1 DEF NoRequestYet
      <3>2. CASE t # s
        BY <1>1, <1>5, <1>6, <2>3, <2>6, <3>2 DEF NoRequestYet, OnlyAlerts
      <3> QED BY <3>1, <3>2
    <2> QED BY <2>4, <2>6 DEF NoRequestYet
  <1>10. PICK es \in Seq(Events) :
             Fire(es) /\ \A i \in 1..Len(es) :
               \/ es[i] = SocketEvent("timeout.check", s)
               \/ es[i] = SocketEvent("close", s) /\ n = 0 /\ OnlyAlerts(s)
               \/ \E c \in 1..born' : es[i] = ClientEvent(first, c)
    BY <1>1, <1>2, ReadFires
  <1>11. ASSUME NEW i \in 1..Len(es) PROVE Harmless(es[i])'
    <2>1. CASE \E c \in 1..born' : es[i] = ClientEvent(first, c)
      <3>1. first \in Ordinary
        BY OrdinaryNames
      <3>2. Mild(es[i])
        BY <1>3, <2>1, <3>1, MildEvents DEF Ordinary
      <3> QED BY <3>2, MildIsHarmless
    <2>2. CASE es[i] = SocketEvent("timeout.check", s)
      <3>1. Mild(es[i])
        BY <2>2, MildEvents
      <3> QED BY <3>1, MildIsHarmless
    <2>3. CASE es[i] = SocketEvent("close", s) /\ n = 0 /\ OnlyAlerts(s)
      <3>1. es[i].name = "close" /\ es[i].socket = s
        BY <2>3 DEF SocketEvent
      <3>2. conn'[s] = "closed" \/ \A c \in 1..born' : socket'[c] # s
        BY <1>1, <1>5, <1>6, <2>3 DEF NoRequestYet
      <3> QED BY <3>1, <3>2 DEF Harmless, Justified, Cutting
    <2> QED BY <1>10, <2>1, <2>2, <2>3
  <1> QED BY <1>1, <1>3, <1>7, <1>9, <1>10, <1>11, CutDispatch DEF CutInvariant

LEMMA CutInit == Init => CutInvariant
  <1> SUFFICES ASSUME Init PROVE CutInvariant
    OBVIOUS
  <1>1. 1..Len(queue) = {} /\ 1..born = {} /\ responses = {} /\ \A s \in Sockets : parser[s] = "http"
    BY EmptySeq DEF Init
  <1> QED BY <1>1 DEF CutInvariant, CutQueue, NoRequestYet

LEMMA CutStutter ==
    ASSUME PipelineInvariant, OrderInvariant, CutInvariant, UNCHANGED vars
    PROVE  CutInvariant'
  <1>1. UNCHANGED <<queue, conn, born, socket, done, known, parser, responses, response_started>>
    BY DEF vars, loopVars, netVars, clientVars, stateVars, pipeVars
  <1>2. Advances(0) /\ NoRequestYet'
    BY <1>1, InvariantParts, AdvancesUnmoved, NoRequestStill DEF CutInvariant
  <1> QED BY <1>1, <1>2, CutBetween DEF CutInvariant

LEMMA CutKept ==
    ASSUME Raises \cap {"body", "encode", "httperror"} = {},
           Peer \cap {"ssl error", "plaintext error"} = {},
           PipelineInvariant, OrderInvariant, CutInvariant, [Next]_vars
    PROVE  CutInvariant'
  <1>1. CASE Chatter
    BY <1>1, ChatterCut
  <1>2. CASE Dispatch /\ ~Chatter
    BY <1>2, ReadCut, ResponseCut, StartCut, BodyCut, CompleteCut, EndCut DEF Dispatch, Chatter
  <1>3. CASE Environment \/ Tasks \/ Tick
    BY <1>3, LoopCut
  <1>4. CASE UNCHANGED vars
    BY <1>4, CutStutter
  <1> QED BY <1>1, <1>2, <1>3, <1>4 DEF Next

\* Only a close that is the next event closes a connection for that reason.
LEMMA ClosesAreClean ==
    ASSUME PipelineInvariant, OrderInvariant, CutInvariant, [Next]_vars,
           NEW s \in Sockets, conn[s] # "closed", conn'[s] = "closed", Head(queue).name = "close",
           NEW c \in Owned(s), c \in response_started
    PROVE  done[c]
  <1>1. TypeOK /\ CutQueue
    BY InvariantParts DEF CutInvariant
  <1>2. OnClose
    <2>1. conn \in [Sockets -> {"new", "open", "eof", "closed"}]
      BY <1>1 DEF TypeOK
    <2>2. ~Environment
      BY <2>1 DEF Environment, Accept, Hangup, PeerSends, TLSError
    <2>3. ~Tasks /\ ~Tick /\ ~UNCHANGED vars /\ ~Chatter
      <3>1. conn' # conn
        OBVIOUS
      <3> QED BY <3>1 DEF Tasks, TaskEnds, StoppedTaskEnds, TimerExpires, Tick, netVars, vars,
             Chatter, OnTimeoutCheck, OnRouting, OnRequest, OnRequestSuccess, OnRequestFailure,
             OnHTTPError, OnHTTPErrorSuccess, OnHTTPErrorFailure, OnResponseFailure,
             OnException, OnSocketError
    <2>4. ~(OnRead \/ OnResponse \/ OnResponseStart \/ OnResponseBody \/ OnResponseComplete
            \/ OnDisconnect \/ OnEOF)
      BY DEF OnRead, OnResponse, OnResponseStart, OnResponseBody, OnResponseComplete,
             OnDisconnect, OnEOF, netVars, TakeSocket, Take
    <2> QED BY <2>2, <2>3, <2>4 DEF Next, Dispatch, Chatter
  <1>3. PICK t \in Sockets : TakeSocket("close", t) /\ conn' = [conn EXCEPT ![t] = "closed"]
    BY <1>2 DEF OnClose
  <1>4. t = s
    BY <1>1, <1>3 DEF TypeOK
  <1>5. Take("close") /\ Head(queue).socket = s
    BY <1>3, <1>4 DEF TakeSocket
  <1>6. Spared(1) /\ queue[1].name = "close" /\ queue[1].socket = s
    BY <1>1, <1>5, HeadJustified
  <1>7. c \in 1..born /\ socket[c] = s
    BY DEF OrderInvariant, StartedIsAccepted, Owned
  <1> QED BY <1>6, <1>7 DEF Spared, Fresh

\* Neither the idle timer nor `Connection: close' nor a refused error cuts a
\* response that has begun, if no body and no error handler of foreign code
\* fails and the transport reports no TLS error: whatever else raises, and
\* however reads, coroutines and timers come between a close and its dispatch.
THEOREM ServerClosesBetweenResponses ==
    ASSUME Raises \cap {"body", "encode", "httperror"} = {},
           Peer \cap {"ssl error", "plaintext error"} = {}
    PROVE  Spec => ClosesBetweenResponses
  <1> DEFINE Clean == \A s \in Sockets :
               (conn[s] # "closed" /\ conn'[s] = "closed" /\ Head(queue).name = "close") =>
                  \A c \in Owned(s) : c \in response_started => done[c]
  <1>1. PipelineInvariant /\ OrderInvariant /\ CutInvariant /\ [Next]_vars => Clean
    BY ClosesAreClean
  <1>2. PipelineInvariant /\ OrderInvariant /\ CutInvariant /\ [Next]_vars => CutInvariant'
    BY CutKept
  <1>3. Spec => [][Clean]_vars
    <2> HIDE DEF Clean
    <2> QED BY <1>1, <1>2, CutInit, PipelineIsSound, OrderIsKept, PTL DEF Spec
  <1> QED BY <1>3 DEF ClosesBetweenResponses

-----------------------------------------------------------------------------
(* Done means sent *)

Live(c) == conn[socket[c]] # "closed"

Quiet(c) == \A i \in 1..Len(queue) : ~Mentions(queue[i], c)

Streaming == StreamNames \cup {"exception:response.body"}

\* The events that an answered client, or one that is not, may still have
Fits(n, c) ==
    /\ n # "response_failure"
    /\ c \in responses => n \in Streaming
    /\ n = "exception:response.body" => c \in response_started

Sent(c) == done[c] => c \in responses /\ reply[c].left = 0 /\ HeadWritten(socket[c], c)

\* A request is in one place at a time: in one event or in the coroutine of its
\* handler, and with its response accepted only in the events that send it.
Token(c) ==
    /\ \A i, j \in 1..Len(queue) : Mentions(queue[i], c) /\ Mentions(queue[j], c) => i = j
    /\ \A i \in 1..Len(queue) : Mentions(queue[i], c) => Fits(queue[i].name, c)
    /\ task[c] = "running" => c \notin responses /\ Quiet(c)
    /\ Sent(c)

TokenInvariant ==
    /\ \A c \in 1..born : Live(c) => Token(c) /\ ~Unanswerable(c)
    /\ \A c \in Clients : done[c] => c \in 1..born
    /\ responses \subseteq 1..born

LEMMA TokenImplies ==
    ASSUME TokenInvariant
    PROVE  DoneMeansSent
  BY DEF TokenInvariant, DoneMeansSent, Live, Token, Sent

\* What a step does to nobody else
Spares(c) ==
    /\ c \in responses' <=> c \in responses
    /\ c \in response_started => c \in response_started'
    /\ done'[c] = done[c] /\ reply'[c] = reply[c] /\ socket'[c] = socket[c]
    /\ task'[c] \in {task[c], "none"}
    /\ HeadWritten(socket[c], c) => HeadWritten(socket[c], c)'

LEMMA SpareSent ==
    ASSUME NEW c, Spares(c), Sent(c)
    PROVE  Sent(c)'
  BY DEF Spares, Sent

LEMMA SparedToken ==
    ASSUME NEW c, NEW d \in {0, 1}, Token(c), Spares(c),
           \A i \in 1..Len(queue') : Mentions(queue'[i], c) =>
               i+d \in 1..Len(queue) /\ queue'[i] = queue[i+d]
    PROVE  Token(c)'
  <1>1. Sent(c)'
    BY SpareSent DEF Token
  <1>2. ASSUME NEW i \in 1..Len(queue'), NEW j \in 1..Len(queue'),
               Mentions(queue'[i], c), Mentions(queue'[j], c)
        PROVE  i = j
    <2>1. i+d = j+d
      BY <1>2 DEF Token, Mentions
    <2> QED BY <2>1
  <1>3. ASSUME NEW i \in 1..Len(queue'), Mentions(queue'[i], c) PROVE Fits(queue[i].name, c)'
    <2>1. i+d \in 1..Len(queue) /\ queue'[i] = queue[i+d] /\ Mentions(queue[i+d], c)
      BY <1>3 DEF Mentions
    <2>2. Fits(queue[i+d].name, c)
      BY <2>1 DEF Token
    <2> QED BY <2>1, <2>2 DEF Fits, Spares
  <1>4. task'[c] = "running" => c \notin responses' /\ Quiet(c)'
    <2> SUFFICES ASSUME task'[c] = "running" PROVE c \notin responses' /\ Quiet(c)'
      OBVIOUS
    <2>1. c \notin responses /\ Quiet(c)
      BY DEF Token, Spares
    <2>2. Quiet(c)'
      BY <2>1 DEF Quiet, Mentions
    <2> QED BY <2>1, <2>2 DEF Spares
  <1> QED BY <1>1, <1>2, <1>3, <1>4 DEF Token, Mentions

\* What is fired, if it does not mention c
LEMMA UnmentionedDispatch ==
    ASSUME TypeOK, NEW c, NEW n, Take(n), NEW es \in Seq(Events), Fire(es),
           \A k \in 1..Len(es) : ~Mentions(es[k], c)
    PROVE  \A i \in 1..Len(queue') : Mentions(queue'[i], c) =>
               i+1 \in 1..Len(queue) /\ queue'[i] = queue[i+1]
  <1>1. \A i \in 1..Len(queue') :
             \/ i+1 \in 1..Len(queue) /\ queue'[i] = queue[i+1]
             \/ /\ i - (Len(queue) - 1) \in 1..Len(es)
                /\ queue'[i] = es[i - (Len(queue) - 1)]
    BY FireElements DEF TypeOK
  <1> QED BY <1>1 DEF Mentions

\* What is fired, if only the head of the queue has mentioned c
LEMMA OnlyFired ==
    ASSUME TypeOK, NEW c, \A i \in 1..Len(queue) : i > 1 => ~Mentions(queue[i], c),
           NEW n, Take(n), NEW es \in Seq(Events), Fire(es), Len(es) <= 1
    PROVE  /\ \A i, j \in 1..Len(queue') : Mentions(queue'[i], c) /\ Mentions(queue'[j], c) => i = j
           /\ \A i \in 1..Len(queue') : Mentions(queue'[i], c) =>
                  \E k \in 1..Len(es) : queue'[i] = es[k]
  <1>1. Len(queue) \in Nat /\ Len(es) \in Nat
    BY LenProperties DEF TypeOK
  <1>2. ASSUME NEW i \in 1..Len(queue'), Mentions(queue'[i], c)
        PROVE  i = Len(queue) /\ \E k \in 1..Len(es) : queue'[i] = es[k]
    <2>1. \/ i+1 \in 1..Len(queue) /\ queue'[i] = queue[i+1]
          \/ /\ i - (Len(queue) - 1) \in 1..Len(es)
             /\ queue'[i] = es[i - (Len(queue) - 1)]
      BY FireElements DEF TypeOK
    <2>2. ~(i+1 \in 1..Len(queue) /\ queue'[i] = queue[i+1])
      <3>1. i+1 > 1
        OBVIOUS
      <3> QED BY <1>2, <3>1
    <2>3. PICK k : k = i - (Len(queue) - 1)
      OBVIOUS
    <2>4. k \in 1..Len(es) /\ queue'[i] = es[k]
      BY <2>1, <2>2, <2>3
    <2>5. k = 1
      BY <1>1, <2>4
    <2> QED BY <1>1, <2>3, <2>4, <2>5
  <1> QED BY <1>2

LEMMA ActorToken ==
    ASSUME TypeOK, NEW c, \A i \in 1..Len(queue) : i > 1 => ~Mentions(queue[i], c),
           NEW n, Take(n), NEW es \in Seq(Events), Fire(es), Len(es) <= 1,
           \A k \in 1..Len(es) : Mentions(es[k], c) => Fits(es[k].name, c)' /\ task'[c] # "running",
           task'[c] = "running" => c \notin responses', Sent(c)'
    PROVE  Token(c)'
  <1>1. \A i, j \in 1..Len(queue') : Mentions(queue'[i], c) /\ Mentions(queue'[j], c) => i = j
    BY OnlyFired
  <1>2. \A i \in 1..Len(queue') : Mentions(queue'[i], c) =>
            \E k \in 1..Len(es) : queue'[i] = es[k]
    BY OnlyFired
  <1>3. ASSUME NEW i \in 1..Len(queue'), Mentions(queue'[i], c)
        PROVE  Fits(queue[i].name, c)' /\ task'[c] # "running"
    <2>1. PICK k \in 1..Len(es) : queue'[i] = es[k]
      BY <1>2, <1>3
    <2>2. Mentions(es[k], c)
      BY <1>3, <2>1 DEF Mentions
    <2>3. Fits(es[k].name, c)' /\ task'[c] # "running"
      BY <2>2
    <2> QED BY <2>1, <2>3 DEF Fits
  <1> QED BY <1>1, <1>3 DEF Token, Quiet, Mentions

LEMMA QueueHead ==
    ASSUME TypeOK, NEW n, Take(n)
    PROVE  1 \in 1..Len(queue) /\ queue[1] = Head(queue) /\ Head(queue).name = n
  BY HeadTailProperties, LenProperties, EmptySeq DEF Take, TypeOK

\* The event of a client that is dispatched is its only one.
LEMMA ActorAlone ==
    ASSUME TypeOK, NEW c, Token(c), NEW n \in ClientEventNames, TakeClient(n, c)
    PROVE  /\ \A i \in 1..Len(queue) : i > 1 => ~Mentions(queue[i], c)
           /\ Fits(n, c) /\ task[c] # "running"
  <1>1. 1 \in 1..Len(queue) /\ Mentions(queue[1], c) /\ queue[1].name = n
    BY QueueHead DEF TakeClient, Mentions
  <1>2. \A i \in 1..Len(queue) : i > 1 => ~Mentions(queue[i], c)
    BY <1>1 DEF Token
  <1>3. Fits(n, c) /\ task[c] # "running"
    BY <1>1 DEF Token, Quiet
  <1> QED BY <1>2, <1>3

\* A handler fires nothing, or one event about its client or a connection.
FiresFor(c) ==
    \/ Fire(<<>>)
    \/ \E m \in ClientEventNames : /\ Fire(<<ClientEvent(m, c)>>)
                                   /\ Live(c) => Fits(m, c)' /\ task'[c] # "running"
    \/ \E m \in SocketEventNames, s \in Sockets : Fire(<<SocketEvent(m, s)>>)

\* The event e changes nothing for the others, and fits what the step leaves of c.
FiresOnly(e, c) ==
    /\ \A x \in Clients \ {c} : ~Mentions(e, x)
    /\ Live(c) /\ Mentions(e, c) => Fits(e.name, c)' /\ task'[c] # "running"

LEMMA FiresForSequence ==
    ASSUME NEW c \in Clients, FiresFor(c)
    PROVE  \E es \in Seq(Events) :
             Fire(es) /\ Len(es) <= 1 /\ \A k \in 1..Len(es) : FiresOnly(es[k], c)
  <1>1. CASE Fire(<<>>)
    <2>1. PICK es : es = <<>>
      OBVIOUS
    <2>2. es \in Seq(Events) /\ Fire(es) /\ Len(es) = 0
      BY <1>1, <2>1
    <2>3. Len(es) <= 1 /\ \A k \in 1..Len(es) : FALSE
      BY <2>2
    <2> QED BY <2>2, <2>3
  <1>2. ASSUME NEW e \in Events, Fire(<<e>>), FiresOnly(e, c)
        PROVE  \E es \in Seq(Events) :
                 Fire(es) /\ Len(es) <= 1 /\ \A k \in 1..Len(es) : FiresOnly(es[k], c)
    <2>1. PICK es : es = <<e>>
      OBVIOUS
    <2>2. es \in Seq(Events) /\ Fire(es) /\ Len(es) = 1 /\ \A k \in 1..Len(es) : es[k] = e
      BY <1>2, <2>1
    <2>3. \A k \in 1..Len(es) : FiresOnly(es[k], c)
      BY <1>2, <2>2 DEF FiresOnly, Fits, Mentions
    <2>4. Len(es) <= 1
      BY <2>2
    <2> QED BY <2>2, <2>3, <2>4
  <1>3. ASSUME NEW m \in ClientEventNames, Fire(<<ClientEvent(m, c)>>),
               Live(c) => Fits(m, c)' /\ task'[c] # "running"
        PROVE  \E e \in Events : Fire(<<e>>) /\ FiresOnly(e, c)
    <2>1. PICK e \in Events : e = ClientEvent(m, c)
      BY ClientEventType
    <2>2. e.name = m /\ e.client = c
      BY <2>1 DEF ClientEvent
    <2>3. FiresOnly(e, c)
      BY <1>3, <2>2 DEF FiresOnly, Mentions, Fits
    <2>4. Fire(<<e>>)
      BY <1>3, <2>1
    <2> QED BY <2>3, <2>4
  <1>4. ASSUME NEW m \in SocketEventNames, NEW s \in Sockets, Fire(<<SocketEvent(m, s)>>)
        PROVE  \E e \in Events : Fire(<<e>>) /\ FiresOnly(e, c)
    <2>1. PICK e \in Events : e = SocketEvent(m, s)
      BY SocketEventType
    <2>2. e.name \notin ClientEventNames
      BY <2>1 DEF SocketEvent, SocketEventNames, ClientEventNames, StreamNames
    <2>3. FiresOnly(e, c)
      BY <2>2 DEF FiresOnly, Mentions
    <2>4. Fire(<<e>>)
      BY <1>4, <2>1
    <2> QED BY <2>3, <2>4
  <1> QED BY <1>1, <1>2, <1>3, <1>4 DEF FiresFor

\* A handler that acts for one client keeps what is said of all of them.
LEMMA ActsForOne ==
    ASSUME PipelineInvariant, TypeOK', TokenInvariant,
           NEW c \in Clients, NEW n \in ClientEventNames, TakeClient(n, c), FiresFor(c),
           UNCHANGED <<conn, born, socket, known>>, \A x \in 1..born : x # c => Spares(x),
           \A x \in Clients : x # c => done'[x] = done[x], responses' \subseteq responses \cup {c},
           Live(c) => Sent(c)' /\ (task'[c] = "running" => c \notin responses')
    PROVE  TokenInvariant'
  <1>1. TypeOK /\ QueueOwned /\ ClientsOwned /\ Take(n)
    BY InvariantParts DEF TakeClient
  <1>2. c \in 1..born /\ 1..born \subseteq Clients
    BY <1>1, HeadOwned, ClientsBorn
  <1>3. PICK es \in Seq(Events) :
             Fire(es) /\ Len(es) <= 1 /\ \A k \in 1..Len(es) : FiresOnly(es[k], c)
    BY FiresForSequence
  <1>4. ASSUME NEW x \in 1..born', Live(x)' PROVE Token(x)' /\ ~Unanswerable(x)'
    <2>1. x \in 1..born /\ x \in Clients /\ Live(x) /\ Token(x) /\ ~Unanswerable(x)'
      BY <1>2, <1>4 DEF TokenInvariant, Live, Unanswerable
    <2>2. CASE x = c
      <3>1. \A i \in 1..Len(queue) : i > 1 => ~Mentions(queue[i], c)
        BY <1>1, <2>1, <2>2, ActorAlone
      <3>2. Token(c)'
        BY <1>1, <1>3, <2>1, <2>2, <3>1, ActorToken DEF FiresOnly
      <3> QED BY <2>1, <2>2, <3>2
    <2>3. CASE x # c
      <3>1. \A i \in 1..Len(queue') : Mentions(queue'[i], x) =>
                 i+1 \in 1..Len(queue) /\ queue'[i] = queue[i+1]
        BY <1>1, <1>3, <2>1, <2>3, UnmentionedDispatch DEF FiresOnly
      <3>2. Token(x)'
        BY <2>1, <2>3, <3>1, SparedToken
      <3> QED BY <2>1, <3>2
    <2> QED BY <2>2, <2>3
  <1>5. \A x \in Clients : done'[x] => x \in 1..born'
    BY <1>2 DEF TokenInvariant
  <1>6. responses' \subseteq 1..born'
    BY <1>2 DEF TokenInvariant
  <1> QED BY <1>4, <1>5, <1>6 DEF TokenInvariant

\* Until its response is accepted nothing about a client is done.
LEMMA Unaccepted ==
    ASSUME PipelineInvariant, TokenInvariant, NEW c \in Clients,
           NEW n \in ClientEventNames \ Streaming, TakeClient(n, c), Live(c)
    PROVE  /\ c \notin responses /\ ~done[c] /\ ~Unanswerable(c)
           /\ n # "response_failure" /\ task[c] # "running"
  <1>1. TypeOK /\ c \in 1..born
    BY InvariantParts, HeadOwned
  <1>2. Token(c) /\ ~Unanswerable(c)
    BY <1>1 DEF TokenInvariant
  <1>3. Fits(n, c) /\ task[c] # "running"
    BY <1>1, <1>2, ActorAlone
  <1> QED BY <1>2, <1>3 DEF Fits, Token, Sent

HeadsStay == \A s \in Sockets, x \in 1..born : HeadWritten(s, x) => HeadWritten(s, x)'

LEMMA AsideHeads ==
    ASSUME \A s \in Sockets : WrittenAside(s)
    PROVE  HeadsStay
  BY HeadStays DEF HeadsStay

LEMMA WriteHeads ==
    ASSUME TypeOK, NEW s \in Sockets, NEW c \in Clients \cup {0}, NEW p \in Parts, Write(s, c, p)
    PROVE  HeadsStay
  <1> SUFFICES ASSUME NEW t \in Sockets, NEW x, HeadWritten(t, x) PROVE HeadWritten(t, x)'
    BY DEF HeadsStay
  <1>1. CASE written'[t] = written[t]
    BY <1>1 DEF HeadWritten
  <1>2. CASE t = s /\ conn[s] # "closed"
    <2>1. /\ Len(written[s]) \in Nat /\ Len(written'[s]) = Len(written[s]) + 1
          /\ \A i \in 1..Len(written[s]) : written'[s][i] = written[s][i]
      BY <1>2, WriteElements
    <2>2. PICK i \in 1..Len(written[s]) : written[s][i] = [client |-> x, part |-> "head"]
      BY <1>2 DEF HeadWritten
    <2>3. i \in 1..Len(written'[s]) /\ written'[s][i] = written[s][i]
      BY <2>1
    <2> QED BY <1>2, <2>2, <2>3 DEF HeadWritten
  <1> QED BY <1>1, <1>2, WriteElements

\* A handler that leaves the response of x as it is.
LEMMA SameSpared ==
    ASSUME ClientsOwned, NEW x \in 1..born, HeadsStay,
           x \in responses' <=> x \in responses, x \in response_started => x \in response_started',
           done'[x] = done[x], reply'[x] = reply[x], socket'[x] = socket[x],
           task'[x] \in {task[x], "none"}
    PROVE  Spares(x)
  <1>1. PICK s \in Sockets : s = socket[x]
    BY DEF ClientsOwned
  <1>2. HeadWritten(s, x) => HeadWritten(s, x)'
    BY DEF HeadsStay
  <1>3. HeadWritten(socket[x], x) => HeadWritten(socket[x], x)'
    BY <1>1, <1>2 DEF HeadWritten
  <1> QED BY <1>3 DEF Spares

\* A step that acts for no client, and fires nothing about any
LEMMA ActsForNobody ==
    ASSUME TokenInvariant, NEW d \in {0, 1}, UNCHANGED <<born, done>>, responses' \subseteq responses,
           \A c \in 1..born : Live(c)' => Live(c) /\ Spares(c) /\ ~Unanswerable(c)',
           \A i \in 1..Len(queue'), c \in 1..born : Mentions(queue'[i], c) =>
               i+d \in 1..Len(queue) /\ queue'[i] = queue[i+d]
    PROVE  TokenInvariant'
  <1>1. ASSUME NEW c \in 1..born, Live(c)' PROVE Token(c)' /\ ~Unanswerable(c)'
    <2>1. Live(c) /\ Token(c) /\ Spares(c) /\ ~Unanswerable(c)'
      BY <1>1 DEF TokenInvariant
    <2>2. Token(c)'
      BY <2>1, SparedToken
    <2> QED BY <2>1, <2>2
  <1> QED BY <1>1 DEF TokenInvariant

LEMMA NobodyMentioned ==
    ASSUME TypeOK, NEW n, Take(n),
           Fire(<<>>) \/ \E m \in SocketEventNames, s \in Sockets : Fire(<<SocketEvent(m, s)>>)
    PROVE  \A i \in 1..Len(queue'), c \in 1..born : Mentions(queue'[i], c) =>
               i+1 \in 1..Len(queue) /\ queue'[i] = queue[i+1]
  <1>1. CASE Fire(<<>>)
    <2>1. PICK es : es = <<>>
      OBVIOUS
    <2>2. es \in Seq(Events) /\ Fire(es) /\ Len(es) = 0
      BY <1>1, <2>1
    <2>3. \A c : \A k \in 1..Len(es) : ~Mentions(es[k], c)
      BY <2>2
    <2> QED BY <2>2, <2>3, UnmentionedDispatch
  <1>2. CASE \E m \in SocketEventNames, s \in Sockets : Fire(<<SocketEvent(m, s)>>)
    <2>1. PICK m \in SocketEventNames, s \in Sockets : Fire(<<SocketEvent(m, s)>>)
      BY <1>2
    <2>2. PICK e \in Events : e = SocketEvent(m, s)
      BY SocketEventType
    <2>3. e.name \notin ClientEventNames
      BY <2>2 DEF SocketEvent, SocketEventNames, ClientEventNames, StreamNames
    <2>4. PICK es : es = <<e>>
      OBVIOUS
    <2>5. es \in Seq(Events) /\ Fire(es) /\ \A k \in 1..Len(es) : es[k] = e
      BY <2>1, <2>2, <2>4
    <2>6. \A c : \A k \in 1..Len(es) : ~Mentions(es[k], c)
      BY <2>3, <2>5 DEF Mentions
    <2> QED BY <2>5, <2>6, UnmentionedDispatch
  <1> QED BY <1>1, <1>2

LEMMA ChatterTokens ==
    ASSUME "later handler" \notin Raises,
           PipelineInvariant, TypeOK', TokenInvariant, Chatter
    PROVE  TokenInvariant'
  <1>1. TypeOK /\ QueueOwned /\ ClientsOwned /\ 1..born \subseteq Clients
    BY InvariantParts, ClientsBorn
  <1>2. UNCHANGED <<conn, born, socket, responses, response_started>> /\ HeadsStay
    BY ChatterIsAside, AsideHeads
  <1>3. UNCHANGED known
    BY DEF Chatter, OnTimeoutCheck, OnRouting, OnRequest, OnRequestSuccess, OnRequestFailure,
           OnHTTPError, OnHTTPErrorSuccess, OnHTTPErrorFailure, OnResponseFailure,
           OnException, OnSocketError, stateVars
  <1>4. ASSUME NEW c \in Clients, NEW n \in ClientEventNames, TakeClient(n, c), FiresFor(c),
               \A x \in Clients : x # c => done'[x] = done[x] /\ reply'[x] = reply[x] /\ task'[x] = task[x],
               Live(c) => Sent(c)' /\ (task'[c] = "running" => c \notin responses)
        PROVE  TokenInvariant'
    <2>1. \A x \in 1..born : x # c => Spares(x)
      BY <1>1, <1>2, <1>4, SameSpared
    <2> QED BY <1>1, <1>2, <1>3, <1>4, <2>1, ActsForOne
  <1>5. ASSUME NEW c \in Clients, NEW n \in ClientEventNames \ Streaming, TakeClient(n, c), Live(c)
        PROVE  /\ c \notin responses /\ c \notin responses' /\ ~done[c] /\ ~Unanswerable(c)
               /\ n # "response_failure" /\ task[c] # "running"
    BY <1>2, <1>5, Unaccepted
  \* an event of an unanswered client that fits it
  <1>6. ASSUME NEW m \in ClientEventNames, NEW c, c \notin responses', m \notin {"response_failure", "exception:response.body"}
        PROVE  Fits(m, c)'
    BY <1>6 DEF Fits
  <1>7. {"routing", "routing_success", "domain.routing", "domain.routing_success", "request",
         "request_success", "request_failure", "response", "response_failure", "httperror",
         "httperror_success", "httperror_failure", "exception:httperror_success"}
             \subseteq ClientEventNames \ Streaming
    BY DEF ClientEventNames, Streaming, StreamNames
  <1>8. CASE OnRouting \/ OnRequestSuccess \/ OnRequestFailure \/ OnHTTPErrorSuccess
    <2>1. PICK c \in Clients, n \in ClientEventNames \ Streaming,
               m \in ClientEventNames \ {"response_failure", "exception:response.body"} :
             TakeClient(n, c) /\ (Fire(<<>>) \/ Fire(<<ClientEvent(m, c)>>))
      <3>1. CASE OnRouting
        <4>1. PICK c \in Clients, n \in DOMAIN NextHop : OnRouting!(c, n)
          BY <3>1 DEF OnRouting
        <4>2. n \in ClientEventNames \ Streaming
          BY <1>7 DEF NextHop
        <4>3. PICK m \in {NextHop[n], "httperror"} : Fire(<<>>) \/ Fire(<<ClientEvent(m, c)>>)
          BY <4>1
        <4>4. m \in ClientEventNames \ {"response_failure", "exception:response.body"}
          BY <1>7 DEF NextHop
        <4> QED BY <4>1, <4>2, <4>3, <4>4
      <3>2. CASE OnRequestSuccess
        BY <1>7, <3>2 DEF OnRequestSuccess
      <3>3. CASE OnRequestFailure
        BY <1>7, <3>3 DEF OnRequestFailure
      <3>4. CASE OnHTTPErrorSuccess
        BY <1>7, <3>4 DEF OnHTTPErrorSuccess
      <3> QED BY <1>8, <3>1, <3>2, <3>3, <3>4
    <2>2. UNCHANGED <<done, reply, task>>
      BY <1>8 DEF OnRouting, OnRequestSuccess, OnRequestFailure, OnHTTPErrorSuccess, clientVars
    <2>3. FiresFor(c)
      BY <1>5, <1>6, <2>1, <2>2 DEF FiresFor
    <2>4. Live(c) => Sent(c)' /\ task'[c] # "running"
      BY <1>5, <2>1, <2>2 DEF Sent
    <2> QED BY <1>4, <2>1, <2>2, <2>3, <2>4
  <1>9. CASE OnRequest
    <2>1. PICK c \in Clients : OnRequest!(c)
      BY <1>9 DEF OnRequest
    <2>2. "request" \in ClientEventNames \ Streaming /\ TakeClient("request", c)
      BY <1>7, <2>1
    <2>3. /\ UNCHANGED done
          /\ \A x \in Clients : x # c => reply'[x] = reply[x] /\ task'[x] = task[x]
      <3>1. UNCHANGED done
        BY <2>1
      <3>2. reply' = reply \/ \E r \in Replies : reply' = [reply EXCEPT ![c] = r]
        BY <2>1 DEF Fault
      <3>3. task' = task \/ \E t \in {"none", "stopped", "running"} : task' = [task EXCEPT ![c] = t]
        BY <2>1 DEF Fault
      <3>4. reply \in [Clients -> ReplySpace] /\ task \in [Clients -> {"none", "running", "stopped"}]
        BY <1>1 DEF TypeOK
      <3>5. \A x \in Clients : x # c => reply'[x] = reply[x]
        BY <3>2, <3>4
      <3>6. \A x \in Clients : x # c => task'[x] = task[x]
        BY <3>3, <3>4
      <3> QED BY <3>1, <3>5, <3>6
    <2>4. \/ /\ UNCHANGED task
             /\ \E m \in {"request_success", "response"} : Fire(<<ClientEvent(m, c)>>)
          \/ /\ task'[c] \in {"none", "stopped"}
             /\ \E m \in {"httperror", "request_failure"} : Fire(<<ClientEvent(m, c)>>)
          \/ Fire(<<>>)
      BY <1>1, <2>1 DEF TypeOK, Fault
    <2>5. FiresFor(c)
      BY <1>5, <1>6, <1>7, <2>2, <2>4 DEF FiresFor
    <2>6. Live(c) => Sent(c)' /\ c \notin responses
      BY <1>5, <2>2, <2>3 DEF Sent
    <2> QED BY <1>4, <2>2, <2>3, <2>5, <2>6
  <1>10. CASE OnHTTPError
    <2>1. PICK c \in Clients : OnHTTPError!(c)
      BY <1>10 DEF OnHTTPError
    <2>2. "httperror" \in ClientEventNames \ Streaming /\ TakeClient("httperror", c)
      BY <1>7, <2>1
    <2>3. /\ UNCHANGED <<done, task>>
          /\ \A x \in Clients : x # c => reply'[x] = reply[x]
      BY <1>1, <2>1 DEF TypeOK, PrematureDisconnect
    <2>4. \/ Fire(<<>>)
          \/ \E m \in {"httperror_success", "httperror_failure"} : Fire(<<ClientEvent(m, c)>>)
      BY <2>1
    <2>5. FiresFor(c)
      BY <1>5, <1>6, <1>7, <2>2, <2>3, <2>4 DEF FiresFor
    <2>6. Live(c) => Sent(c)' /\ c \notin responses
      BY <1>5, <2>2, <2>3 DEF Sent
    <2> QED BY <1>4, <2>2, <2>3, <2>5, <2>6
  <1>11. CASE OnHTTPErrorFailure
    <2>1. PICK c \in Clients, n \in {"httperror_failure", "exception:httperror_success"} :
               OnHTTPErrorFailure!(c, n)
      BY <1>11 DEF OnHTTPErrorFailure
    <2>2. n \in ClientEventNames \ Streaming /\ TakeClient(n, c)
      BY <1>7, <2>1
    <2>3. /\ UNCHANGED <<done, task>>
          /\ \A x \in Clients : x # c => reply'[x] = reply[x]
      BY <1>1, <2>1 DEF TypeOK, PrematureDisconnect
    <2>4. Fire(<<>>) \/ Fire(<<SocketEvent("close", socket[c])>>)
      BY <2>1
    <2>5. FiresFor(c)
      <3>1. socket[c] \in Sockets /\ "close" \in SocketEventNames
        BY <1>1, <2>2, HeadOwned DEF SocketEventNames
      <3> QED BY <2>4, <3>1 DEF FiresFor
    <2>6. Live(c) => Sent(c)' /\ c \notin responses
      BY <1>5, <2>2, <2>3 DEF Sent
    <2> QED BY <1>4, <2>2, <2>3, <2>5, <2>6
  <1>12. CASE OnResponseFailure
    <2>1. PICK c \in Clients : OnResponseFailure!(c)
      BY <1>12 DEF OnResponseFailure
    <2>2. /\ "response_failure" \in ClientEventNames \ Streaming /\ "httperror" \in ClientEventNames
          /\ TakeClient("response_failure", c)
      BY <1>7, <2>1
    <2>3. ~Live(c)
      BY <1>5, <2>2
    <2>4. /\ UNCHANGED task
          /\ \A x \in Clients : x # c => reply'[x] = reply[x] /\ done'[x] = done[x]
      BY <1>1, <2>1 DEF TypeOK
    <2>5. FiresFor(c)
      BY <2>1, <2>2, <2>3 DEF FiresFor
    <2> QED BY <1>4, <2>2, <2>3, <2>4, <2>5
  <1>13. CASE OnException
    <2>1. PICK c \in Clients : OnException!(c)
      BY <1>13 DEF OnException
    <2>2. /\ "exception:response.body" \in ClientEventNames /\ "close" \in SocketEventNames
          /\ TakeClient("exception:response.body", c)
      BY <2>1 DEF ClientEventNames, SocketEventNames
    <2>3. UNCHANGED <<done, task, reply>>
      BY <2>1 DEF clientVars
    <2>4. socket[c] \in Sockets /\ c \in 1..born
      BY <1>1, <2>2, HeadOwned
    <2>5. FiresFor(c)
      BY <2>1, <2>2, <2>4 DEF FiresFor
    <2>6. Live(c) => Sent(c)' /\ task'[c] # "running"
      <3>1. Live(c) => Token(c)
        BY <2>4 DEF TokenInvariant
      <3>2. Live(c) => task[c] # "running"
        BY <1>1, <2>2, <3>1, ActorAlone
      <3>3. Spares(c)
        BY <1>1, <1>2, <2>3, <2>4, SameSpared
      <3> QED BY <2>3, <3>1, <3>2, <3>3, SpareSent DEF Token
    <2> QED BY <1>4, <2>2, <2>3, <2>5, <2>6
  <1>14. CASE OnTimeoutCheck \/ OnSocketError
    <2>1. PICK n : Take(n)
      BY <1>14 DEF OnTimeoutCheck, OnSocketError, TakeSocket
    <2>2. Fire(<<>>) \/ \E m \in SocketEventNames, s \in Sockets : Fire(<<SocketEvent(m, s)>>)
      BY <1>14 DEF OnTimeoutCheck, OnSocketError, SocketEventNames
    <2>3. UNCHANGED <<done, task, reply>>
      BY <1>14 DEF OnTimeoutCheck, OnSocketError, clientVars
    <2>4. \A x \in 1..born : Spares(x)
      BY <1>1, <1>2, <2>3, SameSpared
    <2>5. \A x \in 1..born : Live(x)' => Live(x) /\ Spares(x) /\ ~Unanswerable(x)'
      BY <1>2, <1>3, <2>4 DEF Live, Unanswerable, TokenInvariant
    <2>6. responses' \subseteq responses
      BY <1>2
    <2>7. \A i \in 1..Len(queue'), c \in 1..born : Mentions(queue'[i], c) =>
               i+1 \in 1..Len(queue) /\ queue'[i] = queue[i+1]
      BY <1>1, <2>1, <2>2, NobodyMentioned
    <2> QED BY <1>2, <2>3, <2>5, <2>6, <2>7, ActsForNobody
  <1> QED BY <1>8, <1>9, <1>10, <1>11, <1>12, <1>13, <1>14 DEF Chatter


LEMMA ResponseTokens ==
    ASSUME Raises \cap {"filter", "observer"} = {},
           PipelineInvariant, TypeOK', TokenInvariant, OnResponse
    PROVE  TokenInvariant'
  <1>1. TypeOK /\ QueueOwned /\ ClientsOwned /\ 1..born \subseteq Clients
    BY InvariantParts, ClientsBorn
  <1>2. PICK c \in Clients : OnResponse!(c)
    BY DEF OnResponse
  <1>3. TakeClient("response", c) /\ "response" \in ClientEventNames \ Streaming
    BY <1>2 DEF ClientEventNames, Streaming, StreamNames
  <1>4. UNCHANGED <<conn, born, socket, done, task, known, response_started, written>>
    BY <1>2 DEF netVars
  <1>5. HeadsStay /\ c \in 1..born
    BY <1>1, <1>3, <1>4, HeadOwned DEF HeadsStay, HeadWritten
  <1>6. Live(c) => c \notin responses /\ ~done[c] /\ ~Unanswerable(c) /\ task[c] # "running"
    BY <1>3, Unaccepted
  <1>7. \/ Unanswerable(c) /\ PrematureDisconnect(c) /\ Fire(<<>>) /\ UNCHANGED responses
        \/ /\ ~Unanswerable(c) /\ UNCHANGED reply
           /\ responses' = responses \cup {c} /\ Fire(ResponseOutcome(c))
    BY <1>2 DEF Fault
  <1>8. \A x \in Clients : x # c => reply'[x] = reply[x]
    BY <1>1, <1>7 DEF PrematureDisconnect, TypeOK
  <1>9. responses' \subseteq responses \cup {c} /\ responses \subseteq responses'
    BY <1>7
  <1>10. \A x \in 1..born : x # c => Spares(x)
    BY <1>1, <1>4, <1>5, <1>8, <1>9, SameSpared
  <1>11. FiresFor(c)
    <2>1. CASE Fire(<<>>)
      BY <2>1 DEF FiresFor
    <2>2. CASE c \in responses /\ Fire(<<ClientEvent("response_failure", c)>>)
      <3>1. "response_failure" \in ClientEventNames /\ ~Live(c)
        BY <1>6, <2>2 DEF ClientEventNames
      <3> QED BY <2>2, <3>1 DEF FiresFor
    <2>3. CASE Fire(<<ClientEvent("response.start", c)>>)
      <3>1. "response.start" \in ClientEventNames /\ Fits("response.start", c)'
        BY DEF ClientEventNames, Streaming, StreamNames, Fits
      <3> QED BY <1>4, <1>6, <2>3, <3>1 DEF FiresFor
    <2> QED BY <1>7, <2>1, <2>2, <2>3 DEF ResponseOutcome
  <1>12. Live(c) => Sent(c)' /\ task'[c] # "running"
    BY <1>4, <1>6 DEF Sent
  <1> QED BY <1>1, <1>3, <1>4, <1>9, <1>10, <1>11, <1>12, ActsForOne

\* A response under way on a connection that lasts has been accepted, and its
\* event is the only one about its client.
LEMMA StreamTokens ==
    ASSUME PipelineInvariant, TokenInvariant,
           NEW n \in StreamNames, NEW c \in Clients, TakeClient(n, c)
    PROVE  /\ c \in 1..born /\ socket[c] \in Sockets /\ n \in ClientEventNames
           /\ 1 \in Streams /\ queue[1].client = c /\ queue[1].name = n
           /\ Live(c) => /\ c \in responses /\ ~Unanswerable(c) /\ task[c] # "running"
                         /\ Sent(c)
  <1>1. TypeOK /\ QueueOwned /\ ClientsOwned /\ QueueInvariant /\ n \in ClientEventNames
    BY InvariantParts DEF ClientEventNames, PipelineInvariant, QueueInvariant
  <1>2. c \in 1..born /\ socket[c] \in Sockets
    BY <1>1, HeadOwned
  <1>3. 1 \in Streams /\ queue[1].client = c /\ queue[1].name = n
    BY <1>1, QueueHead DEF TakeClient, Streams
  <1>4. MayStream(c)
    BY <1>1, HeadIsOnlyStream
  <1>5. ASSUME Live(c)
        PROVE  c \in responses /\ ~Unanswerable(c) /\ task[c] # "running" /\ Sent(c)
    <2>1. c \in responses /\ socket[c] \in known
      BY <1>4, <1>5 DEF MayStream, Live
    <2>2. Token(c)
      BY <1>2, <1>5 DEF TokenInvariant
    <2> QED BY <2>1, <2>2 DEF Token, Unanswerable
  <1> QED BY <1>1, <1>2, <1>3, <1>5

LEMMA StartTokens ==
    ASSUME PipelineInvariant, TypeOK', TokenInvariant, OnResponseStart
    PROVE  TokenInvariant'
  <1>1. TypeOK /\ QueueOwned /\ ClientsOwned /\ 1..born \subseteq Clients
    BY InvariantParts, ClientsBorn
  <1>2. PICK c \in Clients : OnResponseStart!(c)
    BY DEF OnResponseStart
  <1>3. TakeClient("response.start", c) /\ "response.start" \in StreamNames
    BY <1>2 DEF StreamNames
  <1>4. UNCHANGED <<conn, born, socket, done, task, known, responses>>
    BY <1>2 DEF netVars
  <1>5. /\ c \in 1..born /\ socket[c] \in Sockets /\ "response.start" \in ClientEventNames
        /\ Live(c) => /\ c \in responses /\ ~Unanswerable(c) /\ task[c] # "running"
                      /\ Sent(c)
    BY <1>3, StreamTokens
  <1>6. HeadsStay
    <2>1. CASE written' = written
      BY <2>1 DEF HeadsStay, HeadWritten
    <2>2. CASE Write(socket[c], c, "head")
      BY <1>1, <1>5, <2>2, WriteHeads DEF Parts
    <2> QED BY <1>2, <2>1, <2>2
  <1>7. /\ \A x \in Clients : x # c => reply'[x] = reply[x]
        /\ ~Unanswerable(c) => UNCHANGED reply
    BY <1>1, <1>2 DEF PrematureDisconnect, TypeOK
  <1>8. response_started \subseteq response_started'
    BY <1>2
  <1>9. \A x \in 1..born : x # c => Spares(x)
    BY <1>1, <1>4, <1>6, <1>7, <1>8, SameSpared
  <1>10. Live(c) => Sent(c)' /\ task'[c] # "running"
    <2>1. ~Unanswerable(c) => Spares(c)
      BY <1>1, <1>4, <1>5, <1>6, <1>7, <1>8, SameSpared
    <2> QED BY <1>4, <1>5, <2>1, SpareSent
  <1>11. FiresFor(c)
    <2>1. "response.body" \in ClientEventNames /\ Fits("response.body", c)'
      BY DEF ClientEventNames, Streaming, StreamNames, Fits
    <2> QED BY <1>2, <1>10, <2>1 DEF FiresFor
  <1> QED BY <1>1, <1>3, <1>4, <1>5, <1>9, <1>10, <1>11, ActsForOne

LEMMA BodyTokens ==
    ASSUME PipelineInvariant, TypeOK', OrderInvariant, TokenInvariant, OnResponseBody
    PROVE  TokenInvariant'
  <1>1. TypeOK /\ QueueOwned /\ ClientsOwned /\ 1..born \subseteq Clients
    BY InvariantParts, ClientsBorn
  <1>2. PICK c \in Clients : OnResponseBody!(c)
    BY DEF OnResponseBody
  <1>3. TakeClient("response.body", c) /\ "response.body" \in StreamNames
    BY <1>2 DEF StreamNames
  <1>4. UNCHANGED <<conn, born, socket, task, known, responses, response_started>>
    BY <1>2 DEF netVars, stateVars, pipeVars
  <1>5. /\ c \in 1..born /\ socket[c] \in Sockets /\ "response.body" \in ClientEventNames
        /\ 1 \in Streams /\ queue[1].client = c /\ queue[1].name = "response.body"
        /\ Live(c) => /\ c \in responses /\ ~Unanswerable(c) /\ task[c] # "running"
                      /\ Sent(c)
    BY <1>3, StreamTokens
  <1>6. HeadsStay
    <2>1. CASE written' = written
      BY <2>1 DEF HeadsStay, HeadWritten
    <2>2. CASE Write(socket[c], c, "body")
      BY <1>1, <1>5, <2>2, WriteHeads DEF Parts
    <2> QED BY <1>2, <2>1, <2>2
  \* the head has been written, and the response started
  <1>7. Live(c) => HeadWritten(socket[c], c) /\ c \in response_started
    <2> SUFFICES ASSUME Live(c) PROVE HeadWritten(socket[c], c) /\ c \in response_started
      OBVIOUS
    <2>1. HeadWritten(socket[c], c)
      BY <1>5 DEF OrderInvariant, StreamSoFar, Live
    <2>2. PICK i \in 1..Len(written[socket[c]]) :
               written[socket[c]][i] = [client |-> c, part |-> "head"]
      BY <2>1 DEF HeadWritten
    <2>3. OfResponse(socket[c], i) /\ written[socket[c]][i].client = c
      BY <2>2 DEF OfResponse
    <2>4. c \in response_started
      BY <1>5, <2>3 DEF OrderInvariant, WrittenSoFar, Live
    <2> QED BY <2>1, <2>4
  <1>8. Live(c) => HeadWritten(socket[c], c)'
    BY <1>4, <1>5, <1>6, <1>7 DEF HeadsStay, HeadWritten
  <1>9. \/ /\ reply[c].left > 0 /\ UNCHANGED done
           /\ reply' = [reply EXCEPT ![c].left = @ - 1]
           /\ Fire(<<ClientEvent("response.body", c)>>)
        \/ /\ reply[c].left = 0 /\ UNCHANGED reply
           /\ done' = [done EXCEPT ![c] = TRUE]
           /\ Fire(<<ClientEvent("response.complete", c)>>)
        \/ UNCHANGED <<done, reply>> /\ Fire(<<ClientEvent("exception:response.body", c)>>)
    BY <1>2
  <1>10. \A x \in Clients : x # c => reply'[x] = reply[x] /\ done'[x] = done[x]
    <2>1. reply' = reply \/ reply' = [reply EXCEPT ![c].left = @ - 1]
      BY <1>9
    <2>2. done' = done \/ done' = [done EXCEPT ![c] = TRUE]
      BY <1>9
    <2>3. \A x \in Clients : x # c => reply'[x] = reply[x]
      BY <1>1, <2>1 DEF TypeOK
    <2>4. \A x \in Clients : x # c => done'[x] = done[x]
      BY <1>1, <2>2 DEF TypeOK
    <2> QED BY <2>3, <2>4
  <1>11. \A x \in 1..born : x # c => Spares(x)
    BY <1>1, <1>4, <1>6, <1>10, SameSpared
  <1>12. Live(c) => Sent(c)' /\ task'[c] # "running"
    <2> SUFFICES ASSUME Live(c) PROVE Sent(c)' /\ task'[c] # "running"
      OBVIOUS
    <2>1. CASE reply[c].left > 0 /\ UNCHANGED done
      <3>1. ~done[c]
        BY <1>5, <2>1 DEF Sent
      <3> QED BY <1>4, <1>5, <2>1, <3>1 DEF Sent
    <2>2. CASE reply[c].left = 0 /\ UNCHANGED reply
      BY <1>4, <1>5, <1>8, <2>2 DEF Sent
    <2>3. CASE UNCHANGED <<done, reply>>
      <3>1. Spares(c)
        BY <1>1, <1>4, <1>5, <1>6, <2>3, SameSpared
      <3> QED BY <1>4, <1>5, <3>1, SpareSent
    <2> QED BY <1>9, <2>1, <2>2, <2>3
  <1>13. FiresFor(c)
    <2>1. /\ {"response.body", "response.complete", "exception:response.body"} \subseteq ClientEventNames
          /\ \A m \in {"response.body", "response.complete"} : Fits(m, c)'
      BY DEF ClientEventNames, Streaming, StreamNames, Fits
    <2>2. Live(c) => Fits("exception:response.body", c)'
      BY <1>4, <1>7 DEF Fits, Streaming
    <2> QED BY <1>9, <1>12, <2>1, <2>2 DEF FiresFor
  <1> QED BY <1>1, <1>3, <1>4, <1>5, <1>10, <1>11, <1>12, <1>13, ActsForOne

\* The event of a request whose response is next: it has none yet, as its
\* response is accepted and another one is under way on its connection.
LEMMA NextIsQuiet ==
    ASSUME PipelineInvariant, TokenInvariant,
           NEW n \in StreamNames, NEW c \in Clients, TakeClient(n, c),
           NEW next \in 1..born, Live(next), socket[next] = socket[c],
           next \in responses \ response_started
    PROVE  \A i \in 1..Len(queue) : i > 1 => ~Mentions(queue[i], next)
  <1>1. TypeOK /\ QueueInvariant /\ Token(next)
    BY InvariantParts DEF PipelineInvariant, QueueInvariant, TokenInvariant
  <1> SUFFICES ASSUME NEW i \in 1..Len(queue), i > 1, Mentions(queue[i], next) PROVE FALSE
    OBVIOUS
  <1>2. Fits(queue[i].name, next)
    BY <1>1 DEF Token
  <1>3. i \in Streams /\ queue[i].client = next
    BY <1>2 DEF Fits, Streaming, Streams, Mentions
  <1>4. i # 1
    OBVIOUS
  <1> QED BY <1>1, <1>3, <1>4, HeadIsOnlyStream

LEMMA CompleteTokens ==
    ASSUME PipelineInvariant, TypeOK', TokenInvariant, OnResponseComplete
    PROVE  TokenInvariant'
  <1>1. TypeOK /\ QueueOwned /\ ClientsOwned /\ 1..born \subseteq Clients
    BY InvariantParts, ClientsBorn
  <1>2. PICK c \in Clients : OnResponseComplete!(c)
    BY DEF OnResponseComplete
  <1>3. TakeClient("response.complete", c) /\ "response.complete" \in StreamNames
    BY <1>2 DEF StreamNames
  <1>4. UNCHANGED <<conn, born, socket, done, task, known, responses, response_started, written>>
    BY <1>2 DEF netVars
  <1>5. /\ c \in 1..born /\ socket[c] \in Sockets /\ "response.complete" \in ClientEventNames
        /\ Live(c) => /\ c \in responses /\ ~Unanswerable(c) /\ task[c] # "running"
                      /\ Sent(c)
    BY <1>3, StreamTokens
  <1>6. HeadsStay
    BY <1>4 DEF HeadsStay, HeadWritten
  <1>7. /\ \A x \in Clients : x # c => reply'[x] = reply[x]
        /\ ~Unanswerable(c) => UNCHANGED reply
    BY <1>1, <1>2 DEF PrematureDisconnect, TypeOK
  <1>8. \A x \in 1..born : x # c \/ ~Unanswerable(c) => Spares(x)
    BY <1>1, <1>4, <1>6, <1>7, SameSpared
  <1>9. Live(c) => Sent(c)' /\ task'[c] # "running"
    BY <1>4, <1>5, <1>8, SpareSent
  <1>10. PICK s \in Sockets : s = socket[c]
    BY <1>5
  <1>11. CASE Fire(<<>>) \/ Fire(<<SocketEvent("close", s)>>)
    <2>1. FiresFor(c)
      BY <1>11 DEF FiresFor, SocketEventNames
    <2> QED BY <1>1, <1>3, <1>4, <1>5, <1>8, <1>9, <2>1, ActsForOne
  <1>12. CASE /\ ~Unanswerable(c) /\ IsHead(s, c) /\ Tail(requests[s]) # <<>>
              /\ Fire(AfterComplete(s, c)) /\ ~Fire(<<>>)
    <2>1. PICK next : next = Head(Tail(requests[s]))
      OBVIOUS
    <2>2. next \in 1..born /\ socket[next] = s
      <3>1. requests[s] \in Seq(Clients) /\ requests[s] # <<>>
        BY <1>1, <1>12 DEF TypeOK, IsHead
      <3>2. /\ Tail(requests[s]) \in Seq(Clients) /\ Len(Tail(requests[s])) = Len(requests[s]) - 1
            /\ \A i \in 1..Len(Tail(requests[s])) : Tail(requests[s])[i] = requests[s][i+1]
        BY <3>1, HeadTailProperties
      <3>3. next = Tail(requests[s])[1] /\ Len(Tail(requests[s])) \in Nat \ {0}
        <4>1. PICK rest \in Seq(Clients) : rest = Tail(requests[s]) /\ rest # <<>>
          BY <1>12, <3>2
        <4>2. Head(rest) = rest[1]
          BY <4>1, HeadTailProperties
        <4>3. Len(rest) \in Nat \ {0}
          BY <4>1, LenProperties, EmptySeq
        <4> QED BY <2>1, <4>1, <4>2, <4>3
      <3>4. 1 \in 1..Len(Tail(requests[s])) /\ 2 \in 1..Len(requests[s])
        <4>1. PICK m \in Nat : m = Len(requests[s])
          BY <3>1, LenProperties
        <4>2. PICK k \in Nat \ {0} : k = Len(Tail(requests[s])) /\ k = m - 1
          BY <3>2, <3>3, <4>1
        <4>3. 1 \in 1..k /\ 2 \in 1..m
          <5>1. k = m - 1
            BY <4>2
          <5> QED BY <5>1
        <4>4. 1 \in 1..Len(Tail(requests[s]))
          BY <4>2, <4>3
        <4>5. 2 \in 1..Len(requests[s])
          BY <4>1, <4>3
        <4> QED BY <4>4, <4>5
      <3>5. next = requests[s][2]
        BY <3>2, <3>3, <3>4
      <3> QED BY <1>1, <3>4, <3>5 DEF ClientsOwned
    <2>3. next \in responses \ response_started /\ Fire(<<ClientEvent("response.start", next)>>)
      <3>1. AfterComplete(s, c) = IF next \in responses \ response_started
                                  THEN <<ClientEvent("response.start", next)>> ELSE <<>>
        BY <1>12, <2>1 DEF AfterComplete
      <3>2. CASE next \in responses \ response_started
        BY <1>12, <3>1, <3>2
      <3>3. CASE next \notin responses \ response_started
        BY <1>12, <3>1, <3>3
      <3> QED BY <3>2, <3>3
    <2>4. PICK e \in Events : e = ClientEvent("response.start", next)
      <3>1. "response.start" \in ClientEventNames
        BY DEF ClientEventNames, StreamNames
      <3>2. ClientEvent("response.start", next) \in Events
        BY <1>1, <2>2, <3>1, ClientEventType
      <3> QED BY <3>2
    <2>5. e.name = "response.start" /\ e.client = next
      BY <2>4 DEF ClientEvent
    <2>6. PICK es : es = <<e>>
      OBVIOUS
    <2>7. /\ es \in Seq(Events) /\ Fire(es) /\ Len(es) = 1
          /\ \A k \in 1..Len(es) : es[k] = e
      BY <2>3, <2>4, <2>6
    <2>8. ASSUME NEW x \in 1..born', Live(x)' PROVE Token(x)' /\ ~Unanswerable(x)'
      <3>1. x \in 1..born /\ Live(x) /\ Token(x) /\ Spares(x) /\ ~Unanswerable(x)'
        BY <1>4, <1>8, <1>12, <2>8 DEF TokenInvariant, Live, Unanswerable
      <3>2. CASE x = next
        <4>1. \A i \in 1..Len(queue) : i > 1 => ~Mentions(queue[i], x)
          BY <1>3, <1>10, <2>2, <2>3, <3>1, <3>2, NextIsQuiet
        <4>2. task'[x] # "running" /\ x \in responses'
          BY <1>4, <2>3, <3>1, <3>2 DEF Token
        <4>3. Fits("response.start", x)'
          BY DEF Fits, Streaming, StreamNames
        <4>4. \A k \in 1..Len(es) : Mentions(es[k], x) => Fits(es[k].name, x)' /\ task'[x] # "running"
          BY <2>5, <2>7, <4>2, <4>3 DEF Fits
        <4>5. Sent(x)'
          BY <3>1, SpareSent DEF Token
        <4>6. Take("response.complete") /\ Len(es) <= 1
          BY <1>3, <2>7 DEF TakeClient
        <4>7. Token(x)'
          BY <1>1, <2>7, <4>1, <4>2, <4>4, <4>5, <4>6, ActorToken
        <4> QED BY <3>1, <4>7
      <3>3. CASE x # next
        <4>1. \A k \in 1..Len(es) : ~Mentions(es[k], x)
          BY <2>5, <2>7, <3>3 DEF Mentions
        <4>2. \A i \in 1..Len(queue') : Mentions(queue'[i], x) =>
                   i+1 \in 1..Len(queue) /\ queue'[i] = queue[i+1]
          BY <1>1, <1>3, <2>7, <4>1, UnmentionedDispatch DEF TakeClient
        <4>3. Token(x)'
          BY <3>1, <4>2, SparedToken
        <4> QED BY <3>1, <4>3
      <3> QED BY <3>2, <3>3
    <2> QED BY <1>4, <2>8 DEF TokenInvariant
  <1> QED BY <1>2, <1>10, <1>11, <1>12 DEF AfterComplete

LEMMA EndTokens ==
    ASSUME PipelineInvariant, TokenInvariant, OnClose \/ OnDisconnect \/ OnEOF
    PROVE  TokenInvariant'
  <1>1. TypeOK /\ ClientsOwned /\ DisconnectsAreReal /\ 1..born \subseteq Clients
    BY InvariantParts, ClientsBorn
  <1>2. PICK s \in Sockets : OnClose!(s) \/ OnDisconnect!(s) \/ OnEOF!(s)
    BY DEF OnClose, OnDisconnect, OnEOF
  <1>3. conn'[s] = "closed" /\ \A t \in Sockets : t # s => conn'[t] = conn[t]
    <2>1. CASE OnClose!(s) \/ OnEOF!(s)
      BY <1>1, <2>1 DEF TypeOK
    <2>2. CASE OnDisconnect!(s)
      <3>1. Take("disconnect") /\ Head(queue).socket = s
        BY <2>2 DEF TakeSocket
      <3>2. conn[s] = "closed"
        BY <1>1, <3>1, HeadJustified, QueueHead DEF DisconnectsAreReal
      <3> QED BY <2>2, <3>2 DEF netVars
    <2> QED BY <1>2, <2>1, <2>2
  <1>4. UNCHANGED <<born, socket, done, reply, task>>
    BY <1>2 DEF clientVars
  <1>5. \/ UNCHANGED <<known, responses, response_started>>
        \/ /\ known' = known \ {s}
           /\ responses' = responses \ Owned(s)
           /\ response_started' = response_started \ Owned(s)
    BY <1>2 DEF RemoveState, stateVars, pipeVars
  <1>6. \A t \in Sockets : t # s => written'[t] = written[t]
    BY <1>1, <1>2, LoseOthers
  <1>7. ASSUME NEW x \in 1..born, Live(x)' PROVE Live(x) /\ Spares(x) /\ ~Unanswerable(x)'
    <2>1. socket[x] \in Sockets /\ socket[x] # s /\ socket'[x] = socket[x]
      BY <1>1, <1>3, <1>4, <1>7 DEF Live, ClientsOwned
    <2>2. Live(x) /\ ~Unanswerable(x)
      BY <1>3, <1>7, <2>1 DEF Live, TokenInvariant
    <2>3. /\ x \in responses' <=> x \in responses
          /\ x \in response_started => x \in response_started'
          /\ socket[x] \in known' <=> socket[x] \in known
      BY <1>5, <2>1 DEF Owned
    <2>4. Spares(x)
      <3>1. HeadWritten(socket[x], x) => HeadWritten(socket[x], x)'
        BY <1>6, <2>1 DEF HeadWritten
      <3> QED BY <1>1, <1>4, <2>3, <3>1 DEF Spares
    <2> QED BY <2>1, <2>2, <2>3, <2>4 DEF Unanswerable
  <1>8. PICK n \in {"close", "disconnect", "eof"} : Take(n)
    BY <1>2 DEF TakeSocket
  <1>9. Fire(<<>>) \/ \E m \in SocketEventNames, t \in Sockets : Fire(<<SocketEvent(m, t)>>)
    BY <1>2 DEF SocketEventNames
  <1>10. \A i \in 1..Len(queue'), c \in 1..born : Mentions(queue'[i], c) =>
              i+1 \in 1..Len(queue) /\ queue'[i] = queue[i+1]
    BY <1>1, <1>8, <1>9, NobodyMentioned
  <1>11. responses' \subseteq responses
    BY <1>5
  <1> QED BY <1>4, <1>7, <1>10, <1>11, ActsForNobody

\* What a read fires is about the clients it makes, one event for each.
LEMMA ReadFiresOnce ==
    ASSUME TypeOK, NEW s \in Sockets, NEW n \in Nat,
           NEW first \in {"routing", "httperror"}, ReadOutcome(s, n, first)
    PROVE  \E es \in Seq(Events) :
             Fire(es) /\ \A i \in 1..Len(es) : \A c : Mentions(es[i], c) =>
                 c = born + i /\ es[i].name = first
  <1>1. born \in Nat /\ born + n <= MaxClients
    BY ClientsBorn DEF ReadOutcome
  <1>2. PICK check \in Events, close \in Events :
             check = SocketEvent("timeout.check", s) /\ close = SocketEvent("close", s)
    BY SocketEventType DEF SocketEventNames
  <1>3. \A c : ~Mentions(check, c) /\ ~Mentions(close, c)
    BY <1>2 DEF SocketEvent, Mentions, ClientEventNames, StreamNames
  <1>4. PICK last : last = <<check>>
    OBVIOUS
  <1>5. last \in Seq(Events) /\ Len(last) = 1 /\ last[1] = check
    BY <1>2, <1>4
  <1>6. PICK some \in Seq(Events) :
             /\ Fire(some \o last)
             /\ \A k \in 1..Len(some) : \A c : Mentions(some[k], c) =>
                    c = born + k /\ some[k].name = first
    <2>1. CASE Fire(<<close>> \o <<check>>)
      <3>1. PICK alert : alert = <<close>>
        OBVIOUS
      <3>2. alert \in Seq(Events) /\ Len(alert) = 1 /\ alert[1] = close
        BY <1>2, <3>1
      <3>3. Fire(alert \o last)
        BY <1>4, <2>1, <3>1
      <3>4. \A k \in 1..Len(alert) : \A c : ~Mentions(alert[k], c)
        BY <1>3, <3>2
      <3> QED BY <3>2, <3>3, <3>4
    <2>2. CASE Fire([k \in 1..n |-> ClientEvent(first, born + k)] \o <<check>>)
      <3>1. PICK new : new = [k \in 1..n |-> ClientEvent(first, born + k)]
        OBVIOUS
      <3>2. new \in Seq(Events)
        BY <1>1, <3>1, NewClientEvents DEF ClientEventNames
      <3>3. Len(new) = n
        BY <3>1, <3>2
      <3>4. \A k \in 1..Len(new) : new[k].name = first /\ new[k].client = born + k
        BY <3>1, <3>3 DEF ClientEvent
      <3>5. Fire(new \o last)
        BY <1>4, <2>2, <3>1
      <3> QED BY <3>2, <3>4, <3>5 DEF Mentions
    <2>3. \/ Fire(<<close>> \o <<check>>)
          \/ Fire([k \in 1..n |-> ClientEvent(first, born + k)] \o <<check>>)
      BY <1>2 DEF ReadOutcome
    <2> QED BY <2>1, <2>2, <2>3
  <1>7. /\ some \o last \in Seq(Events)
        /\ Len(some \o last) = Len(some) + Len(last)
        /\ \A i \in 1..Len(some) + Len(last) :
             (some \o last)[i] = IF i <= Len(some) THEN some[i] ELSE last[i - Len(some)]
    BY <1>5, ConcatProperties
  <1>8. PICK es \in Seq(Events) :
             /\ es = some \o last /\ Len(es) = Len(some) + 1 /\ Len(some) \in Nat
             /\ \A i \in 1..Len(some)+1 : es[i] = IF i <= Len(some) THEN some[i] ELSE last[i - Len(some)]
    BY <1>5, <1>7, LenProperties
  <1>9. \A i \in 1..Len(es) : (i \in 1..Len(some) /\ es[i] = some[i]) \/ es[i] = check
    BY <1>5, <1>8
  <1>10. \A i \in 1..Len(es) : \A c : Mentions(es[i], c) => c = born + i /\ es[i].name = first
    BY <1>3, <1>6, <1>9 DEF Mentions
  <1> QED BY <1>6, <1>8, <1>10

LEMMA ReadTokens ==
    ASSUME PipelineInvariant, TokenInvariant, OnRead
    PROVE  TokenInvariant'
  <1>1. TypeOK /\ ClientsOwned /\ QueueOwned
    BY InvariantParts
  <1>2. PICK s \in Sockets, n \in Nat, first \in {"routing", "httperror"} :
             ReadOutcome(s, n, first)
    BY <1>1, OnReadCases
  <1>3. /\ Take("read") /\ born \in Nat /\ born' = born + n /\ known' = known \cup {s}
        /\ 1..born' \subseteq Clients
    <2>1. TypeOK'
      BY <1>1, OnReadTypeOK
    <2>2. born' <= MaxClients /\ MaxClients \in Nat /\ born \in Nat
      BY <1>1, <2>1, ClientsBorn, ConstantsAssumption DEF TypeOK, ConstantsAssumption
    <2> QED BY <1>2, <2>2 DEF ReadOutcome, Clients
  <1>4. PICK new \in Seq(Clients) : ReadAppends(s, n, new)
    BY <1>1, <1>2, ReadRequests
  <1>5. UNCHANGED <<conn, done, reply, task, responses, response_started>>
    BY DEF OnRead, netVars
  <1>6. HeadsStay
    <2>1. CASE written' = written
      BY <2>1 DEF HeadsStay, HeadWritten
    <2>2. CASE Write(s, 0, "alert")
      BY <1>1, <2>2, WriteHeads DEF Parts
    <2> QED BY <1>2, <2>1, <2>2 DEF ReadOutcome
  <1>7. PICK es \in Seq(Events) :
             Fire(es) /\ \A i \in 1..Len(es) : \A c : Mentions(es[i], c) =>
                 c = born + i /\ es[i].name = first
    BY <1>1, <1>2, ReadFiresOnce
  <1>8. ASSUME NEW x \in 1..born, Live(x)' PROVE Token(x)' /\ ~Unanswerable(x)'
    <2>1. socket'[x] = socket[x]
      BY <1>4 DEF ReadAppends
    <2>2. Live(x) /\ Token(x) /\ ~Unanswerable(x)'
      BY <1>3, <1>5, <1>8, <2>1 DEF Live, TokenInvariant, Unanswerable
    <2>3. Spares(x)
      BY <1>1, <1>5, <1>6, <2>1, SameSpared
    <2>4. ASSUME NEW k \in 1..Len(es) PROVE ~Mentions(es[k], x)
      <3>1. PICK b \in Nat : b = born
        BY <1>3
      <3>2. x # b + k
        <4>1. k \in Nat \ {0} /\ x \in 1..b
          BY <3>1, LenProperties
        <4> QED BY <4>1
      <3> QED BY <1>7, <3>1, <3>2
    <2>5. \A i \in 1..Len(queue') : Mentions(queue'[i], x) =>
               i+1 \in 1..Len(queue) /\ queue'[i] = queue[i+1]
      BY <1>1, <1>3, <1>7, <2>4, UnmentionedDispatch
    <2>6. Token(x)'
      BY <2>2, <2>3, <2>5, SparedToken
    <2> QED BY <2>2, <2>6
  <1>9. ASSUME NEW x \in born+1 .. born+n PROVE Token(x)' /\ ~Unanswerable(x)'
    <2>1. /\ x \in Clients /\ x \notin 1..born /\ socket'[x] = s
      <3>1. socket'[x] = s
        BY <1>4 DEF ReadAppends
      <3>2. x \in 1..born' /\ x \notin 1..born
        <4>1. PICK b \in Nat : b = born
          BY <1>3
        <4>2. x \in b+1 .. b+n
          BY <4>1
        <4>3. x \in 1..b+n /\ x \notin 1..b
          BY <4>1, <4>2
        <4> QED BY <1>3, <4>1, <4>3
      <3> QED BY <1>3, <3>1, <3>2
    <2>2. x \notin responses' /\ ~done'[x] /\ task'[x] # "running" /\ ~Unanswerable(x)'
      BY <1>1, <1>3, <1>5, <2>1 DEF TokenInvariant, ClientsOwned, Unanswerable
    <2>3. ASSUME NEW i \in 1..Len(queue'), Mentions(queue'[i], x)
          PROVE  i = x - born + (Len(queue) - 1) /\ queue'[i].name = first
      <3>1. \/ i+1 \in 1..Len(queue) /\ queue'[i] = queue[i+1]
            \/ /\ i - (Len(queue) - 1) \in 1..Len(es)
               /\ queue'[i] = es[i - (Len(queue) - 1)]
        BY <1>1, <1>3, <1>7, FireElements DEF TypeOK
      <3>2. ~(i+1 \in 1..Len(queue) /\ queue'[i] = queue[i+1])
        BY <1>1, <2>1, <2>3 DEF QueueOwned, Mentions
      <3>3. PICK k : k = i - (Len(queue) - 1)
        OBVIOUS
      <3>4. k \in 1..Len(es) /\ queue'[i] = es[k]
        BY <3>1, <3>2, <3>3
      <3>5. x = born + k /\ queue'[i].name = first
        BY <1>7, <2>3, <3>4 DEF Mentions
      <3>6. Len(queue) \in Nat
        BY <1>1, LenProperties DEF TypeOK
      <3>7. PICK b \in Nat, m \in Nat : b = born /\ m = Len(queue)
        BY <1>3, <3>6
      <3>8. PICK p \in Nat, q \in Int : p = k /\ q = i
        BY <3>4, LenProperties
      <3>9. q = x - b + (m - 1)
        BY <3>3, <3>5, <3>7, <3>8
      <3> QED BY <3>5, <3>7, <3>8, <3>9
    <2>4. \A i, j \in 1..Len(queue') : Mentions(queue'[i], x) /\ Mentions(queue'[j], x) => i = j
      BY <2>3
    <2>5. Fits(first, x)'
      BY <2>2 DEF Fits
    <2>6. \A i \in 1..Len(queue') : Mentions(queue'[i], x) => Fits(queue[i].name, x)'
      BY <2>3, <2>5 DEF Fits
    <2>7. Sent(x)'
      BY <2>2 DEF Sent
    <2> QED BY <2>2, <2>4, <2>6, <2>7 DEF Token, Mentions
  <1>10. \A x \in 1..born' : x \in 1..born \/ x \in born+1 .. born+n
    BY <1>3
  <1>11. 1..born \subseteq 1..born'
    BY <1>3
  <1> QED BY <1>5, <1>8, <1>9, <1>10, <1>11 DEF TokenInvariant

\* Between two batches the queue grows by one event at most.
LEMMA AppendedElements ==
    ASSUME TypeOK, NEW e \in Events, queue' = Append(queue, e)
    PROVE  \A i \in 1..Len(queue') :
             \/ i \in 1..Len(queue) /\ queue'[i] = queue[i]
             \/ i = Len(queue) + 1 /\ queue'[i] = e
  <1>1. /\ Len(queue') = Len(queue) + 1
        /\ \A i \in 1..Len(queue') : queue'[i] = IF i <= Len(queue) THEN queue[i] ELSE e
    BY AppendProperties, LenProperties DEF TypeOK
  <1>2. Len(queue) \in Nat
    BY LenProperties DEF TypeOK
  <1> QED BY <1>1, <1>2

\* What the coroutine of a handler ends with: until then nothing is queued
\* about its client, and nothing accepted.
LEMMA TaskTokens ==
    ASSUME PipelineInvariant, TokenInvariant, HeadsStay,
           UNCHANGED <<conn, born, socket, done, known, responses, response_started>>,
           NEW c \in Clients, TaskEnds(c)
    PROVE  TokenInvariant'
  <1>1. TypeOK /\ ClientsOwned /\ 1..born \subseteq Clients
    BY InvariantParts, ClientsBorn
  <1>2. c \in 1..born
    BY <1>1 DEF TaskEnds, ClientsOwned
  <1>3. PICK m \in {"request_success", "request_failure"} : queue' = Append(queue, ClientEvent(m, c))
    BY DEF TaskEnds, Enqueue
  <1>4. PICK e \in Events : e = ClientEvent(m, c)
    <2>1. m \in ClientEventNames
      BY DEF ClientEventNames
    <2> QED BY <2>1, ClientEventType
  <1>5. e.name = m /\ e.client = c
    BY <1>4 DEF ClientEvent
  <1>6. \A i \in 1..Len(queue') :
             \/ i \in 1..Len(queue) /\ queue'[i] = queue[i]
             \/ i = Len(queue) + 1 /\ queue'[i] = e
    BY <1>1, <1>3, <1>4, AppendedElements
  <1>7. task'[c] = "none" /\ \A x \in Clients : x # c => task'[x] = task[x]
    BY <1>1 DEF TaskEnds, TypeOK
  <1>8. \A x \in Clients : x # c => reply'[x] = reply[x]
    <2>1. reply' = reply \/ \E r \in Replies : reply' = [reply EXCEPT ![c] = r]
      BY DEF TaskEnds
    <2>2. reply \in [Clients -> ReplySpace]
      BY <1>1 DEF TypeOK
    <2> QED BY <2>1, <2>2
  <1>9. ASSUME NEW x \in 1..born', Live(x)' PROVE Token(x)' /\ ~Unanswerable(x)'
    <2>1. x \in 1..born /\ x \in Clients /\ Live(x) /\ Token(x) /\ ~Unanswerable(x)'
      BY <1>1, <1>9 DEF TokenInvariant, Live, Unanswerable
    <2>2. CASE x = c
      <3>1. c \notin responses' /\ Quiet(c) /\ Sent(c) /\ ~done[c]
        BY <2>1, <2>2 DEF TaskEnds, Token, Sent
      <3>2. \A i \in 1..Len(queue') : Mentions(queue'[i], c) => i = Len(queue) + 1 /\ queue'[i] = e
        BY <1>6, <3>1 DEF Quiet, Mentions
      <3>3. Fits(m, c)'
        BY <3>1 DEF Fits
      <3>4. \A i \in 1..Len(queue') : Mentions(queue'[i], c) => Fits(queue[i].name, c)'
        BY <1>5, <3>2, <3>3 DEF Fits
      <3>5. Sent(c)'
        BY <3>1 DEF Sent
      <3>6. Token(c)'
        BY <1>7, <3>2, <3>4, <3>5 DEF Token, Mentions
      <3> QED BY <2>1, <2>2, <3>6
    <2>3. CASE x # c
      <3>1. Spares(x)
        BY <1>1, <1>7, <1>8, <2>1, <2>3, SameSpared
      <3>2. \A i \in 1..Len(queue') : Mentions(queue'[i], x) =>
                 i+0 \in 1..Len(queue) /\ queue'[i] = queue[i+0]
        BY <1>5, <1>6, <2>3 DEF Mentions
      <3>3. Token(x)'
        BY <2>1, <3>1, <3>2, SparedToken
      <3> QED BY <2>1, <3>3
    <2> QED BY <2>2, <2>3
  <1> QED BY <1>9 DEF TokenInvariant

LEMMA LoopTokens ==
    ASSUME "coroutine" \notin Raises,
           PipelineInvariant, TokenInvariant, Environment \/ Tasks \/ Tick
    PROVE  TokenInvariant'
  <1>1. TypeOK /\ ClientsOwned /\ 1..born \subseteq Clients
    BY InvariantParts, ClientsBorn
  <1>2. UNCHANGED <<born, socket, done, known, responses, response_started, written>>
    BY DEF Environment, Accept, Hangup, PeerSends, TLSError, Tasks, TaskEnds, StoppedTaskEnds,
           TimerExpires, Tick, clientVars, stateVars, pipeVars
  <1>3. \A s \in Sockets : conn'[s] # "closed" => conn[s] # "closed"
    <2>1. conn \in [Sockets -> {"new", "open", "eof", "closed"}]
      BY <1>1 DEF TypeOK
    <2>2. \/ conn' = conn
          \/ \E s \in Sockets, x \in {"open", "eof"} :
                conn[s] # "closed" /\ conn' = [conn EXCEPT ![s] = x]
      BY DEF Environment, Accept, Hangup, PeerSends, TLSError, Tasks, TaskEnds,
             StoppedTaskEnds, TimerExpires, Tick, netVars
    <2> QED BY <2>1, <2>2
  <1>4. HeadsStay
    BY <1>2 DEF HeadsStay, HeadWritten
  <1>5. ASSUME UNCHANGED reply, \A x \in Clients : task'[x] \in {task[x], "none"}, NEW x \in 1..born, Live(x)'
        PROVE  Live(x) /\ Spares(x) /\ ~Unanswerable(x)'
    <2>1. socket[x] \in Sockets /\ Live(x)
      BY <1>1, <1>2, <1>3, <1>5 DEF Live, ClientsOwned
    <2>2. Spares(x)
      BY <1>1, <1>2, <1>4, <1>5, SameSpared
    <2> QED BY <1>2, <2>1, <2>2 DEF TokenInvariant, Unanswerable
  \* nothing is fired about a client
  <1>6. ASSUME UNCHANGED reply, \A x \in Clients : task'[x] \in {task[x], "none"},
               \A i \in 1..Len(queue'), c \in 1..born : Mentions(queue'[i], c) =>
                   i+0 \in 1..Len(queue) /\ queue'[i] = queue[i+0]
        PROVE  TokenInvariant'
    BY <1>2, <1>5, <1>6, ActsForNobody
  <1>7. ASSUME UNCHANGED <<queue, reply>>, \A x \in Clients : task'[x] \in {task[x], "none"}
        PROVE  TokenInvariant'
    <2>1. \A i \in 1..Len(queue') : i+0 \in 1..Len(queue) /\ queue'[i] = queue[i+0]
      BY <1>7
    <2> QED BY <1>6, <1>7, <2>1
  <1>8. ASSUME UNCHANGED <<reply, task>>, NEW e \in Events, e.name \notin ClientEventNames,
               queue' = Append(queue, e)
        PROVE  TokenInvariant'
    <2>1. \A i \in 1..Len(queue') :
               \/ i \in 1..Len(queue) /\ queue'[i] = queue[i]
               \/ i = Len(queue) + 1 /\ queue'[i] = e
      BY <1>1, <1>8, AppendedElements
    <2>2. \A i \in 1..Len(queue'), c \in 1..born : Mentions(queue'[i], c) =>
              i+0 \in 1..Len(queue) /\ queue'[i] = queue[i+0]
      BY <1>8, <2>1 DEF Mentions
    <2> QED BY <1>6, <1>8, <2>2
  <1>9. ASSUME UNCHANGED <<reply, task>>, NEW m \in SocketEventNames, NEW s \in Sockets,
               queue' = Append(queue, SocketEvent(m, s))
        PROVE  TokenInvariant'
    <2>1. PICK e \in Events : e = SocketEvent(m, s)
      BY SocketEventType
    <2>2. e.name \notin ClientEventNames
      BY <2>1 DEF SocketEvent, SocketEventNames, ClientEventNames, StreamNames
    <2> QED BY <1>8, <1>9, <2>1, <2>2
  <1>10. CASE Environment
    <2>1. UNCHANGED <<reply, task>>
      BY <1>10 DEF Environment, Accept, Hangup, PeerSends, TLSError, clientVars
    <2>2. ASSUME NEW s \in Sockets, NEW n \in ReadSizes,
                 NEW d \in {"http", "malformed", "tls"}, PeerSends(s, n, d)
          PROVE  TokenInvariant'
      <3>1. PICK e : e = [name |-> "read", socket |-> s, messages |-> n, data |-> d]
        OBVIOUS
      <3>2. e \in Events /\ e.name \notin ClientEventNames
        BY <3>1 DEF Events, ReadEvents, ClientEventNames, StreamNames
      <3> QED BY <1>8, <2>1, <2>2, <3>1, <3>2 DEF PeerSends, Enqueue
    <2>3. ASSUME NEW s \in Sockets,
                 NEW m \in {"timeout.check", "eof", "ssl error", "plaintext error"},
                 Enqueue(SocketEvent(m, s))
          PROVE  TokenInvariant'
      BY <1>9, <2>1, <2>3 DEF Enqueue, SocketEventNames
    <2> QED BY <1>10, <2>2, <2>3 DEF Environment, Accept, Hangup, TLSError
  <1>11. CASE Tasks
    <2>1. ASSUME NEW c \in Clients, TaskEnds(c) PROVE TokenInvariant'
      <3>1. UNCHANGED conn
        BY <2>1 DEF TaskEnds, netVars
      <3> QED BY <1>2, <1>4, <2>1, <3>1, TaskTokens
    <2>2. ASSUME NEW c \in Clients, StoppedTaskEnds(c) PROVE TokenInvariant'
      <3>1. UNCHANGED <<queue, reply>> /\ task' = [task EXCEPT ![c] = "none"]
        BY <2>2 DEF StoppedTaskEnds, Fault, loopVars
      <3>2. \A x \in Clients : task'[x] \in {task[x], "none"}
        BY <1>1, <3>1 DEF TypeOK
      <3> QED BY <1>7, <3>1, <3>2
    <2>3. ASSUME NEW s \in Sockets, TimerExpires(s) PROVE TokenInvariant'
      <3>1. UNCHANGED <<reply, task>>
        BY <2>3 DEF TimerExpires, clientVars
      <3>2. CASE queue' = Append(queue, SocketEvent("close", s))
        BY <1>9, <3>1, <3>2 DEF SocketEventNames
      <3>3. CASE UNCHANGED queue
        BY <1>7, <3>1, <3>3
      <3> QED BY <2>3, <3>2, <3>3 DEF TimerExpires
    <2> QED BY <1>11, <2>1, <2>2, <2>3 DEF Tasks
  <1>12. CASE Tick
    BY <1>7, <1>12 DEF Tick, clientVars
  <1> QED BY <1>10, <1>11, <1>12

LEMMA TokenInit == Init => TokenInvariant
  <1> SUFFICES ASSUME Init PROVE TokenInvariant
    OBVIOUS
  <1>1. 1..born = {} /\ responses = {} /\ \A c \in Clients : ~done[c]
    BY DEF Init
  <1> QED BY <1>1 DEF TokenInvariant

LEMMA TokenStutter ==
    ASSUME TokenInvariant, UNCHANGED vars
    PROVE  TokenInvariant'
  <1>1. UNCHANGED <<queue, conn, born, socket, done, reply, task, known, responses,
                    response_started, written>>
    BY DEF vars, loopVars, netVars, clientVars, stateVars, pipeVars
  <1>2. \A c : /\ Live(c)' <=> Live(c)
               /\ Unanswerable(c)' <=> Unanswerable(c)
    BY <1>1 DEF Live, Unanswerable
  <1>3. \A c : Token(c) => Token(c)'
    BY <1>1 DEF Token, Mentions, Fits, Quiet, Sent, HeadWritten
  <1> QED BY <1>1, <1>2, <1>3 DEF TokenInvariant

LEMMA TokenKept ==
    ASSUME Raises \cap {"later handler", "coroutine", "filter", "observer"} = {},
           PipelineInvariant, TypeOK', OrderInvariant, TokenInvariant, [Next]_vars
    PROVE  TokenInvariant'
  <1>1. /\ "later handler" \notin Raises /\ "coroutine" \notin Raises
        /\ Raises \cap {"filter", "observer"} = {}
    OBVIOUS
  <1>2. CASE Chatter
    BY <1>1, <1>2, ChatterTokens
  <1>3. CASE Dispatch /\ ~Chatter
    BY <1>1, <1>3, ReadTokens, ResponseTokens, StartTokens, BodyTokens, CompleteTokens, EndTokens
       DEF Dispatch, Chatter
  <1>4. CASE Environment \/ Tasks \/ Tick
    BY <1>1, <1>4, LoopTokens
  <1>5. CASE UNCHANGED vars
    BY <1>5, TokenStutter
  <1> QED BY <1>2, <1>3, <1>4, <1>5 DEF Next

\* A request that is done has had its whole response, as long as its connection
\* lasts: its head is written and no chunk is left.  The failures excluded are
\* those of foreign handlers that answer a request a second time.
THEOREM DoneIsSent ==
    ASSUME Raises \cap {"later handler", "coroutine", "filter", "observer"} = {}
    PROVE  Spec => []DoneMeansSent
  <1>1. PipelineInvariant /\ PipelineInvariant' /\ OrderInvariant /\ TokenInvariant /\ [Next]_vars
            => TokenInvariant'
    <2>1. PipelineInvariant' => TypeOK'
      BY DEF PipelineInvariant
    <2> QED BY <2>1, TokenKept
  <1>2. Spec => []TokenInvariant
    BY <1>1, TokenInit, PipelineIsSound, OrderIsKept, PTL DEF Spec
  <1>3. TokenInvariant => DoneMeansSent
    BY TokenImplies
  <1> QED BY <1>2, <1>3, PTL
=============================================================================
