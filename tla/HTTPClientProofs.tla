-------------------------- MODULE HTTPClientProofs --------------------------
(***************************************************************************)
(* The HTTP client gives every response to the client that asked for it,   *)
(* for all clients, origins and bounds: ClientInvariant is inductive.      *)
(***************************************************************************)
EXTENDS HTTPClient, SequenceTheorems, TLAPS

-----------------------------------------------------------------------------
(* The operators the model is built from *)

LEMMA SocketsAreNumbers ==
    MaxSockets \in Nat /\ Sockets \subseteq Nat \ {0} /\ None \notin Sockets
  BY ClientAssumption DEF Sockets, None

\* The first element leaves a sequence: what is left moves up by one.
LEMMA TailElements ==
    ASSUME NEW S, NEW q \in Seq(S), q # <<>>
    PROVE  /\ Len(q) \in Nat \ {0} /\ q[1] = Head(q) /\ Head(q) \in S
           /\ Tail(q) \in Seq(S) /\ Len(Tail(q)) = Len(q) - 1
           /\ \A i \in 1..Len(Tail(q)) : Tail(q)[i] = q[i+1]
  <1>1. Len(q) \in Nat \ {0}
    BY LenProperties, EmptySeq
  <1> QED BY <1>1, HeadTailProperties, ElementOfSeq

LEMMA AppendElements ==
    ASSUME NEW S, NEW q \in Seq(S), NEW e \in S
    PROVE  /\ Append(q, e) \in Seq(S) /\ Len(q) \in Nat /\ Len(Append(q, e)) = Len(q) + 1
           /\ \A i \in 1..Len(q) : Append(q, e)[i] = q[i]
           /\ Append(q, e)[Len(q) + 1] = e
  BY AppendProperties, LenProperties

\* Who is in the queues.
LEMMA QueuedAreClients ==
    ASSUME TypeOK
    PROVE  /\ \A s \in Sockets : /\ Len(requests[s]) \in Nat
                                 /\ \A i \in 1..Len(requests[s]) : requests[s][i] \in Clients
           /\ Len(fired) \in Nat
           /\ \A i \in 1..Len(fired) : fired[i] \in Responses /\ fired[i].client \in Clients
  <1>1. /\ requests \in [Sockets -> Seq(Clients)] /\ fired \in Seq(Responses)
    BY DEF TypeOK
  <1>2. ASSUME NEW s \in Sockets
        PROVE  /\ Len(requests[s]) \in Nat
               /\ \A i \in 1..Len(requests[s]) : requests[s][i] \in Clients
    <2>1. requests[s] \in Seq(Clients)
      BY <1>1
    <2> QED BY <2>1, ElementOfSeq, LenProperties
  <1>3. Len(fired) \in Nat /\ \A i \in 1..Len(fired) : fired[i] \in Responses
    BY <1>1, ElementOfSeq, LenProperties
  <1>4. \A r \in Responses : r.client \in Clients
    BY DEF Responses
  <1> QED BY <1>2, <1>3, <1>4

\* A sequence and what is left of it behind its first n elements stay so if the
\* same element joins both.
LEMMA BothAppend ==
    ASSUME NEW S, NEW q \in Seq(S), NEW r \in Seq(S), NEW n \in Nat, NEW e \in S,
           Behind(q, n, r)
    PROVE  Behind(Append(q, e), n, Append(r, e))
  <1>1. /\ Len(q) \in Nat /\ Len(Append(q, e)) = Len(q) + 1
        /\ \A i \in 1..Len(q) : Append(q, e)[i] = q[i]
        /\ Append(q, e)[Len(q) + 1] = e
    BY AppendElements
  <1>2. /\ Len(r) \in Nat /\ Len(Append(r, e)) = Len(r) + 1
        /\ \A i \in 1..Len(r) : Append(r, e)[i] = r[i]
        /\ Append(r, e)[Len(r) + 1] = e
    BY AppendElements
  <1>3. ASSUME NEW i \in 1..(Len(r) + 1) PROVE Append(q, e)[n + i] = Append(r, e)[i]
    <2>1. CASE i \in 1..Len(r)
      <3>1. n + i \in 1..Len(q)
        BY <1>2, <2>1 DEF Behind
      <3> QED BY <1>1, <1>2, <2>1, <3>1 DEF Behind
    <2>2. CASE i = Len(r) + 1
      <3>1. n + i = Len(q) + 1
        BY <1>2, <2>2 DEF Behind
      <3> QED BY <1>1, <1>2, <2>2, <3>1
    <2>3. i \in 1..Len(r) \/ i = Len(r) + 1
      BY <1>2
    <2> QED BY <2>1, <2>2, <2>3
  <1> QED BY <1>1, <1>2, <1>3 DEF Behind

\* A request that joins a settled connection keeps the client and the server
\* in agreement: it is the last one both of them know.
LEMMA SendKeeps ==
    ASSUME ClientInvariant,
           NEW c \in Clients, NEW s \in Sockets, Send(c, s),
           socket[c] = s, Settled(s),
           announced' \subseteq announced, asked' \in 0..MaxAsks,
           UNCHANGED <<socketVars, link, closing, coming, extra, parserVars, readVars, fired>>
    PROVE  ClientInvariant'
  <1>1. /\ requests' = [requests EXCEPT ![s] = Append(@, c)]
        /\ todo' = IF link[s] = "open" THEN [todo EXCEPT ![s] = Append(@, c)] ELSE todo
        /\ stage' = [stage EXCEPT ![c] = "sent"]
        /\ UNCHANGED <<socket, made, socket_map, link, closing, coming, extra, expected,
                       parsing, begun, taken, reading, split, client, fired>>
    BY DEF Send, socketVars, parserVars, readVars
  <1>2. /\ requests \in [Sockets -> Seq(Clients)] /\ todo \in [Sockets -> Seq(Clients)]
        /\ coming \in [Sockets -> Seq(Messages)]
        /\ stage \in [Clients -> {"idle", "connect", "result", "wait", "sent"}]
    BY DEF ClientInvariant, TypeOK
  <1>3. /\ Append(requests[s], c) \in Seq(Clients) /\ Len(requests[s]) \in Nat
        /\ Len(Append(requests[s], c)) = Len(requests[s]) + 1
        /\ \A i \in 1..Len(requests[s]) : Append(requests[s], c)[i] = requests[s][i]
        /\ Append(requests[s], c)[Len(requests[s]) + 1] = c
    BY <1>2, AppendElements
  <1>4. /\ Append(todo[s], c) \in Seq(Clients) /\ Len(todo[s]) \in Nat
        /\ Len(Append(todo[s], c)) = Len(todo[s]) + 1
        /\ \A i \in 1..Len(todo[s]) : Append(todo[s], c)[i] = todo[s][i]
        /\ Append(todo[s], c)[Len(todo[s]) + 1] = c
    BY <1>2, AppendElements
  <1>5. TypeOK'
    BY <1>1, <1>2, <1>3, <1>4 DEF ClientInvariant, TypeOK
  <1>6. NewSockets' /\ ParsedHasArrived'
    BY <1>1 DEF ClientInvariant, Structure, NewSockets, ParsedHasArrived, Steps
  <1>7. SettledFirst'
    BY <1>1, <1>2 DEF ClientInvariant, Structure, SettledFirst, Settled
  <1>8. RequestsKeepSockets'
    <2> SUFFICES ASSUME NEW t \in Sockets, NEW i \in 1..Len(requests'[t])
                 PROVE  socket[requests'[t][i]] = t
      BY <1>1 DEF RequestsKeepSockets
    <2>1. CASE t # s
      BY <1>1, <1>2, <2>1 DEF ClientInvariant, Structure, RequestsKeepSockets
    <2>2. CASE t = s
      <3>1. requests'[s] = Append(requests[s], c)
        BY <1>1, <1>2
      <3> QED BY <1>3, <2>2, <3>1 DEF ClientInvariant, Structure, RequestsKeepSockets
    <2> QED BY <2>1, <2>2
  <1>11. StagesKeepSockets'
    <2>1. HasSettled(c)
      BY SocketsAreNumbers DEF HasSettled
    <2>2. \A d \in Clients : stage'[d] = stage[d] \/ (d = c /\ stage'[d] = "sent")
      BY <1>1, <1>2
    <2> QED BY <1>1, <2>1, <2>2
            DEF ClientInvariant, Structure, StagesKeepSockets, HasSettled, Settled
  <1>12. ResponsesKeepSockets'
    BY <1>1 DEF ClientInvariant, Structure, ResponsesKeepSockets, HasSettled, Settled
  <1>9. PipelineMirrored'
    <2> SUFFICES ASSUME extra = 0, NEW t \in Sockets PROVE Mirrored(t)'
      BY <1>1 DEF PipelineMirrored
    <2>1. Mirrored(t)
      BY DEF ClientInvariant, PipelineMirrored
    <2>2. CASE t # s
      BY <1>1, <1>2, <2>1, <2>2 DEF Mirrored
    <2>3. CASE t = s
      <3>1. Len(coming[s]) \in Nat
        BY <1>2, LenProperties
      <3>2. requests'[s] = Append(requests[s], c) /\ coming'[s] = coming[s] /\ link'[s] = link[s]
        BY <1>1, <1>2
      <3>3. link[s] = "open" => todo'[s] = Append(todo[s], c)
        BY <1>1, <1>2
      <3>4. /\ Len(coming'[s]) <= Len(requests'[s])
            /\ \A i \in 1..Len(coming'[s]) : coming'[s][i].answers = requests'[s][i]
        BY <1>3, <2>1, <2>3, <3>1, <3>2 DEF Mirrored
      <3>5. link'[s] = "open" => Behind(requests'[s], Len(coming'[s]), todo'[s])
        <4>1. requests[s] \in Seq(Clients) /\ todo[s] \in Seq(Clients)
          BY <1>2
        <4>2. Behind(requests[s], Len(coming[s]), todo[s]) =>
                Behind(Append(requests[s], c), Len(coming[s]), Append(todo[s], c))
          BY <3>1, <4>1, BothAppend
        <4> QED BY <2>1, <2>3, <3>2, <3>3, <4>2 DEF Mirrored
      <3>6. Mirrored(s)'
        BY <3>4, <3>5 DEF Mirrored
      <3> QED BY <2>3, <3>6
    <2> QED BY <2>2, <2>3
  <1>10. OwnResponse'
    BY <1>1 DEF ClientInvariant, OwnResponse
  <1> QED BY <1>5, <1>6, <1>7, <1>8, <1>9, <1>10, <1>11, <1>12 DEF ClientInvariant, Structure

-----------------------------------------------------------------------------
(* Each action keeps the invariant *)

\* A step that leaves the messages and the connections alone, and no `open'
\* connection new, cannot disturb what depends only on these.
LEMMA MessagesUnchanged ==
    ASSUME ClientInvariant, UNCHANGED <<requests, todo, coming, extra, fired>>,
           \A s \in Sockets : link'[s] = "open" => link[s] = "open"
    PROVE  PipelineMirrored' /\ OwnResponse'
  <1>1. OwnResponse'
    BY DEF ClientInvariant, OwnResponse
  <1>2. PipelineMirrored'
    BY DEF ClientInvariant, PipelineMirrored, Mirrored
  <1> QED BY <1>1, <1>2

LEMMA OnRequestKeeps ==
    ASSUME ClientInvariant, NEW c \in Clients, OnRequest(c) PROVE ClientInvariant'
  <1>1. /\ stage[c] = "idle" /\ asked' \in 0..MaxAsks
        /\ UNCHANGED <<socketVars, netVars, coming, extra, parserVars, readVars, fired>>
    BY ClientAssumption DEF OnRequest, ClientInvariant, TypeOK
  <1>2. CASE socket[c] # None /\ Send(c, socket[c])
    <2>1. socket[c] \in Sockets /\ Settled(socket[c])
      BY <1>1, <1>2 DEF ClientInvariant, TypeOK, Structure, StagesKeepSockets, HasSettled
    <2> QED BY <1>1, <1>2, <2>1, SendKeeps DEF netVars
  <1>3. CASE /\ socket[c] = None
             /\ stage' = [stage EXCEPT ![c] = "connect"]
             /\ UNCHANGED <<requests, todo>>
    <2>1. UNCHANGED <<socket, made, socket_map, link, announced, closing, requests, todo,
                      coming, extra, expected, parsing, begun, taken, reading, split,
                      client, fired>>
      BY <1>1, <1>3 DEF socketVars, netVars, parserVars, readVars
    <2>2. TypeOK'
      BY <1>1, <1>3, <2>1 DEF ClientInvariant, TypeOK
    <2>3. StagesKeepSockets'
      BY <1>3, <2>1 DEF ClientInvariant, TypeOK, Structure, StagesKeepSockets, HasSettled, Settled
    <2>4. Structure'
      BY <2>1, <2>3 DEF ClientInvariant, Structure, NewSockets, SettledFirst, Settled,
         ParsedHasArrived, Steps, RequestsKeepSockets, ResponsesKeepSockets, HasSettled
    <2> QED BY <2>1, <2>2, <2>4, MessagesUnchanged DEF ClientInvariant
  <1> QED BY <1>2, <1>3 DEF OnRequest

LEMMA OnConnectKeeps ==
    ASSUME ClientInvariant, NEW c \in Clients, OnConnect(c) PROVE ClientInvariant'
  <1>1. /\ stage[c] = "connect" /\ stage' = [stage EXCEPT ![c] = "result"]
        /\ UNCHANGED <<asked, announced, closing, requests, todo, coming, extra, expected,
                       parsing, begun, taken, reading, split, client, fired>>
    BY DEF OnConnect, peerVars, parserVars, readVars
  <1>2. socket[c] = None /\ TypeOK /\ Structure
    BY <1>1 DEF ClientInvariant, Structure, StagesKeepSockets
  <1>3. \E s \in Sockets :
           /\ socket' = [socket EXCEPT ![c] = s]
           /\ \/ UNCHANGED <<made, socket_map, link>>
              \/ /\ s = made + 1 /\ made' = s
                 /\ socket_map' = [socket_map EXCEPT ![Origin[c]] = s]
                 /\ link' = [link EXCEPT ![s] = "connecting"]
    <2>1. socket_map[Origin[c]] \in Sockets \cup {None}
      BY <1>2, ClientAssumption DEF TypeOK
    <2> QED BY <2>1 DEF OnConnect
  <1>4. PICK s \in Sockets :
           /\ socket' = [socket EXCEPT ![c] = s]
           /\ \/ UNCHANGED <<made, socket_map, link>>
              \/ /\ s = made + 1 /\ made' = s
                 /\ socket_map' = [socket_map EXCEPT ![Origin[c]] = s]
                 /\ link' = [link EXCEPT ![s] = "connecting"]
    BY <1>3
  <1>5. TypeOK'
    <2>1. made' \in 0..MaxSockets
      <3>1. made \in 0..MaxSockets /\ s \in 0..MaxSockets
        BY <1>2, SocketsAreNumbers DEF TypeOK, Sockets
      <3> QED BY <1>4, <3>1
    <2>2. socket_map' \in [Origins -> Sockets \cup {None}]
      BY <1>2, <1>4 DEF TypeOK
    <2> QED BY <1>1, <1>2, <1>4, <2>1, <2>2 DEF TypeOK
  <1>6. \A t \in Sockets : \/ link'[t] = link[t]
                           \/ (t = made + 1 /\ link[t] = "unmade" /\ link'[t] = "connecting")
    <2>1. made \in Nat /\ link \in [Sockets -> {"unmade", "connecting", "open", "ending",
                                                "closed"}]
      BY <1>2, SocketsAreNumbers DEF TypeOK
    <2>2. \A t \in Sockets : t = made + 1 => link[t] = "unmade"
      BY <1>2, <2>1, SocketsAreNumbers DEF Structure, NewSockets
    <2> QED BY <1>4, <2>1, <2>2
  <1>7. NewSockets'
    BY <1>2, <1>4, <1>6, SocketsAreNumbers DEF TypeOK, Structure, NewSockets
  <1>8. SettledFirst' /\ ParsedHasArrived'
    BY <1>1, <1>2, <1>6
       DEF TypeOK, Structure, SettledFirst, Settled, ParsedHasArrived, Steps
  <1>9. /\ \A d \in Clients : HasSettled(d) => HasSettled(d)'
        /\ \A d \in Clients \ {c} : socket'[d] = socket[d] /\ stage'[d] = stage[d]
    BY <1>1, <1>2, <1>4, <1>6 DEF TypeOK, HasSettled, Settled
  <1>10. StagesKeepSockets'
    BY <1>1, <1>2, <1>4, <1>9, SocketsAreNumbers DEF TypeOK, Structure, StagesKeepSockets
  <1>11. RequestsKeepSockets'
    <2>1. \A d \in Clients : socket[d] # None => socket'[d] = socket[d]
      BY <1>2, <1>4 DEF TypeOK
    <2> QED BY <1>1, <1>2, <2>1, QueuedAreClients, SocketsAreNumbers
            DEF Structure, RequestsKeepSockets
  <1>12. ResponsesKeepSockets'
    <2>1. client \in Clients \cup {Nobody}
      BY <1>2 DEF TypeOK
    <2> QED BY <1>1, <1>2, <1>9, <2>1, QueuedAreClients
            DEF Structure, ResponsesKeepSockets, HasSettled, Settled
  <1>13. PipelineMirrored' /\ OwnResponse'
    BY <1>1, <1>6, MessagesUnchanged
  <1> QED BY <1>5, <1>7, <1>8, <1>10, <1>11, <1>12, <1>13 DEF ClientInvariant, Structure

LEMMA OnConnectDoneKeeps ==
    ASSUME ClientInvariant, NEW c \in Clients, OnConnectDone(c) PROVE ClientInvariant'
  <1>1. /\ stage[c] = "result" /\ socket[c] \in Sockets
        /\ UNCHANGED <<asked, socketVars, netVars, coming, extra, parserVars, readVars, fired>>
    BY DEF OnConnectDone, ClientInvariant, TypeOK, Structure, StagesKeepSockets
  <1>2. CASE Connected(socket[c]) /\ Send(c, socket[c])
    <2>1. Settled(socket[c]) /\ asked' \in 0..MaxAsks
      BY <1>1, <1>2 DEF Connected, Settled, ClientInvariant, TypeOK
    <2> QED BY <1>1, <1>2, <2>1, SendKeeps DEF netVars
  <1>3. CASE stage' = [stage EXCEPT ![c] = "wait"] /\ UNCHANGED <<requests, todo>>
    <2>1. UNCHANGED <<socket, made, socket_map, link, announced, closing, requests, todo,
                      coming, extra, expected, parsing, begun, taken, reading, split,
                      client, fired, asked>>
      BY <1>1, <1>3 DEF socketVars, netVars, parserVars, readVars
    <2>2. TypeOK'
      BY <1>3, <2>1 DEF ClientInvariant, TypeOK
    <2>3. StagesKeepSockets'
      BY <1>1, <1>3, <2>1, SocketsAreNumbers
         DEF ClientInvariant, TypeOK, Structure, StagesKeepSockets, HasSettled, Settled
    <2>4. Structure'
      BY <2>1, <2>3 DEF ClientInvariant, Structure, NewSockets, SettledFirst, Settled,
         ParsedHasArrived, Steps, RequestsKeepSockets, ResponsesKeepSockets, HasSettled
    <2> QED BY <2>1, <2>2, <2>4, MessagesUnchanged DEF ClientInvariant
  <1> QED BY <1>2, <1>3 DEF OnConnectDone

\* A step of the connections alone.
LEMMA LinksMove ==
    ASSUME ClientInvariant,
           UNCHANGED <<userVars, socketVars, requests, peerVars, parserVars, readVars, fired>>,
           link' \in [Sockets -> {"unmade", "connecting", "open", "ending", "closed"}],
           announced' \subseteq Sockets, closing' \subseteq Sockets,
           \A s \in Sockets : link'[s] = link[s]
                              \/ (link[s] # "unmade" /\ link'[s] \in {"open", "closed"}),
           \A s \in Sockets : link'[s] = "open" => link[s] \in {"connecting", "open"},
           \A s \in announced' \cup closing' : link'[s] \notin {"unmade", "connecting"}
    PROVE  ClientInvariant'
  <1>1. /\ UNCHANGED <<stage, asked, socket, made, socket_map, requests, todo, coming, extra,
                       expected, parsing, begun, taken, reading, split, client, fired>>
        /\ TypeOK /\ Structure
    BY DEF userVars, socketVars, peerVars, parserVars, readVars, ClientInvariant
  <1>2. TypeOK'
    BY <1>1 DEF TypeOK
  <1>3. /\ \A s \in Sockets : Settled(s) => Settled(s)'
        /\ \A c \in Clients : HasSettled(c) => HasSettled(c)'
    <2>1. \A s \in Sockets : Settled(s) => Settled(s)'
      BY DEF Settled
    <2>2. \A c \in Clients : socket[c] \in Sockets \cup {None}
      BY <1>1 DEF TypeOK
    <2> QED BY <1>1, <2>1, <2>2 DEF HasSettled, Settled
  <1>4. NewSockets' /\ SettledFirst' /\ ParsedHasArrived'
    <2>1. NewSockets'
      BY <1>1 DEF Structure, NewSockets
    <2>2. SettledFirst'
      BY <1>1, <1>3 DEF Structure, SettledFirst, Settled
    <2> QED BY <1>1, <2>1, <2>2 DEF Structure, ParsedHasArrived, Steps
  <1>5. StagesKeepSockets' /\ RequestsKeepSockets'
    BY <1>1, <1>3 DEF Structure, StagesKeepSockets, RequestsKeepSockets
  <1>6. ResponsesKeepSockets'
    <2>1. client \in Clients \cup {Nobody}
      BY <1>1 DEF TypeOK
    <2> QED BY <1>1, <1>3, <2>1, QueuedAreClients
            DEF Structure, ResponsesKeepSockets, HasSettled, Settled
  <1>7. OwnResponse'
    BY <1>1 DEF ClientInvariant, OwnResponse
  <1>8. PipelineMirrored'
    <2> SUFFICES ASSUME extra = 0, NEW s \in Sockets PROVE Mirrored(s)'
      BY <1>1 DEF PipelineMirrored
    <2>1. Mirrored(s)
      BY DEF ClientInvariant, PipelineMirrored
    <2>2. CASE link[s] = "open" \/ link'[s] # "open"
      BY <1>1, <2>1, <2>2 DEF Mirrored
    <2>3. CASE link[s] = "connecting" /\ link'[s] = "open"
      <3>1. requests[s] = <<>> /\ coming[s] = <<>> /\ todo[s] = <<>>
        BY <1>1, <2>3 DEF Structure, SettledFirst, Settled
      <3>2. Behind(<<>>, Len(<<>>), <<>>)
        BY DEF Behind
      <3> QED BY <1>1, <2>1, <3>1, <3>2 DEF Mirrored
    <2> QED BY <2>2, <2>3
  <1> QED BY <1>2, <1>4, <1>5, <1>6, <1>7, <1>8 DEF ClientInvariant, Structure

LEMMA EstablishedKeeps ==
    ASSUME ClientInvariant, NEW s \in Sockets, Established(s) PROVE ClientInvariant'
  <1>1. /\ link[s] = "connecting" /\ link' = [link EXCEPT ![s] = "open"]
        /\ announced' = announced \cup {s} /\ UNCHANGED closing
        /\ UNCHANGED <<userVars, socketVars, requests, peerVars, parserVars, readVars, fired>>
    BY DEF Established
  <1>2. /\ link \in [Sockets -> {"unmade", "connecting", "open", "ending", "closed"}]
        /\ announced \subseteq Sockets /\ closing \subseteq Sockets
        /\ \A t \in announced \cup closing : link[t] \notin {"unmade", "connecting"}
    BY DEF ClientInvariant, TypeOK, Structure, SettledFirst, Settled
  <1> QED BY <1>1, <1>2, LinksMove

LEMMA SeveredKeeps ==
    ASSUME ClientInvariant, NEW s \in Sockets, Severed(s) PROVE ClientInvariant'
  <1>1. /\ link \in [Sockets -> {"unmade", "connecting", "open", "ending", "closed"}]
        /\ announced \subseteq Sockets /\ closing \subseteq Sockets
        /\ \A t \in announced \cup closing : link[t] \notin {"unmade", "connecting"}
    BY DEF ClientInvariant, TypeOK, Structure, SettledFirst, Settled
  <1>2. /\ link[s] # "unmade" /\ link' = [link EXCEPT ![s] = "closed"]
        /\ closing' = closing \ {s} /\ UNCHANGED announced
        /\ UNCHANGED <<userVars, socketVars, requests, peerVars, parserVars, readVars, fired>>
    BY <1>1 DEF Severed
  <1> QED BY <1>1, <1>2, LinksMove

LEMMA OnConnectedKeeps ==
    ASSUME ClientInvariant, NEW s \in Sockets, OnConnected(s) PROVE ClientInvariant'
  <1>1. /\ s \in announced /\ announced' = announced \ {s}
        /\ UNCHANGED <<asked, socketVars, link, closing, coming, extra, parserVars,
                       readVars, fired>>
    BY DEF OnConnected
  <1>2. CASE \E c \in Clients : stage[c] = "wait" /\ socket[c] = s /\ Send(c, s)
    <2>1. PICK c \in Clients : socket[c] = s /\ Send(c, s)
      BY <1>2
    <2>2. Settled(s) /\ asked' \in 0..MaxAsks /\ announced' \subseteq announced
      BY <1>1 DEF ClientInvariant, TypeOK, Structure, SettledFirst
    <2> QED BY <1>1, <2>1, <2>2, SendKeeps
  <1>3. CASE UNCHANGED <<requests, todo, stage>>
    <2>1. /\ link \in [Sockets -> {"unmade", "connecting", "open", "ending", "closed"}]
          /\ announced' \subseteq announced /\ announced' \subseteq Sockets
          /\ closing \subseteq Sockets
          /\ \A t \in announced \cup closing : link[t] \notin {"unmade", "connecting"}
      BY <1>1 DEF ClientInvariant, TypeOK, Structure, SettledFirst, Settled
    <2>2. UNCHANGED <<userVars, socketVars, requests, peerVars, parserVars, readVars,
                      fired, link, closing>>
      BY <1>1, <1>3 DEF userVars, peerVars
    <2>3. \A t \in announced' \cup closing' : link'[t] \notin {"unmade", "connecting"}
      BY <2>1, <2>2
    <2> QED BY <2>1, <2>2, <2>3, LinksMove
  <1> QED BY <1>2, <1>3 DEF OnConnected

\* The data of a connection that has something to come is that of a settled one.
LEMMA ComingIsSettled ==
    ASSUME ClientInvariant, NEW s \in Sockets, coming[s] # <<>> \/ todo[s] # <<>>
    PROVE  Settled(s)
  BY DEF ClientInvariant, Structure, SettledFirst

\* An element moves from the head of what is left to the elements before it.
LEMMA BehindMoves ==
    ASSUME NEW S, NEW q \in Seq(S), NEW r \in Seq(S), NEW n \in Nat,
           Behind(q, n, r), r # <<>>
    PROVE  Behind(q, n + 1, Tail(r)) /\ n + 1 <= Len(q) /\ q[n + 1] = Head(r)
  <1>1. /\ Len(r) \in Nat \ {0} /\ r[1] = Head(r) /\ Len(Tail(r)) = Len(r) - 1
        /\ \A i \in 1..Len(Tail(r)) : Tail(r)[i] = r[i+1]
    BY TailElements
  <1>2. Len(q) = n + Len(r) /\ \A i \in 1..Len(r) : q[n + i] = r[i]
    BY DEF Behind
  <1>3. ASSUME NEW i \in 1..Len(Tail(r)) PROVE q[(n + 1) + i] = Tail(r)[i]
    <2>1. i + 1 \in 1..Len(r) /\ n + (i + 1) = (n + 1) + i
      BY <1>1
    <2> QED BY <1>1, <1>2, <2>1
  <1> QED BY <1>1, <1>2, <1>3 DEF Behind

\* A response joins those that are to come.  It is enough that it answers the
\* right request: nobody has looked at it yet.
LEMMA ResponseComes ==
    ASSUME ClientInvariant, NEW s \in Sockets, NEW m \in Messages, link[s] = "open",
           coming' = [coming EXCEPT ![s] = Append(@, m)],
           todo' \in [Sockets -> Seq(Clients)],
           \A t \in Sockets \ {s} : todo'[t] = todo[t] /\ link'[t] = link[t],
           link' \in [Sockets -> {"unmade", "connecting", "open", "ending", "closed"}],
           link'[s] \in {"open", "ending"},
           extra' \in 0..MaxExtra, extra' = 0 => extra = 0,
           UNCHANGED <<userVars, socketVars, announced, closing, requests, parserVars,
                       readVars, fired>>
    PROVE  TypeOK' /\ Structure' /\ OwnResponse'
  <1>1. /\ UNCHANGED <<stage, asked, socket, made, socket_map, announced, closing, requests,
                       expected, parsing, begun, taken, reading, split, client, fired>>
        /\ TypeOK /\ Structure
    BY DEF userVars, socketVars, parserVars, readVars, ClientInvariant
  <1>2. /\ Append(coming[s], m) \in Seq(Messages) /\ Len(coming[s]) \in Nat
        /\ Len(Append(coming[s], m)) = Len(coming[s]) + 1
    <2>1. coming[s] \in Seq(Messages)
      BY <1>1 DEF TypeOK
    <2> QED BY <2>1, AppendElements
  <1>3. /\ coming'[s] = Append(coming[s], m)
        /\ \A t \in Sockets \ {s} : coming'[t] = coming[t]
        /\ coming' \in [Sockets -> Seq(Messages)]
    BY <1>1, <1>2 DEF TypeOK
  <1>4. TypeOK'
    BY <1>1, <1>3 DEF TypeOK
  <1>5. /\ \A t \in Sockets : Settled(t) <=> Settled(t)'
        /\ \A c \in Clients : HasSettled(c) => HasSettled(c)'
    <2>1. \A t \in Sockets : Settled(t) <=> Settled(t)'
      BY DEF Settled
    <2>2. \A c \in Clients : socket[c] \in Sockets \cup {None}
      BY <1>1 DEF TypeOK
    <2> QED BY <1>1, <2>1, <2>2 DEF HasSettled, Settled
  <1>6. NewSockets'
    BY <1>1 DEF Structure, NewSockets
  <1>7. SettledFirst'
    <2>1. Settled(s)
      BY DEF Settled
    <2> QED BY <1>1, <1>3, <1>5, <2>1 DEF Structure, SettledFirst, TypeOK
  <1>8. ParsedHasArrived'
    <2>1. coming'[s] # <<>>
      <3>1. Len(coming'[s]) \in Nat \ {0}
        BY <1>2, <1>3
      <3>2. Len(coming'[s]) # 0
        BY <3>1
      <3> QED BY <3>2
    <2>2. \A t \in begun' : coming'[t] # <<>>
      BY <1>1, <1>3, <2>1 DEF Structure, ParsedHasArrived, TypeOK
    <2>3. \A t \in Sockets \ {s} : taken'[t] <= Steps(t)'
      BY <1>1, <1>3 DEF Structure, ParsedHasArrived, Steps
    <2>4. taken'[s] <= Steps(s)'
      <3>1. taken[s] \in Nat /\ taken[s] <= Steps(s)
        BY <1>1 DEF TypeOK, Structure, ParsedHasArrived
      <3> QED BY <1>1, <1>2, <1>3, <3>1 DEF Steps
    <2> QED BY <2>2, <2>3, <2>4 DEF ParsedHasArrived
  <1>9. StagesKeepSockets' /\ RequestsKeepSockets'
    BY <1>1, <1>5 DEF Structure, StagesKeepSockets, RequestsKeepSockets
  <1>10. ResponsesKeepSockets'
    <2>1. client \in Clients \cup {Nobody}
      BY <1>1 DEF TypeOK
    <2> QED BY <1>1, <1>5, <2>1, QueuedAreClients
            DEF Structure, ResponsesKeepSockets, HasSettled, Settled
  <1>11. OwnResponse'
    BY <1>1 DEF ClientInvariant, OwnResponse
  <1> QED BY <1>4, <1>6, <1>7, <1>8, <1>9, <1>10, <1>11 DEF Structure

\* A message that is last cannot change what those before it answer.
LEMMA MirrorGrows ==
    ASSUME ClientInvariant, NEW s \in Sockets, NEW m \in Messages,
           coming' = [coming EXCEPT ![s] = Append(@, m)],
           \A t \in Sockets \ {s} : todo'[t] = todo[t] /\ link'[t] = link[t],
           UNCHANGED <<requests, extra>>,
           Len(coming[s]) + 1 <= Len(requests[s]),
           m.answers = requests[s][Len(coming[s]) + 1],
           link'[s] = "open" => Behind(requests[s], Len(coming[s]) + 1, todo'[s])
    PROVE  PipelineMirrored'
  <1> SUFFICES ASSUME extra = 0, NEW t \in Sockets PROVE Mirrored(t)'
    BY DEF PipelineMirrored
  <1>1. Mirrored(t)
    BY DEF ClientInvariant, PipelineMirrored
  <1>2. coming \in [Sockets -> Seq(Messages)] /\ requests \in [Sockets -> Seq(Clients)]
    BY DEF ClientInvariant, TypeOK
  <1>3. CASE t # s
    BY <1>1, <1>2, <1>3 DEF Mirrored
  <1>4. CASE t = s
    <2>1. /\ coming'[s] = Append(coming[s], m) /\ Len(coming[s]) \in Nat
          /\ Len(coming'[s]) = Len(coming[s]) + 1
          /\ \A i \in 1..Len(coming[s]) : coming'[s][i] = coming[s][i]
          /\ coming'[s][Len(coming[s]) + 1] = m
      <3>1. coming[s] \in Seq(Messages) /\ coming'[s] = Append(coming[s], m)
        BY <1>2
      <3> QED BY <3>1, AppendElements
    <2>2. ASSUME NEW i \in 1..Len(coming'[s])
          PROVE  coming'[s][i].answers = requests[s][i]
      <3>1. CASE i \in 1..Len(coming[s])
        BY <1>1, <1>4, <2>1, <3>1 DEF Mirrored
      <3>2. CASE i = Len(coming[s]) + 1
        BY <2>1, <3>2
      <3> QED BY <2>1, <2>2, <3>1, <3>2
    <2>3. Mirrored(s)'
      BY <2>1, <2>2 DEF Mirrored
    <2> QED BY <1>4, <2>3
  <1> QED BY <1>3, <1>4

LEMMA AnswerKeeps ==
    ASSUME ClientInvariant, NEW s \in Sockets, Answer(s) PROVE ClientInvariant'
  <1>1. /\ link[s] = "open" /\ todo[s] # <<>>
        /\ UNCHANGED <<userVars, socketVars, announced, closing, requests, extra,
                       parserVars, readVars, fired>>
        /\ TypeOK
    BY DEF Answer, ClientInvariant
  <1>2. PICK close \in BOOLEAN :
          /\ coming' = [coming EXCEPT ![s] = Append(@, Message(Head(todo[s]), close))]
          /\ todo' = [todo EXCEPT ![s] = IF close THEN <<>> ELSE Tail(@)]
          /\ link' = IF close THEN [link EXCEPT ![s] = "ending"] ELSE link
    <2>1. CASE /\ coming' = [coming EXCEPT ![s] = Append(@, Message(Head(todo[s]), FALSE))]
               /\ todo' = [todo EXCEPT ![s] = Tail(@)]
               /\ UNCHANGED link
      BY <2>1
    <2>2. CASE /\ coming' = [coming EXCEPT ![s] = Append(@, Message(Head(todo[s]), TRUE))]
               /\ todo' = [todo EXCEPT ![s] = <<>>]
               /\ link' = [link EXCEPT ![s] = "ending"]
      BY <2>2
    <2> QED BY <2>1, <2>2 DEF Answer
  <1> DEFINE m == Message(Head(todo[s]), close)
  <1>3. /\ todo \in [Sockets -> Seq(Clients)] /\ todo[s] \in Seq(Clients)
        /\ link \in [Sockets -> {"unmade", "connecting", "open", "ending", "closed"}]
        /\ extra \in 0..MaxExtra
    BY <1>1 DEF TypeOK
  <1>4. Head(todo[s]) \in Clients /\ Tail(todo[s]) \in Seq(Clients)
    BY <1>1, <1>3, TailElements
  <1>5. m \in Messages /\ m.answers = Head(todo[s])
    BY <1>4 DEF Message, Messages
  <1>6. /\ todo' \in [Sockets -> Seq(Clients)]
        /\ \A t \in Sockets \ {s} : todo'[t] = todo[t] /\ link'[t] = link[t]
        /\ link' \in [Sockets -> {"unmade", "connecting", "open", "ending", "closed"}]
        /\ link'[s] \in {"open", "ending"}
        /\ link'[s] = "open" => todo'[s] = Tail(todo[s])
    <2>1. CASE close
      <3>1. <<>> \in Seq(Clients)
        BY EmptySeq
      <3> QED BY <1>1, <1>2, <1>3, <2>1, <3>1
    <2>2. CASE ~close
      BY <1>1, <1>2, <1>3, <1>4, <2>2
    <2> QED BY <2>1, <2>2
  <1>7. TypeOK' /\ Structure' /\ OwnResponse'
    <2>1. extra' \in 0..MaxExtra /\ (extra' = 0 => extra = 0)
      BY <1>1, <1>3
    <2> HIDE DEF m
    <2>2. coming' = [coming EXCEPT ![s] = Append(@, m)]
      BY <1>2 DEF m
    <2> QED BY <1>1, <1>5, <1>6, <2>1, <2>2, ResponseComes
  <1>8. PipelineMirrored'
    <2>1. CASE extra # 0
      BY <1>1, <2>1 DEF PipelineMirrored
    <2>2. CASE extra = 0
      <3>1. Behind(requests[s], Len(coming[s]), todo[s])
        BY <1>1, <2>2 DEF ClientInvariant, PipelineMirrored, Mirrored
      <3>2. requests[s] \in Seq(Clients) /\ Len(coming[s]) \in Nat
        BY <1>1, LenProperties DEF TypeOK
      <3>3. /\ Behind(requests[s], Len(coming[s]) + 1, Tail(todo[s]))
            /\ Len(coming[s]) + 1 <= Len(requests[s])
            /\ requests[s][Len(coming[s]) + 1] = Head(todo[s])
        BY <1>1, <1>3, <3>1, <3>2, BehindMoves
      <3> HIDE DEF m
      <3>4. coming' = [coming EXCEPT ![s] = Append(@, m)]
        BY <1>2 DEF m
      <3> QED BY <1>1, <1>5, <1>6, <3>3, <3>4, MirrorGrows
    <2> QED BY <2>1, <2>2
  <1> QED BY <1>7, <1>8 DEF ClientInvariant

LEMMA AnswerUnaskedKeeps ==
    ASSUME ClientInvariant, NEW s \in Sockets, AnswerUnasked(s) PROVE ClientInvariant'
  <1>1. /\ link[s] = "open" /\ extra < MaxExtra /\ extra' = extra + 1
        /\ coming' = [coming EXCEPT ![s] = Append(@, Message(Nobody, FALSE))]
        /\ UNCHANGED <<userVars, socketVars, link, announced, closing, requests, todo,
                       parserVars, readVars, fired>>
        /\ TypeOK
    BY DEF AnswerUnasked, netVars, ClientInvariant
  <1>2. /\ extra \in Nat /\ extra' \in 0..MaxExtra /\ extra' # 0
        /\ todo' \in [Sockets -> Seq(Clients)]
        /\ link' \in [Sockets -> {"unmade", "connecting", "open", "ending", "closed"}]
    <2>1. extra \in 0..MaxExtra
      BY <1>1 DEF TypeOK
    <2> QED BY <1>1, <2>1, ClientAssumption DEF TypeOK
  <1>3. Message(Nobody, FALSE) \in Messages
    BY DEF Message, Messages
  <1>4. TypeOK' /\ Structure' /\ OwnResponse'
    BY <1>1, <1>2, <1>3, ResponseComes
  <1>5. PipelineMirrored'
    BY <1>2 DEF PipelineMirrored
  <1> QED BY <1>4, <1>5 DEF ClientInvariant

\* A step of the parser alone.
LEMMA ParserMoves ==
    ASSUME ClientInvariant,
           UNCHANGED <<userVars, socketVars, netVars, requests, peerVars, fired>>,
           client' \in {client, Nobody}, TypeOK', ParsedHasArrived'
    PROVE  ClientInvariant'
  <1>1. /\ UNCHANGED <<stage, asked, socket, made, socket_map, link, announced, closing,
                       requests, todo, coming, extra, fired>>
        /\ Structure
    BY DEF userVars, socketVars, netVars, peerVars, ClientInvariant
  <1>2. NewSockets' /\ SettledFirst'
    BY <1>1 DEF Structure, NewSockets, SettledFirst, Settled
  <1>3. StagesKeepSockets' /\ RequestsKeepSockets' /\ ResponsesKeepSockets'
    BY <1>1 DEF Structure, StagesKeepSockets, RequestsKeepSockets, ResponsesKeepSockets,
       HasSettled, Settled
  <1>4. PipelineMirrored' /\ OwnResponse'
    BY <1>1, MessagesUnchanged
  <1> QED BY <1>2, <1>3, <1>4 DEF ClientInvariant, Structure

LEMMA StepsAreNumbers ==
    ASSUME TypeOK, NEW s \in Sockets
    PROVE  /\ Len(coming[s]) \in Nat /\ taken[s] \in Nat
           /\ s \in begun => Steps(s) = 2 * Len(coming[s]) - 1
           /\ s \notin begun => Steps(s) = 2 * Len(coming[s])
  <1>1. coming[s] \in Seq(Messages) /\ taken[s] \in Nat
    BY DEF TypeOK
  <1>2. Len(coming[s]) \in Nat
    BY <1>1, LenProperties
  <1>3. s \in begun => Steps(s) = 2 * Len(coming[s]) - 1
    BY DEF Steps
  <1>4. ASSUME s \notin begun PROVE Steps(s) = 2 * Len(coming[s])
    <2>1. Steps(s) = 2 * Len(coming[s]) - 0
      BY <1>4 DEF Steps
    <2> QED BY <1>2, <2>1
  <1> QED BY <1>1, <1>2, <1>3, <1>4

LEMMA OnReadKeeps ==
    ASSUME ClientInvariant, NEW s \in Sockets, OnRead(s) PROVE ClientInvariant'
  <1>1. /\ TypeOK /\ ParsedHasArrived
        /\ UNCHANGED <<userVars, socketVars, netVars, requests, peerVars, fired>>
        /\ UNCHANGED <<begun, parsing, client, coming, requests>>
        /\ expected' = [expected EXCEPT ![s] = requests[s]]
        /\ reading' = s /\ split' = (s \in begun)
    BY DEF OnRead, ClientInvariant, Structure, peerVars
  <1>2. PICK n \in taken[s]+1 .. Steps(s) : taken' = [taken EXCEPT ![s] = n]
    BY DEF OnRead
  <1>3. n \in Nat /\ n <= Steps(s)
    BY <1>1, StepsAreNumbers
  <1>4. TypeOK'
    <2>1. taken' \in [Sockets -> Nat] /\ expected' \in [Sockets -> Seq(Clients)]
      BY <1>1, <1>2, <1>3 DEF TypeOK
    <2>2. split' \in BOOLEAN /\ reading' \in Sockets \cup {None}
      BY <1>1
    <2> QED BY <1>1, <2>1, <2>2 DEF TypeOK, userVars, socketVars, netVars, peerVars
  <1>5. ParsedHasArrived'
    <2>1. \A t \in Sockets : taken'[t] <= Steps(t)
      BY <1>1, <1>2, <1>3 DEF TypeOK, ParsedHasArrived
    <2> QED BY <1>1, <2>1 DEF ParsedHasArrived, Steps
  <1> QED BY <1>1, <1>4, <1>5, ParserMoves

LEMMA MessageStartsKeeps ==
    ASSUME ClientInvariant, MessageStarts PROVE ClientInvariant'
  <1>1. TypeOK /\ ParsedHasArrived
    BY DEF ClientInvariant, Structure
  <1>2. PICK s \in Sockets \ begun :
          /\ taken[s] > 0 /\ taken' = [taken EXCEPT ![s] = @ - 1]
          /\ begun' = begun \cup {s}
          /\ \/ /\ expected[s] # <<>>
                /\ parsing' = [parsing EXCEPT ![s] = Head(expected[s])]
                /\ expected' = [expected EXCEPT ![s] = Tail(@)]
                /\ UNCHANGED readVars
             \/ StopReading /\ UNCHANGED <<parsing, expected>>
          /\ UNCHANGED <<userVars, socketVars, netVars, requests, peerVars, fired>>
    BY DEF MessageStarts, Parse
  <1>3. /\ taken[s] \in Nat \ {0} /\ taken' \in [Sockets -> Nat]
        /\ taken'[s] = taken[s] - 1 /\ \A t \in Sockets \ {s} : taken'[t] = taken[t]
    <2>1. taken \in [Sockets -> Nat]
      BY <1>1 DEF TypeOK
    <2>2. taken[s] \in Nat \ {0} /\ taken[s] - 1 \in Nat
      BY <1>2, <2>1
    <2> QED BY <1>2, <2>1, <2>2
  <1>4. /\ expected' \in [Sockets -> Seq(Clients)]
        /\ parsing' \in [Sockets -> Clients \cup {Nobody}]
        /\ reading' \in Sockets \cup {None} /\ split' \in BOOLEAN
        /\ client' \in {client, Nobody}
    <2>1. expected[s] \in Seq(Clients)
      BY <1>1 DEF TypeOK
    <2>2. expected[s] # <<>> => Head(expected[s]) \in Clients /\ Tail(expected[s]) \in Seq(Clients)
      BY <2>1, TailElements
    <2>3. /\ expected' \in [Sockets -> Seq(Clients)]
          /\ parsing' \in [Sockets -> Clients \cup {Nobody}]
      <3>1. /\ expected \in [Sockets -> Seq(Clients)]
            /\ parsing \in [Sockets -> Clients \cup {Nobody}]
        BY <1>1 DEF TypeOK
      <3>2. \/ /\ expected[s] # <<>>
               /\ parsing' = [parsing EXCEPT ![s] = Head(expected[s])]
               /\ expected' = [expected EXCEPT ![s] = Tail(@)]
            \/ parsing' = parsing /\ expected' = expected
        BY <1>2
      <3>3. CASE expected' = expected
        BY <3>1, <3>2, <3>3, <2>2
      <3>4. CASE expected' # expected
        BY <3>1, <3>2, <3>4, <2>2
      <3> QED BY <3>3, <3>4
    <2>4. \/ UNCHANGED <<reading, split, client>>
          \/ reading' = None /\ split' = FALSE /\ client' = Nobody
      BY <1>2 DEF readVars, StopReading
    <2>5. reading \in Sockets \cup {None} /\ split \in BOOLEAN
      BY <1>1 DEF TypeOK
    <2>6. split' \in BOOLEAN
      BY <2>4, <2>5
    <2>7. reading' \in {reading, None} /\ client' \in {client, Nobody}
      BY <2>4
    <2>8. reading' \in Sockets \cup {None}
      BY <2>5, <2>7
    <2> QED BY <2>3, <2>6, <2>7, <2>8
  <1>5. TypeOK'
    <2>1. begun' \subseteq Sockets /\ client' \in Clients \cup {Nobody}
      BY <1>1, <1>2, <1>4 DEF TypeOK
    <2> QED BY <1>1, <1>2, <1>3, <1>4, <2>1 DEF TypeOK, userVars, socketVars, netVars, peerVars
  <1>6. ParsedHasArrived'
    <2>1. UNCHANGED coming
      BY <1>2 DEF peerVars
    <2>2. coming[s] # <<>> /\ taken'[s] <= Steps(s)'
      <3>1. taken[s] <= 2 * Len(coming[s]) /\ Len(coming[s]) \in Nat
        BY <1>1, <1>2, StepsAreNumbers DEF ParsedHasArrived
      <3>2. Len(coming[s]) # 0
        BY <1>3, <3>1
      <3>3. Steps(s)' = 2 * Len(coming[s]) - 1
        BY <1>2, <2>1 DEF Steps
      <3> QED BY <1>3, <3>1, <3>2, <3>3
    <2>3. \A t \in Sockets \ {s} : taken'[t] <= Steps(t)'
      BY <1>1, <1>2, <1>3, <2>1 DEF ParsedHasArrived, Steps
    <2> QED BY <1>1, <1>2, <2>1, <2>2, <2>3 DEF ParsedHasArrived
  <1> QED BY <1>2, <1>4, <1>5, <1>6, ParserMoves

LEMMA ReadEndsKeeps == ASSUME ClientInvariant, ReadEnds PROVE ClientInvariant'
  <1>1. /\ reading' = None /\ split' = FALSE /\ client' = Nobody
        /\ UNCHANGED <<userVars, socketVars, netVars, requests, peerVars, fired>>
        /\ UNCHANGED <<expected, parsing, begun, taken, coming>>
    BY DEF ReadEnds, StopReading, parserVars, peerVars
  <1>2. TypeOK'
    BY <1>1 DEF ClientInvariant, TypeOK, userVars, socketVars, netVars, peerVars
  <1>3. ParsedHasArrived'
    BY <1>1 DEF ClientInvariant, Structure, ParsedHasArrived, Steps
  <1> QED BY <1>1, <1>2, <1>3, ParserMoves

LEMMA OnResponseKeeps == ASSUME ClientInvariant, OnResponse PROVE ClientInvariant'
  <1>1. /\ TypeOK /\ Structure /\ fired # <<>> /\ fired' = Tail(fired)
        /\ stage' = [stage EXCEPT ![Head(fired).client] = IF @ = "sent" THEN "idle" ELSE @]
        /\ closing' = IF Head(fired).close
                      THEN closing \cup {socket[Head(fired).client]} ELSE closing
        /\ UNCHANGED <<asked, socket, made, socket_map, link, announced, requests, todo,
                       coming, extra, expected, parsing, begun, taken, reading, split,
                       client>>
    BY DEF OnResponse, ClientInvariant, socketVars, peerVars, parserVars, readVars
  <1>2. /\ Len(fired) \in Nat \ {0} /\ fired[1] = Head(fired)
        /\ Tail(fired) \in Seq(Responses) /\ Len(Tail(fired)) = Len(fired) - 1
        /\ \A i \in 1..Len(Tail(fired)) : Tail(fired)[i] = fired[i+1]
    <2>1. fired \in Seq(Responses)
      BY <1>1 DEF TypeOK
    <2> QED BY <1>1, <2>1, TailElements
  <1>3. PICK c \in Clients : c = Head(fired).client /\ HasSettled(c)
    <2>1. Head(fired).client \in Clients
      BY <1>1, <1>2, QueuedAreClients
    <2> QED BY <1>1, <1>2, <2>1 DEF Structure, ResponsesKeepSockets
  <1>4. socket[c] \in Sockets /\ Settled(socket[c])
    BY <1>1, <1>3 DEF TypeOK, HasSettled
  <1>5. stage' = [stage EXCEPT ![c] = IF @ = "sent" THEN "idle" ELSE @]
    BY <1>1, <1>3
  <1>6. closing' \subseteq closing \cup {socket[c]}
    BY <1>1, <1>3
  <1>7. TypeOK'
    <2>1. stage' \in [Clients -> {"idle", "connect", "result", "wait", "sent"}]
      BY <1>1, <1>5 DEF TypeOK
    <2>2. closing' \subseteq Sockets /\ fired' \in Seq(Responses)
      BY <1>1, <1>2, <1>4, <1>6 DEF TypeOK
    <2> QED BY <1>1, <2>1, <2>2 DEF TypeOK
  <1>8. NewSockets' /\ ParsedHasArrived' /\ RequestsKeepSockets'
    BY <1>1 DEF Structure, NewSockets, ParsedHasArrived, Steps, RequestsKeepSockets
  <1>9. SettledFirst'
    BY <1>1, <1>4, <1>6 DEF Structure, SettledFirst, Settled
  <1>10. StagesKeepSockets'
    <2>1. \A d \in Clients : stage'[d] = stage[d] \/ (stage[d] = "sent" /\ stage'[d] = "idle")
      BY <1>1, <1>5 DEF TypeOK
    <2> QED BY <1>1, <2>1 DEF Structure, StagesKeepSockets, HasSettled, Settled
  <1>11. ASSUME NEW i \in 1..Len(fired') PROVE i + 1 \in 1..Len(fired) /\ fired'[i] = fired[i+1]
    BY <1>1, <1>2
  <1>12. ResponsesKeepSockets'
    BY <1>1, <1>11 DEF Structure, ResponsesKeepSockets, HasSettled, Settled
  <1>13. OwnResponse'
    BY <1>1, <1>11 DEF ClientInvariant, OwnResponse
  <1>14. PipelineMirrored'
    BY <1>1 DEF ClientInvariant, PipelineMirrored, Mirrored
  <1> QED BY <1>7, <1>8, <1>9, <1>10, <1>12, <1>13, <1>14 DEF ClientInvariant, Structure

\* What MessageEnds does to the sockets and the messages, without the choice of
\* the client: the head of what has come goes.
LEMMA MessageGoes ==
    ASSUME ClientInvariant, NEW s \in begun, taken[s] > 0,
           taken' = [taken EXCEPT ![s] = @ - 1], begun' = begun \ {s},
           coming' = [coming EXCEPT ![s] = Tail(@)]
    PROVE  /\ s \in Sockets /\ Settled(s)
           /\ Len(coming[s]) \in Nat \ {0} /\ Head(coming[s]) \in Messages
           /\ Head(coming[s]) = coming[s][1]
           /\ Len(coming'[s]) = Len(coming[s]) - 1
           /\ \A i \in 1..Len(coming'[s]) : coming'[s][i] = coming[s][i+1]
           /\ \A t \in Sockets \ {s} : coming'[t] = coming[t]
           /\ coming' \in [Sockets -> Seq(Messages)] /\ taken' \in [Sockets -> Nat]
           /\ ParsedHasArrived'
  <1>1. TypeOK /\ ParsedHasArrived
    BY DEF ClientInvariant, Structure
  <1>2. s \in Sockets /\ coming[s] # <<>> /\ coming[s] \in Seq(Messages)
    BY <1>1 DEF TypeOK, ParsedHasArrived
  <1>3. /\ Len(coming[s]) \in Nat \ {0} /\ coming[s][1] = Head(coming[s])
        /\ Head(coming[s]) \in Messages
        /\ Tail(coming[s]) \in Seq(Messages) /\ Len(Tail(coming[s])) = Len(coming[s]) - 1
        /\ \A i \in 1..Len(Tail(coming[s])) : Tail(coming[s])[i] = coming[s][i+1]
    BY <1>2, TailElements
  <1>4. /\ coming'[s] = Tail(coming[s])
        /\ \A t \in Sockets \ {s} : coming'[t] = coming[t]
        /\ coming' \in [Sockets -> Seq(Messages)]
    BY <1>1, <1>2, <1>3 DEF TypeOK
  <1>5. /\ taken' \in [Sockets -> Nat] /\ taken'[s] = taken[s] - 1
        /\ \A t \in Sockets \ {s} : taken'[t] = taken[t]
    <2>1. taken \in [Sockets -> Nat]
      BY <1>1 DEF TypeOK
    <2>2. taken[s] - 1 \in Nat
      BY <1>2, <2>1
    <2> QED BY <1>2, <2>1, <2>2
  <1>6. ParsedHasArrived'
    <2>1. \A t \in begun' : coming'[t] # <<>>
      BY <1>1, <1>4 DEF TypeOK, ParsedHasArrived
    <2>2. \A t \in Sockets \ {s} : taken'[t] <= Steps(t)'
      BY <1>1, <1>4, <1>5 DEF ParsedHasArrived, Steps
    <2>3. taken'[s] <= Steps(s)'
      <3>1. taken[s] <= 2 * Len(coming[s]) - 1 /\ taken[s] \in Nat
        BY <1>1, <1>2, StepsAreNumbers DEF ParsedHasArrived
      <3>2. Steps(s)' = 2 * Len(coming'[s]) - 0
        BY DEF Steps
      <3> QED BY <1>3, <1>4, <1>5, <3>1, <3>2
    <2> QED BY <2>1, <2>2, <2>3 DEF ParsedHasArrived
  <1> QED BY <1>2, <1>3, <1>4, <1>5, <1>6, ComingIsSettled

\* The first element of a sequence goes.
LEMMA BehindTail ==
    ASSUME NEW S, NEW q \in Seq(S), NEW r \in Seq(S), NEW n \in Nat \ {0},
           q # <<>>, Behind(q, n, r)
    PROVE  Behind(Tail(q), n - 1, r)
  <1>1. /\ Len(Tail(q)) = Len(q) - 1
        /\ \A i \in 1..Len(Tail(q)) : Tail(q)[i] = q[i+1]
    BY TailElements
  <1>2. Len(r) \in Nat /\ Len(q) = n + Len(r) /\ \A i \in 1..Len(r) : q[n + i] = r[i]
    BY LenProperties DEF Behind
  <1>3. ASSUME NEW i \in 1..Len(r) PROVE Tail(q)[(n - 1) + i] = r[i]
    <2>1. (n - 1) + i \in 1..Len(Tail(q)) /\ ((n - 1) + i) + 1 = n + i
      BY <1>1, <1>2
    <2> QED BY <1>1, <1>2, <2>1
  <1> QED BY <1>1, <1>2, <1>3 DEF Behind

\* The head of the requests that wait goes with the response it is given.
LEMMA HeadsMatch ==
    ASSUME ClientInvariant, extra = 0, UNCHANGED <<extra, todo, link>>,
           NEW s \in begun, taken[s] > 0,
           taken' = [taken EXCEPT ![s] = @ - 1], begun' = begun \ {s},
           coming' = [coming EXCEPT ![s] = Tail(@)],
           requests' = [requests EXCEPT ![s] = Tail(@)]
    PROVE  /\ requests[s] # <<>> /\ Head(coming[s]).answers = Head(requests[s])
           /\ PipelineMirrored'
  <1>1. /\ s \in Sockets /\ Len(coming[s]) \in Nat \ {0}
        /\ Head(coming[s]) = coming[s][1]
        /\ Len(coming'[s]) = Len(coming[s]) - 1
        /\ \A i \in 1..Len(coming'[s]) : coming'[s][i] = coming[s][i+1]
        /\ \A t \in Sockets \ {s} : coming'[t] = coming[t]
    BY MessageGoes
  <1>2. \A t \in Sockets : Mirrored(t)
    BY DEF ClientInvariant, PipelineMirrored
  <1>3. requests \in [Sockets -> Seq(Clients)] /\ todo \in [Sockets -> Seq(Clients)]
    BY DEF ClientInvariant, TypeOK
  <1>4. requests[s] \in Seq(Clients) /\ todo[s] \in Seq(Clients) /\ requests[s] # <<>>
    <2>1. Len(requests[s]) # 0
      BY <1>1, <1>2, <1>3, LenProperties DEF Mirrored
    <2> QED BY <1>1, <1>3, <2>1
  <1>5. /\ Len(requests[s]) \in Nat \ {0} /\ requests[s][1] = Head(requests[s])
        /\ Len(Tail(requests[s])) = Len(requests[s]) - 1
        /\ \A i \in 1..Len(Tail(requests[s])) : Tail(requests[s])[i] = requests[s][i+1]
    BY <1>4, TailElements
  <1>6. /\ requests'[s] = Tail(requests[s])
        /\ \A t \in Sockets \ {s} : requests'[t] = requests[t]
    BY <1>1, <1>3
  <1>7. Head(coming[s]).answers = Head(requests[s])
    BY <1>1, <1>2, <1>5 DEF Mirrored
  <1>8. \A t \in Sockets \ {s} : Mirrored(t)'
    BY <1>1, <1>2, <1>6 DEF Mirrored
  <1>9. Mirrored(s)'
    <2>1. /\ Len(coming[s]) <= Len(requests[s])
          /\ \A i \in 1..Len(coming[s]) : coming[s][i].answers = requests[s][i]
      BY <1>1, <1>2 DEF Mirrored
    <2>2. /\ Len(requests'[s]) = Len(requests[s]) - 1
          /\ \A i \in 1..Len(requests'[s]) : requests'[s][i] = requests[s][i+1]
      BY <1>5, <1>6
    <2>3. Len(coming'[s]) <= Len(requests'[s])
      BY <1>1, <1>5, <2>1, <2>2
    <2>4. ASSUME NEW i \in 1..Len(coming'[s]) PROVE coming'[s][i].answers = requests'[s][i]
      <3>1. i \in 1..Len(requests'[s]) /\ i + 1 \in 1..Len(coming[s])
        BY <1>1, <1>5, <2>3, <2>2
      <3>2. coming'[s][i] = coming[s][i+1] /\ requests'[s][i] = requests[s][i+1]
        BY <1>1, <2>2, <3>1
      <3> QED BY <2>1, <3>1, <3>2
    <2>5. link'[s] = "open" => Behind(requests'[s], Len(coming'[s]), todo'[s])
      <3> SUFFICES ASSUME link[s] = "open"
                   PROVE  Behind(requests'[s], Len(coming'[s]), todo[s])
        OBVIOUS
      <3>1. Behind(requests[s], Len(coming[s]), todo[s])
        BY <1>1, <1>2 DEF Mirrored
      <3>2. Behind(Tail(requests[s]), Len(coming[s]) - 1, todo[s])
        BY <1>1, <1>4, <3>1, BehindTail
      <3> QED BY <1>1, <1>6, <3>2
    <2> QED BY <2>3, <2>4, <2>5 DEF Mirrored
  <1> QED BY <1>4, <1>7, <1>8, <1>9 DEF PipelineMirrored

\* A response is handed to a client whose connection is settled.
LEMMA DeliverKeeps ==
    ASSUME ClientInvariant, NEW s \in Sockets, NEW c \in Clients, Deliver(s, c),
           Head(coming[s]) \in Messages, HasSettled(c), client' = c,
           UNCHANGED <<socket, link, extra>>
    PROVE  /\ fired' \in Seq(Responses) /\ ResponsesKeepSockets'
           /\ (extra = 0 => Head(coming[s]).answers = c) => OwnResponse'
  <1> DEFINE r == [client |-> c, answers |-> Head(coming[s]).answers,
                   close |-> Head(coming[s]).close, parsed |-> parsing[s], split |-> split]
  <1>1. fired' = Append(fired, r)
    BY DEF Deliver
  <1>2. r \in Responses /\ r.client = c /\ r.answers = Head(coming[s]).answers
    <2>1. /\ Head(coming[s]).answers \in Clients \cup {Nobody}
          /\ Head(coming[s]).close \in BOOLEAN
      BY DEF Messages
    <2>2. parsing[s] \in Clients \cup {Nobody} /\ split \in BOOLEAN
      BY DEF ClientInvariant, TypeOK
    <2> QED BY <2>1, <2>2 DEF Responses
  <1> HIDE DEF r
  <1>3. fired \in Seq(Responses) /\ ResponsesKeepSockets /\ OwnResponse
    BY DEF ClientInvariant, Structure, TypeOK
  <1>4. /\ fired' \in Seq(Responses) /\ Len(fired) \in Nat /\ Len(fired') = Len(fired) + 1
        /\ \A i \in 1..Len(fired) : fired'[i] = fired[i]
        /\ fired'[Len(fired) + 1] = r
    BY <1>1, <1>2, <1>3, AppendElements
  <1>5. ASSUME NEW i \in 1..Len(fired')
        PROVE  (i \in 1..Len(fired) /\ fired'[i] = fired[i]) \/ fired'[i] = r
    BY <1>4
  <1>6. ResponsesKeepSockets'
    <2>1. \A d \in Clients : HasSettled(d) => HasSettled(d)'
      BY DEF HasSettled, Settled
    <2> QED BY <1>2, <1>3, <1>5, <2>1 DEF ResponsesKeepSockets, HasSettled, Settled
  <1>7. ASSUME extra = 0 => Head(coming[s]).answers = c PROVE OwnResponse'
    BY <1>2, <1>3, <1>5, <1>7 DEF OwnResponse
  <1> QED BY <1>4, <1>6, <1>7

LEMMA MessageEndsKeeps == ASSUME ClientInvariant, MessageEnds PROVE ClientInvariant'
  <1>1. PICK s \in begun :
          /\ taken[s] > 0 /\ taken' = [taken EXCEPT ![s] = @ - 1]
          /\ begun' = begun \ {s}
          /\ coming' = [coming EXCEPT ![s] = Tail(@)]
          /\ parsing' = [parsing EXCEPT ![s] = Nobody]
          /\ \/ /\ requests[s] # <<>>
                /\ client' = Head(requests[s])
                /\ requests' = [requests EXCEPT ![s] = Tail(@)]
                /\ Deliver(s, Head(requests[s]))
                /\ UNCHANGED <<reading, split>>
             \/ /\ requests[s] = <<>> /\ client # Nobody
                /\ Deliver(s, client)
                /\ UNCHANGED <<requests, readVars>>
             \/ /\ requests[s] = <<>> /\ client = Nobody
                /\ StopReading
                /\ UNCHANGED <<requests, fired>>
          /\ UNCHANGED <<userVars, socketVars, netVars, todo, extra, expected>>
    BY DEF MessageEnds, Parse
  <1>2. /\ TypeOK /\ Structure
        /\ UNCHANGED <<stage, asked, socket, made, socket_map, link, announced, closing>>
        /\ UNCHANGED <<todo, extra, expected>>
    BY <1>1 DEF userVars, socketVars, netVars, ClientInvariant
  <1>3. /\ s \in Sockets /\ Settled(s) /\ Head(coming[s]) \in Messages
        /\ coming' \in [Sockets -> Seq(Messages)] /\ taken' \in [Sockets -> Nat]
        /\ \A t \in Sockets \ {s} : coming'[t] = coming[t]
        /\ ParsedHasArrived'
    BY <1>1, MessageGoes
  <1>4. NewSockets' /\ StagesKeepSockets'
    BY <1>2 DEF Structure, NewSockets, StagesKeepSockets, HasSettled, Settled
  <1>5. begun' \subseteq Sockets /\ parsing' \in [Sockets -> Clients \cup {Nobody}]
    BY <1>1, <1>2 DEF TypeOK
  <1>6. CASE /\ requests[s] # <<>> /\ client' = Head(requests[s])
             /\ requests' = [requests EXCEPT ![s] = Tail(@)]
             /\ Deliver(s, Head(requests[s]))
             /\ UNCHANGED <<reading, split>>
    <2>1. requests \in [Sockets -> Seq(Clients)] /\ requests[s] \in Seq(Clients)
      BY <1>2, <1>3 DEF TypeOK
    <2>2. /\ Len(requests[s]) \in Nat \ {0}
          /\ requests[s][1] = Head(requests[s]) /\ Head(requests[s]) \in Clients
          /\ Tail(requests[s]) \in Seq(Clients)
          /\ Len(Tail(requests[s])) = Len(requests[s]) - 1
          /\ \A i \in 1..Len(Tail(requests[s])) : Tail(requests[s])[i] = requests[s][i+1]
      BY <1>6, <2>1, TailElements
    <2>3. /\ requests' \in [Sockets -> Seq(Clients)] /\ requests'[s] = Tail(requests[s])
          /\ \A t \in Sockets \ {s} : requests'[t] = requests[t]
      BY <1>3, <1>6, <2>1, <2>2
    <2>4. HasSettled(Head(requests[s]))
      <3>1. socket[Head(requests[s])] = s
        BY <1>2, <1>3, <2>2 DEF Structure, RequestsKeepSockets
      <3> QED BY <1>3, <3>1, SocketsAreNumbers DEF HasSettled
    <2>5. /\ fired' \in Seq(Responses) /\ ResponsesKeepSockets'
          /\ (extra = 0 => Head(coming[s]).answers = Head(requests[s])) => OwnResponse'
      BY <1>2, <1>3, <1>6, <2>2, <2>4, DeliverKeeps
    <2>6. OwnResponse' /\ PipelineMirrored'
      <3>1. CASE extra = 0
        BY <1>1, <1>2, <1>6, <2>5, <3>1, HeadsMatch
      <3>2. CASE extra # 0
        BY <1>2, <3>2 DEF OwnResponse, PipelineMirrored
      <3> QED BY <3>1, <3>2
    <2>7. TypeOK'
      BY <1>2, <1>3, <1>5, <1>6, <2>2, <2>3, <2>5 DEF TypeOK
    <2>8. SettledFirst'
      BY <1>2, <1>3, <2>3 DEF Structure, SettledFirst, Settled
    <2>9. RequestsKeepSockets'
      <3>1. ASSUME NEW i \in 1..Len(requests'[s]) PROVE socket[requests'[s][i]] = s
        <4>1. i + 1 \in 1..Len(requests[s]) /\ requests'[s][i] = requests[s][i+1]
          BY <2>2, <2>3
        <4> QED BY <1>2, <1>3, <4>1 DEF Structure, RequestsKeepSockets
      <3> QED BY <1>2, <2>3, <3>1 DEF Structure, RequestsKeepSockets
    <2> QED BY <1>3, <1>4, <2>5, <2>6, <2>7, <2>8, <2>9 DEF ClientInvariant, Structure
  <1>7. ASSUME requests[s] = <<>>, UNCHANGED requests,
               fired' \in Seq(Responses), ResponsesKeepSockets',
               extra = 0 => FALSE,
               reading' \in Sockets \cup {None}, split' \in BOOLEAN,
               client' \in Clients \cup {Nobody}
        PROVE  ClientInvariant'
    <2>1. TypeOK'
      BY <1>2, <1>3, <1>5, <1>7 DEF TypeOK
    <2>2. SettledFirst' /\ RequestsKeepSockets'
      BY <1>2, <1>3, <1>7 DEF Structure, SettledFirst, Settled, RequestsKeepSockets
    <2>3. PipelineMirrored' /\ OwnResponse'
      BY <1>2, <1>7 DEF PipelineMirrored, OwnResponse
    <2> QED BY <1>3, <1>4, <1>7, <2>1, <2>2, <2>3 DEF ClientInvariant, Structure
  <1>8. extra = 0 => requests[s] # <<>>
    <2> SUFFICES ASSUME extra = 0 PROVE requests[s] # <<>>
      OBVIOUS
    <2>1. Len(coming[s]) \in Nat \ {0} /\ Len(coming[s]) <= Len(requests[s])
      BY <1>1, <1>3, MessageGoes DEF ClientInvariant, PipelineMirrored, Mirrored
    <2>2. Len(requests[s]) # 0
      BY <1>2, <1>3, <2>1, LenProperties DEF TypeOK
    <2> QED BY <2>2
  <1>9. CASE /\ requests[s] = <<>> /\ client # Nobody
             /\ Deliver(s, client)
             /\ UNCHANGED <<requests, readVars>>
    <2>1. UNCHANGED <<reading, split, client>> /\ client \in Clients /\ HasSettled(client)
      BY <1>2, <1>9 DEF readVars, TypeOK, Structure, ResponsesKeepSockets
    <2>2. fired' \in Seq(Responses) /\ ResponsesKeepSockets'
      BY <1>2, <1>3, <1>9, <2>1, DeliverKeeps
    <2>3. reading' \in Sockets \cup {None} /\ split' \in BOOLEAN
          /\ client' \in Clients \cup {Nobody}
      BY <1>2, <2>1 DEF TypeOK
    <2> QED BY <1>7, <1>8, <1>9, <2>2, <2>3
  <1>10. CASE /\ requests[s] = <<>> /\ client = Nobody
              /\ StopReading
              /\ UNCHANGED <<requests, fired>>
    <2>1. reading' = None /\ split' = FALSE /\ client' = Nobody
      BY <1>10 DEF StopReading
    <2>2. fired' \in Seq(Responses) /\ ResponsesKeepSockets'
      BY <1>2, <1>10, <2>1 DEF TypeOK, Structure, ResponsesKeepSockets, HasSettled, Settled
    <2> QED BY <1>7, <1>8, <1>10, <2>1, <2>2
  <1> QED BY <1>1, <1>6, <1>9, <1>10

-----------------------------------------------------------------------------
(* The theorems *)

LEMMA ClientInit == Init => ClientInvariant
  <1> SUFFICES ASSUME Init PROVE ClientInvariant
    OBVIOUS
  <1>1. /\ \A S : <<>> \in Seq(S)
        /\ Len(<<>>) = 0
    BY EmptySeq
  <1>2. TypeOK
    <2>1. /\ 0 \in 0..MaxAsks /\ 0 \in 0..MaxSockets /\ 0 \in 0..MaxExtra /\ 0 \in Nat
      BY ClientAssumption
    <2>2. /\ <<>> \in Seq(Clients) /\ <<>> \in Seq(Messages) /\ <<>> \in Seq(Responses)
      BY <1>1
    <2> QED BY <2>1, <2>2 DEF Init, TypeOK
  <1>3. NewSockets /\ SettledFirst /\ ParsedHasArrived
    <2>1. \A s \in Sockets : Steps(s) = 2 * 0 - 0
      BY <1>1 DEF Init, Steps
    <2> QED BY <2>1 DEF Init, NewSockets, SettledFirst, Settled, ParsedHasArrived
  <1>4. StagesKeepSockets /\ RequestsKeepSockets /\ ResponsesKeepSockets
    BY <1>1 DEF Init, StagesKeepSockets, RequestsKeepSockets, ResponsesKeepSockets
  <1>5. PipelineMirrored /\ OwnResponse
    BY <1>1 DEF Init, PipelineMirrored, Mirrored, OwnResponse
  <1> QED BY <1>2, <1>3, <1>4, <1>5 DEF ClientInvariant, Structure

LEMMA ClientStutter == ClientInvariant /\ UNCHANGED vars => ClientInvariant'
  <1> SUFFICES ASSUME ClientInvariant, UNCHANGED vars PROVE ClientInvariant'
    OBVIOUS
  <1>1. UNCHANGED <<userVars, socketVars, netVars, requests, peerVars, parserVars,
                    readVars, fired>>
    BY DEF vars
  <1>2. TypeOK' /\ ParsedHasArrived'
    BY <1>1 DEF ClientInvariant, Structure, TypeOK, ParsedHasArrived, Steps, userVars,
       socketVars, netVars, peerVars, parserVars, readVars
  <1> QED BY <1>1, <1>2, ParserMoves DEF readVars

\* However the requests of any number of clients share connections, and however
\* these fail and their data is cut, the books of the client are in order.
THEOREM ClientIsSound == Spec => []ClientInvariant
  <1>1. ASSUME ClientInvariant, [Next]_vars PROVE ClientInvariant'
    <2>1. CASE Handlers
      BY <1>1, <2>1, OnConnectKeeps, OnConnectDoneKeeps, OnConnectedKeeps,
         MessageStartsKeeps, MessageEndsKeeps, ReadEndsKeeps, OnResponseKeeps DEF Handlers
    <2>2. CASE Environment
      BY <1>1, <2>2, OnRequestKeeps, AnswerUnaskedKeeps, SeveredKeeps DEF Environment
    <2>3. CASE \E s \in Sockets : Established(s) \/ Answer(s) \/ OnRead(s)
      BY <1>1, <2>3, EstablishedKeeps, AnswerKeeps, OnReadKeeps
    <2>4. CASE UNCHANGED vars
      BY <1>1, <2>4, ClientStutter
    <2> QED BY <1>1, <2>1, <2>2, <2>3, <2>4 DEF Next
  <1> QED BY <1>1, ClientInit, PTL DEF Spec

\* As long as no server sends a response unasked, every client is given the
\* response to its own request: client.py:96 takes the right one from the list.
THEOREM EachItsOwnResponse == Spec => []OwnResponse
  <1>1. ClientInvariant => OwnResponse
    BY DEF ClientInvariant
  <1> QED BY <1>1, ClientIsSound, PTL

-----------------------------------------------------------------------------
(* The parser knows what it parses *)

\* While a read that began between two responses runs, the parser and the list
\* of the requests that wait are in step: they differ by the response that has
\* begun, which is that of the first request.
ReadInStep ==
    (extra = 0 /\ reading # None /\ ~split) =>
        IF reading \in begun
        THEN /\ requests[reading] # <<>>
             /\ parsing[reading] = Head(requests[reading])
             /\ expected[reading] = Tail(requests[reading])
        ELSE expected[reading] = requests[reading]

ParserInvariant == ReadInStep /\ ParsedForOwnRequest

\* Between two reads there is nothing to say of the parser.
LEMMA ParserRests ==
    ASSUME ClientInvariant, ParserInvariant, reading' = None,
           extra' = 0 => extra = 0, fired' = fired
    PROVE  ParserInvariant'
  BY DEF ParserInvariant, ReadInStep, ParsedForOwnRequest

\* Every step outside _on_read leaves the responses alone that are on their way.
LEMMA OutsideKeepsParser ==
    ASSUME ClientInvariant, ParserInvariant,
           \/ \E c \in Clients : OnConnect(c) \/ OnConnectDone(c) \/ OnRequest(c)
           \/ \E s \in Sockets : \/ OnConnected(s) \/ Established(s) \/ Severed(s)
                                 \/ Answer(s) \/ AnswerUnasked(s)
           \/ ReadEnds
    PROVE  ParserInvariant'
  <1>1. TypeOK
    BY DEF ClientInvariant
  <1>2. reading' = None /\ fired' = fired /\ (extra' = 0 => extra = 0)
    <2>1. ASSUME NEW c \in Clients, OnConnect(c) \/ OnConnectDone(c) \/ OnRequest(c)
          PROVE  reading' = None /\ fired' = fired /\ extra' = extra
      BY <2>1 DEF OnConnect, OnConnectDone, OnRequest, NoRead, readVars, peerVars
    <2>2. ASSUME NEW s \in Sockets,
                 OnConnected(s) \/ Established(s) \/ Severed(s) \/ Answer(s)
          PROVE  reading' = None /\ fired' = fired /\ extra' = extra
      BY <2>2 DEF OnConnected, Established, Severed, Answer, NoRead, readVars, peerVars
    <2>3. ASSUME NEW s \in Sockets, AnswerUnasked(s)
          PROVE  reading' = None /\ fired' = fired /\ extra' = extra + 1 /\ extra \in Nat
      BY <1>1, <2>3, ClientAssumption DEF AnswerUnasked, NoRead, readVars, TypeOK
    <2>4. ASSUME ReadEnds PROVE reading' = None /\ fired' = fired /\ extra' = extra
      BY <2>4 DEF ReadEnds, StopReading, peerVars
    <2> QED BY <2>1, <2>2, <2>3, <2>4
  <1> QED BY <1>2, ParserRests

\* A read tells the parser anew which requests wait.
LEMMA OnReadKeepsParser ==
    ASSUME ClientInvariant, ParserInvariant, NEW s \in Sockets, OnRead(s)
    PROVE  ParserInvariant'
  <1>1. /\ expected' = [expected EXCEPT ![s] = requests[s]]
        /\ reading' = s /\ split' = (s \in begun)
        /\ UNCHANGED <<requests, begun, extra, fired>>
    BY DEF OnRead, peerVars
  <1>2. expected'[s] = requests'[s]
    BY <1>1 DEF ClientInvariant, TypeOK
  <1> QED BY <1>1, <1>2 DEF ParserInvariant, ReadInStep, ParsedForOwnRequest

\* The parser begins the response to the first request that waits.
LEMMA MessageStartsKeepsParser ==
    ASSUME ClientInvariant, ParserInvariant, MessageStarts PROVE ParserInvariant'
  <1>1. PICK s \in Sockets \ begun :
          /\ reading = s /\ begun' = begun \cup {s}
          /\ \/ /\ expected[s] # <<>>
                /\ parsing' = [parsing EXCEPT ![s] = Head(expected[s])]
                /\ expected' = [expected EXCEPT ![s] = Tail(@)]
                /\ UNCHANGED readVars
             \/ /\ expected[s] = <<>>
                /\ StopReading
          /\ UNCHANGED <<requests, peerVars, fired>>
    BY DEF MessageStarts, Parse
  <1>2. UNCHANGED <<requests, extra, fired>>
    BY <1>1 DEF peerVars
  <1>3. CASE StopReading
    BY <1>2, <1>3, ParserRests DEF StopReading
  <1>4. CASE /\ expected[s] # <<>>
             /\ parsing' = [parsing EXCEPT ![s] = Head(expected[s])]
             /\ expected' = [expected EXCEPT ![s] = Tail(@)]
             /\ UNCHANGED readVars
    <2>1. parsing'[s] = Head(expected[s]) /\ expected'[s] = Tail(expected[s])
      BY <1>4 DEF ClientInvariant, TypeOK
    <2>2. reading' = s /\ split' = split /\ s \in begun' /\ s \notin begun
      BY <1>1, <1>4 DEF readVars
    <2>3. ReadInStep'
      BY <1>1, <1>2, <1>4, <2>1, <2>2 DEF ParserInvariant, ReadInStep
    <2> QED BY <1>2, <2>3 DEF ParserInvariant, ParsedForOwnRequest
  <1> QED BY <1>1, <1>3, <1>4

\* It ends it while that request is still the first; with no response unasked
\* there is a request for every response.
LEMMA MessageEndsKeepsParser ==
    ASSUME ClientInvariant, ParserInvariant, MessageEnds PROVE ParserInvariant'
  <1>1. PICK s \in begun :
          /\ reading = s /\ begun' = begun \ {s}
          /\ parsing' = [parsing EXCEPT ![s] = Nobody]
          /\ \/ /\ requests[s] # <<>>
                /\ requests' = [requests EXCEPT ![s] = Tail(@)]
                /\ Deliver(s, Head(requests[s]))
                /\ UNCHANGED <<reading, split>>
             \/ /\ requests[s] = <<>>
          /\ UNCHANGED <<extra, expected>>
    BY DEF MessageEnds, Parse
  <1>2. TypeOK /\ s \in Sockets /\ coming[s] # <<>>
    BY <1>1 DEF ClientInvariant, Structure, ParsedHasArrived, TypeOK
  <1>3. SUFFICES ASSUME extra = 0 PROVE ParserInvariant'
    BY <1>1 DEF ParserInvariant, ReadInStep, ParsedForOwnRequest
  <1>4. requests[s] # <<>>
    <2>1. Len(coming[s]) <= Len(requests[s])
      BY <1>2, <1>3 DEF ClientInvariant, PipelineMirrored, Mirrored
    <2>2. coming[s] \in Seq(Messages) /\ requests[s] \in Seq(Clients)
      BY <1>2 DEF TypeOK
    <2>3. Len(coming[s]) \in Nat \ {0}
      BY <1>2, <2>2, TailElements
    <2> QED BY <2>1, <2>3, EmptySeq
  <1>5. /\ requests' = [requests EXCEPT ![s] = Tail(@)]
        /\ Deliver(s, Head(requests[s])) /\ UNCHANGED <<reading, split>>
    BY <1>1, <1>4
  <1>6. requests'[s] = Tail(requests[s])
    BY <1>2, <1>5 DEF TypeOK
  <1>7. ReadInStep'
    BY <1>1, <1>2, <1>3, <1>5, <1>6, SocketsAreNumbers DEF ParserInvariant, ReadInStep
  <1>8. ParsedForOwnRequest'
    <2> DEFINE r == [client |-> Head(requests[s]), answers |-> Head(coming[s]).answers,
                     close |-> Head(coming[s]).close, parsed |-> parsing[s], split |-> split]
    <2>1. fired' = Append(fired, r)
      BY <1>5 DEF Deliver
    <2>2. r.parsed = r.client \/ r.split
      BY <1>1, <1>2, <1>3, SocketsAreNumbers DEF ParserInvariant, ReadInStep, TypeOK
    <2> HIDE DEF r
    <2>3. fired \in Seq(Responses)
      BY <1>2 DEF TypeOK
    <2>4. /\ Len(fired) \in Nat /\ Len(fired') = Len(fired) + 1
          /\ \A i \in 1..Len(fired) : fired'[i] = fired[i]
          /\ fired'[Len(fired) + 1] = r
      BY <2>1, <2>3, AppendProperties, LenProperties
    <2>5. ASSUME NEW i \in 1..Len(fired')
          PROVE  (i \in 1..Len(fired) /\ fired'[i] = fired[i]) \/ fired'[i] = r
      BY <2>4
    <2> QED BY <1>3, <2>2, <2>5 DEF ParserInvariant, ParsedForOwnRequest
  <1> QED BY <1>7, <1>8 DEF ParserInvariant

LEMMA OnResponseKeepsParser ==
    ASSUME ClientInvariant, ParserInvariant, OnResponse PROVE ParserInvariant'
  <1>1. fired # <<>> /\ fired' = Tail(fired) /\ UNCHANGED extra /\ reading' = None
    BY DEF OnResponse, NoRead, peerVars, readVars
  <1>2. fired \in Seq(Responses)
    BY DEF ClientInvariant, TypeOK
  <1>3. ASSUME NEW i \in 1..Len(fired')
        PROVE  i + 1 \in 1..Len(fired) /\ fired'[i] = fired[i+1]
    BY <1>1, <1>2, TailElements
  <1> QED BY <1>1, <1>3 DEF ParserInvariant, ReadInStep, ParsedForOwnRequest

\* The method of a request decides whether its response has a body
\* (client.py:80 hands the parser the requests): as long as no read begins
\* within a response and no server sends one unasked, the parser has parsed
\* every response for the request whose client gets it.
THEOREM ParsedForTheRightRequest == Spec => []ParsedForOwnRequest
  <1>1. Init => ParserInvariant
    BY EmptySeq DEF Init, ParserInvariant, ReadInStep, ParsedForOwnRequest
  <1>2. ASSUME ClientInvariant, ParserInvariant, [Next]_vars PROVE ParserInvariant'
    <2>1. CASE UNCHANGED vars
      BY <1>2, <2>1 DEF vars, readVars, peerVars, parserVars, ParserInvariant, ReadInStep,
         ParsedForOwnRequest
    <2>2. CASE Handlers
      BY <1>2, <2>2, OutsideKeepsParser, MessageStartsKeepsParser,
         MessageEndsKeepsParser, OnResponseKeepsParser DEF Handlers
    <2>3. CASE Environment
      BY <1>2, <2>3, OutsideKeepsParser DEF Environment
    <2>4. CASE \E s \in Sockets : Established(s) \/ Answer(s) \/ OnRead(s)
      BY <1>2, <2>4, OutsideKeepsParser, OnReadKeepsParser
    <2> QED BY <1>2, <2>1, <2>2, <2>3, <2>4 DEF Next
  <1>3. ParserInvariant => ParsedForOwnRequest
    BY DEF ParserInvariant
  <1> QED BY <1>1, <1>2, <1>3, ClientIsSound, PTL DEF Spec

=============================================================================
