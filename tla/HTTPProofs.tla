----------------------------- MODULE HTTPProofs -----------------------------
(***************************************************************************)
(* The pipeline of HTTP is sound for all sockets, clients, peers and       *)
(* failures of foreign code: PipelineInvariant is inductive.               *)
(***************************************************************************)
EXTENDS HTTP, SequenceTheorems, TLAPS

-----------------------------------------------------------------------------
(* Types: every handler of HTTP keeps those of the state.  That an event  *)
(* about a client finds the connection of that client is an invariant of  *)
(* its own (QueueOwned and ClientsOwned).                                 *)

LEMMA ClientEventType ==
    ASSUME NEW n \in ClientEventNames, NEW c \in Clients
    PROVE  ClientEvent(n, c) \in Events
  BY DEF ClientEvent, Events, ClientEvents

LEMMA SocketEventType ==
    ASSUME NEW n \in SocketEventNames, NEW s \in Sockets
    PROVE  SocketEvent(n, s) \in Events
  BY DEF SocketEvent, Events, SocketEvents

\* Dispatching an event and firing others keeps the loop well typed.
LEMMA FireType ==
    ASSUME queue \in Seq(Events), batch \in 0..Len(queue),
           NEW n, Take(n), NEW es \in Seq(Events), Fire(es)
    PROVE  /\ queue' \in Seq(Events)
           /\ batch' \in 0..Len(queue')
  <1>1. queue # <<>> /\ batch' = batch - 1 /\ batch > 0
    BY DEF Take
  <1>2. Tail(queue) \in Seq(Events) /\ Len(Tail(queue)) = Len(queue) - 1
    BY <1>1, HeadTailProperties
  <1>3. queue' = Tail(queue) \o es
    BY DEF Fire
  <1>4. queue' \in Seq(Events) /\ Len(queue') = Len(Tail(queue)) + Len(es)
    BY <1>2, <1>3, ConcatProperties
  <1>5. Len(queue) \in Nat /\ Len(es) \in Nat
    BY LenProperties
  <1> QED BY <1>1, <1>2, <1>4, <1>5

LEMMA EnqueueType ==
    ASSUME queue \in Seq(Events), batch \in 0..Len(queue),
           NEW e \in Events, Enqueue(e)
    PROVE  /\ queue' \in Seq(Events)
           /\ batch' \in 0..Len(queue')
  BY AppendProperties, LenProperties DEF Enqueue

LEMMA WriteType ==
    ASSUME TypeOK, NEW s \in Sockets, NEW c \in Clients \cup {0},
           NEW p \in Parts, Write(s, c, p)
    PROVE  written' \in [Sockets -> Seq([client: Clients \cup {0}, part: Parts])]
  <1> DEFINE E == [client: Clients \cup {0}, part: Parts]
             e == [client |-> c, part |-> p]
  <1>1. written \in [Sockets -> Seq(E)]
    BY DEF TypeOK
  <1>2. Append(written[s], e) \in Seq(E)
    <2>1. e \in E
      OBVIOUS
    <2>2. written[s] \in Seq(E)
      BY <1>1
    <2> HIDE DEF E, e
    <2> QED BY <2>1, <2>2, AppendProperties
  <1>3. written' = written \/ written' = [written EXCEPT ![s] = Append(@, e)]
    BY DEF Write
  <1>a. DOMAIN written = Sockets
    BY <1>1
  <1> HIDE DEF E, e
  <1>4. written' \in [Sockets -> Seq(E)]
    BY <1>1, <1>2, <1>3
  <1> QED BY <1>4 DEF E

LEMMA LoseType ==
    ASSUME TypeOK, NEW s \in Sockets, UNCHANGED written \/ Lose(s)
    PROVE  written' \in [Sockets -> Seq([client: Clients \cup {0}, part: Parts])]
  <1> DEFINE E == [client: Clients \cup {0}, part: Parts]
  <1>1. written \in [Sockets -> Seq(E)]
    BY DEF TypeOK
  <1>2. ASSUME NEW n \in 0..Len(written[s]) PROVE SubSeq(written[s], 1, n) \in Seq(E)
    <2>1. PICK w \in Seq(E) : w = written[s]
      BY <1>1
    <2>2. Len(w) \in Nat /\ n \in Nat /\ n <= Len(w)
      BY <2>1, LenProperties
    <2>3. SubSeq(w, 1, n) \in Seq(E)
      <3> HIDE DEF E
      <3> QED BY <2>2, SubSeqProperties
    <2> QED BY <2>1, <2>3
  <1>3. UNCHANGED written \/ \E n \in 0..Len(written[s]) : written' = [written EXCEPT ![s] = SubSeq(@, 1, n)]
    BY DEF Lose
  <1> HIDE DEF E
  <1>4. written' \in [Sockets -> Seq(E)]
    BY <1>1, <1>2, <1>3
  <1> QED BY <1>4 DEF E

LEMMA RemoveStateType ==
    ASSUME TypeOK, NEW s \in Sockets, RemoveState(s)
    PROVE  /\ known' \subseteq Sockets
           /\ requests' \in [Sockets -> Seq(Clients)]
           /\ responses' \subseteq Clients
           /\ response_started' \subseteq Clients
           /\ composed' \subseteq Clients
           /\ tunnel' \in [Sockets -> BOOLEAN]
           /\ timeout' \in [Sockets -> BOOLEAN]
           /\ parser' \in [Sockets -> {"http", "alert"}]
  BY DEF TypeOK, RemoveState

LEMMA ReplyType ==
    /\ EmptyReply \in ReplySpace
    /\ ErrorReply \in ReplySpace
    /\ Replies \subseteq ReplySpace
    /\ MaxChunks \in Nat \ {0}
  <1>1. MaxChunks \in Nat \ {0} /\ Replies \subseteq ReplySpace
    BY ConstantsAssumption DEF ConstantsAssumption
  <1>2. 0 \in 0..MaxChunks /\ 1 \in 0..MaxChunks
    BY <1>1
  <1> QED BY <1>1, <1>2 DEF EmptyReply, ErrorReply, ReplySpace

LEMMA ReplyUpdate ==
    ASSUME TypeOK, NEW c \in Clients, NEW k \in 0..MaxChunks
    PROVE  [reply EXCEPT ![c].left = k] \in [Clients -> ReplySpace]
  <1>1. reply \in [Clients -> ReplySpace]
    BY DEF TypeOK
  <1>2. [reply[c] EXCEPT !.left = k] \in ReplySpace
    BY <1>1 DEF ReplySpace
  <1> QED BY <1>1, <1>2

LEMMA PrematureType ==
    ASSUME TypeOK, NEW c \in Clients, PrematureDisconnect(c)
    PROVE  reply' \in [Clients -> ReplySpace]
  <1>1. 0 \in 0..MaxChunks
    BY ReplyType
  <1> QED BY <1>1, ReplyUpdate DEF TypeOK, PrematureDisconnect

-----------------------------------------------------------------------------
(* Types *)

\* Most handlers fire at most one event: about a client, or about a connection.
LEMMA FireNone ==
    ASSUME TypeOK, NEW n, Take(n), Fire(<<>>)
    PROVE  queue' \in Seq(Events) /\ batch' \in 0..Len(queue')
  BY FireType, EmptySeq DEF TypeOK

LEMMA FireClientEvent ==
    ASSUME TypeOK, NEW n, Take(n),
           NEW m \in ClientEventNames, NEW c \in Clients, Fire(<<ClientEvent(m, c)>>)
    PROVE  queue' \in Seq(Events) /\ batch' \in 0..Len(queue')
  <1>1. <<ClientEvent(m, c)>> \in Seq(Events)
    BY ClientEventType
  <1> QED BY <1>1, FireType DEF TypeOK

LEMMA FireSocketEvent ==
    ASSUME TypeOK, NEW n, Take(n),
           NEW m \in SocketEventNames, NEW s \in Sockets, Fire(<<SocketEvent(m, s)>>)
    PROVE  queue' \in Seq(Events) /\ batch' \in 0..Len(queue')
  <1>1. <<SocketEvent(m, s)>> \in Seq(Events)
    BY SocketEventType
  <1> QED BY <1>1, FireType DEF TypeOK

LEMMA EnqueueTyped ==
    ASSUME TypeOK, NEW e \in Events, Enqueue(e)
    PROVE  queue' \in Seq(Events) /\ batch' \in 0..Len(queue')
  BY EnqueueType DEF TypeOK

LEMMA FaultType ==
    ASSUME TypeOK, NEW p, Fault(p)
    PROVE  faults' \in 0..MaxFaults
  BY ConstantsAssumption DEF ConstantsAssumption, TypeOK, Fault

LEMMA EnvironmentTypeOK == TypeOK /\ Environment => TypeOK'
  <1> SUFFICES ASSUME TypeOK, Environment PROVE TypeOK'
    OBVIOUS
  <1>1. ASSUME NEW s \in Sockets, Accept(s) PROVE TypeOK'
    <2>1. queue' \in Seq(Events) /\ batch' \in 0..Len(queue')
      BY <1>1, SocketEventType, EnqueueTyped DEF Accept, SocketEventNames
    <2> QED BY <1>1, <2>1 DEF Accept, TypeOK, clientVars, stateVars, pipeVars
  <1>2. ASSUME NEW s \in Sockets, Hangup(s) PROVE TypeOK'
    <2>1. queue' \in Seq(Events) /\ batch' \in 0..Len(queue')
      BY <1>2, SocketEventType, EnqueueTyped DEF Hangup, SocketEventNames
    <2> QED BY <1>2, <2>1 DEF Hangup, TypeOK, clientVars, stateVars, pipeVars
  <1>3. ASSUME NEW s \in Sockets, NEW n \in ReadSizes,
               NEW d \in {"http", "malformed", "tls"}, PeerSends(s, n, d)
        PROVE  TypeOK'
    <2> DEFINE e == [name |-> "read", socket |-> s, messages |-> n, data |-> d]
    <2>1. e \in Events
      BY DEF Events, ReadEvents
    <2>2. queue' \in Seq(Events) /\ batch' \in 0..Len(queue')
      BY <1>3, <2>1, EnqueueTyped DEF PeerSends
    <2>3. sent' \in 0..MaxClients
      BY <1>3, ConstantsAssumption DEF PeerSends, TypeOK, ConstantsAssumption
    <2> QED BY <1>3, <2>2, <2>3 DEF PeerSends, TypeOK, clientVars, stateVars, pipeVars
  <1>4. ASSUME NEW s \in Sockets, NEW e \in {"ssl error", "plaintext error"},
               TLSError(s, e)
        PROVE  TypeOK'
    <2>1. queue' \in Seq(Events) /\ batch' \in 0..Len(queue')
      BY <1>4, SocketEventType, EnqueueTyped DEF TLSError, SocketEventNames
    <2> QED BY <1>4, <2>1 DEF TLSError, TypeOK, clientVars, stateVars, pipeVars
  <1> QED BY <1>1, <1>2, <1>3, <1>4 DEF Environment

LEMMA TickTypeOK == TypeOK /\ Tick => TypeOK'
  <1> SUFFICES ASSUME TypeOK, Tick PROVE TypeOK'
    OBVIOUS
  <1>1. Len(queue) \in Nat
    BY LenProperties DEF TypeOK
  <1>2. batch' \in 0..Len(queue')
    BY <1>1 DEF Tick
  <1> QED BY <1>2 DEF Tick, TypeOK, netVars, clientVars, pipeVars

LEMMA TasksTypeOK == TypeOK /\ Tasks => TypeOK'
  <1> SUFFICES ASSUME TypeOK, Tasks PROVE TypeOK'
    OBVIOUS
  <1>1. ASSUME NEW c \in Clients, TaskEnds(c) PROVE TypeOK'
    <2>1. queue' \in Seq(Events) /\ batch' \in 0..Len(queue')
      BY <1>1, ClientEventType, EnqueueTyped DEF TaskEnds, ClientEventNames
    <2>2. reply' \in [Clients -> ReplySpace]
      BY <1>1, ReplyType DEF TaskEnds, TypeOK
    <2> QED BY <1>1, <2>1, <2>2 DEF TaskEnds, TypeOK, netVars, stateVars, pipeVars
  <1>2. ASSUME NEW c \in Clients, StoppedTaskEnds(c) PROVE TypeOK'
    <2>1. queue' \in Seq(Events) /\ batch' \in 0..Len(queue')
      BY <1>2, ClientEventType, EnqueueTyped
      DEF StoppedTaskEnds, ClientEventNames, TypeOK, loopVars
    <2>2. reply' \in [Clients -> ReplySpace]
      BY <1>2, ReplyType DEF StoppedTaskEnds, TypeOK
    <2>3. faults' \in 0..MaxFaults
      BY <1>2, FaultType DEF StoppedTaskEnds, TypeOK
    <2> QED BY <1>2, <2>1, <2>2, <2>3
            DEF StoppedTaskEnds, TypeOK, netVars, stateVars, pipeVars
  <1>3. ASSUME NEW s \in Sockets, TimerExpires(s) PROVE TypeOK'
    <2> DEFINE e == SocketEvent("close", s)
    <2>1. e \in Events
      BY SocketEventType DEF SocketEventNames
    <2>2. queue' = queue \/ queue' = Append(queue, e)
      BY <1>3 DEF TimerExpires
    <2> HIDE DEF e
    <2>3. queue' \in Seq(Events) /\ batch' \in 0..Len(queue')
      <3>1. CASE queue' = queue
        BY <1>3, <3>1 DEF TimerExpires, TypeOK
      <3>2. CASE queue' = Append(queue, e)
        BY <1>3, <2>1, <3>2, EnqueueTyped DEF TimerExpires, Enqueue
      <3> QED BY <2>2, <3>1, <3>2
    <2> QED BY <1>3, <2>3 DEF TimerExpires, TypeOK, netVars, clientVars, pipeVars
  <1> QED BY <1>1, <1>2, <1>3 DEF Tasks

\* OnRead is the one handler that fires an event for each of several clients.
LEMMA NewClients ==
    ASSUME TypeOK, NEW n \in Nat, born + n <= MaxClients
    PROVE  [k \in 1..n |-> born + k] \in Seq(Clients)
  <1>1. \A k \in 1..n : born + k \in Clients
    BY ConstantsAssumption DEF TypeOK, Clients, ConstantsAssumption
  <1> QED BY <1>1

LEMMA NewClientEvents ==
    ASSUME TypeOK, NEW m \in ClientEventNames, NEW n \in Nat, born + n <= MaxClients
    PROVE  [k \in 1..n |-> ClientEvent(m, born + k)] \in Seq(Events)
  <1>1. \A k \in 1..n : born + k \in Clients
    BY ConstantsAssumption DEF TypeOK, Clients, ConstantsAssumption
  <1>2. \A k \in 1..n : ClientEvent(m, born + k) \in Events
    BY <1>1, ClientEventType
  <1> QED BY <1>2

\* A connection that is new, or knows only TLS alerts
OnlyAlerts(s) == s \in known => parser[s] = "alert"

\* What OnRead does once the data and the State have decided how many clients
\* it makes and with which event each begins.
ReadOutcome(s, n, first) ==
    /\ Take("read") /\ Head(queue).socket = s
    /\ conn[s] = "closed" => n = 0
    /\ known' = known \cup {s}
    /\ born + n <= MaxClients
    /\ born' = born + n
    /\ socket' = [c \in Clients |-> IF c \in born+1 .. born+n THEN s ELSE socket[c]]
    /\ requests' = [requests EXCEPT ![s] = @ \o [k \in 1..n |-> born + k]]
    /\ \/ /\ n = 0 /\ Write(s, 0, "alert")
          /\ parser' = [parser EXCEPT ![s] = "alert"] /\ OnlyAlerts(s)
          /\ Fire(<<SocketEvent("close", s)>> \o <<SocketEvent("timeout.check", s)>>)
       \/ /\ UNCHANGED <<written, parser>>
          /\ n # 0 => s \notin known \/ parser[s] = "http"
          /\ Fire([k \in 1..n |-> ClientEvent(first, born + k)]
                  \o <<SocketEvent("timeout.check", s)>>)

LEMMA OnReadCases ==
    ASSUME TypeOK, OnRead
    PROVE  \E s \in Sockets, n \in Nat, first \in {"routing", "httperror"} :
             ReadOutcome(s, n, first)
  <1>1. Take("read")
    BY DEF OnRead
  <1>2. Head(queue) \in ReadEvents
    <2>1. Head(queue) \in Events /\ Head(queue).name = "read"
      BY <1>1, HeadTailProperties DEF Take, TypeOK
    <2> QED BY <2>1 DEF Events, ClientEvents, SocketEvents, ClientEventNames,
                        SocketEventNames, StreamNames
  <1> DEFINE s == Head(queue).socket
             d == Head(queue).data
             alert == /\ ~tunnel[s]
                      /\ IF s \in known THEN parser[s] = "alert" ELSE d = "tls"
             n == IF tunnel[s] \/ alert \/ conn[s] = "closed" THEN 0
                  ELSE IF d = "http" THEN Head(queue).messages ELSE 1
             first == IF d = "http" THEN "routing" ELSE "httperror"
  <1>3. s \in Sockets /\ n \in Nat /\ first \in {"routing", "httperror"}
    BY <1>2, ConstantsAssumption DEF ReadEvents, ConstantsAssumption
  <1>4. /\ conn[s] = "closed" => n = 0
        /\ alert => n = 0 /\ OnlyAlerts(s)
        /\ ~alert /\ n # 0 => s \notin known \/ parser[s] = "http"
    <2>1. parser[s] \in {"http", "alert"}
      BY <1>3 DEF TypeOK
    <2> QED BY <2>1 DEF OnlyAlerts
  <1>5. /\ known' = known \cup {s}
        /\ born + n <= MaxClients
        /\ born' = born + n
        /\ socket' = [c \in Clients |-> IF c \in born+1 .. born+n THEN s ELSE socket[c]]
        /\ requests' = [requests EXCEPT ![s] = @ \o [k \in 1..n |-> born + k]]
        /\ parser' = IF alert THEN [parser EXCEPT ![s] = "alert"] ELSE parser
        /\ \/ alert /\ Write(s, 0, "alert")
              /\ Fire(<<SocketEvent("close", s)>> \o <<SocketEvent("timeout.check", s)>>)
           \/ ~alert /\ UNCHANGED written
              /\ Fire([k \in 1..n |-> ClientEvent(first, [i \in 1..n |-> born + i][k])]
                      \o <<SocketEvent("timeout.check", s)>>)
    BY DEF OnRead
  <1> HIDE DEF s, n, first, alert, d
  <1>6. [k \in 1..n |-> ClientEvent(first, [i \in 1..n |-> born + i][k])]
            = [k \in 1..n |-> ClientEvent(first, born + k)]
    OBVIOUS
  <1>8. Head(queue).socket = s
    BY DEF s
  <1> QED BY <1>1, <1>3, <1>4, <1>5, <1>6, <1>8 DEF ReadOutcome

LEMMA OnReadTypeOK == TypeOK /\ OnRead => TypeOK'
  <1> SUFFICES ASSUME TypeOK, OnRead PROVE TypeOK'
    OBVIOUS
  <1>1. PICK s \in Sockets, n \in Nat, first \in {"routing", "httperror"} :
             ReadOutcome(s, n, first)
    BY OnReadCases
  <1> DEFINE new == [k \in 1..n |-> born + k]
             some == [k \in 1..n |-> ClientEvent(first, born + k)]
             check == <<SocketEvent("timeout.check", s)>>
             closes == <<SocketEvent("close", s)>>
  <1>2. new \in Seq(Clients)
    BY <1>1, NewClients DEF ReadOutcome
  <1>3. some \in Seq(Events)
    BY <1>1, NewClientEvents DEF ClientEventNames, ReadOutcome
  <1>4. check \in Seq(Events) /\ closes \in Seq(Events)
    <2>1. "timeout.check" \in SocketEventNames /\ "close" \in SocketEventNames
      BY DEF SocketEventNames
    <2>2. SocketEvent("timeout.check", s) \in Events /\ SocketEvent("close", s) \in Events
      BY <2>1, SocketEventType
    <2> QED BY <2>2
  <1>5. Fire(closes \o check) \/ Fire(some \o check)
    <2>1. \/ Fire(<<SocketEvent("close", s)>> \o <<SocketEvent("timeout.check", s)>>)
          \/ Fire([k \in 1..n |-> ClientEvent(first, born + k)]
                  \o <<SocketEvent("timeout.check", s)>>)
      BY <1>1 DEF ReadOutcome
    <2> QED BY <2>1
  <1>6. requests' = [requests EXCEPT ![s] = @ \o new]
    BY <1>1 DEF ReadOutcome
  <1> HIDE DEF new, some, check, closes
  <1>7. queue' \in Seq(Events) /\ batch' \in 0..Len(queue')
    <2>1. some \o check \in Seq(Events) /\ closes \o check \in Seq(Events)
      BY <1>3, <1>4, ConcatProperties
    <2> QED BY <1>1, <1>5, <2>1, FireType DEF TypeOK, ReadOutcome
  <1>8. written' \in [Sockets -> Seq([client: Clients \cup {0}, part: Parts])]
    BY <1>1, WriteType DEF TypeOK, Parts, ReadOutcome
  <1>9. requests' \in [Sockets -> Seq(Clients)]
    <2>1. requests \in [Sockets -> Seq(Clients)]
      BY DEF TypeOK
    <2>2. requests[s] \o new \in Seq(Clients)
      BY <1>2, <2>1, ConcatProperties
    <2> QED BY <1>6, <2>1, <2>2
  <1>10. born' \in 0..MaxClients /\ socket' \in [Clients -> Sockets \cup {NoSocket}]
    BY <1>1, ConstantsAssumption DEF TypeOK, ConstantsAssumption, ReadOutcome
  <1>11. known' \subseteq Sockets /\ parser' \in [Sockets -> {"http", "alert"}]
    BY <1>1 DEF TypeOK, ReadOutcome
  <1> QED BY <1>7, <1>8, <1>9, <1>10, <1>11 DEF OnRead, TypeOK, netVars

LEMMA OnTimeoutCheckTypeOK == TypeOK /\ OnTimeoutCheck => TypeOK'
  <1> SUFFICES ASSUME TypeOK, OnTimeoutCheck PROVE TypeOK'
    OBVIOUS
  <1>1. queue' \in Seq(Events) /\ batch' \in 0..Len(queue')
    BY FireNone DEF OnTimeoutCheck, TakeSocket
  <1>2. checks' \subseteq Sockets
    BY DEF OnTimeoutCheck, TypeOK
  <1> QED BY <1>1, <1>2 DEF OnTimeoutCheck, TypeOK, netVars, clientVars, stateVars, pipeVars

LEMMA OnRoutingTypeOK == TypeOK /\ OnRouting => TypeOK'
  <1> SUFFICES ASSUME TypeOK, OnRouting PROVE TypeOK'
    OBVIOUS
  <1>1. \A m \in DOMAIN NextHop : NextHop[m] \in ClientEventNames
    BY DEF NextHop, ClientEventNames
  <1>2. queue' \in Seq(Events) /\ batch' \in 0..Len(queue')
    BY <1>1, FireNone, FireClientEvent DEF OnRouting, TakeClient, ClientEventNames
  <1>3. faults' \in 0..MaxFaults
    BY FaultType DEF OnRouting, TypeOK
  <1> QED BY <1>1, <1>2, <1>3 DEF OnRouting, TypeOK, netVars, clientVars, stateVars, pipeVars

LEMMA OnRequestTypeOK == TypeOK /\ OnRequest => TypeOK'
  <1> SUFFICES ASSUME TypeOK, OnRequest PROVE TypeOK'
    OBVIOUS
  <1>1. queue' \in Seq(Events) /\ batch' \in 0..Len(queue')
    BY FireNone, FireClientEvent DEF OnRequest, TakeClient, ClientEventNames
  <1>2. reply' \in [Clients -> ReplySpace]
    BY ReplyType DEF OnRequest, TypeOK
  <1>3. task' \in [Clients -> {"none", "running", "stopped"}]
    BY DEF OnRequest, TypeOK
  <1>4. faults' \in 0..MaxFaults
    BY FaultType DEF OnRequest, TypeOK
  <1> QED BY <1>1, <1>2, <1>3, <1>4 DEF OnRequest, TypeOK, netVars, clientVars, stateVars, pipeVars

LEMMA OnRequestSuccessTypeOK == TypeOK /\ OnRequestSuccess => TypeOK'
  <1> SUFFICES ASSUME TypeOK, OnRequestSuccess PROVE TypeOK'
    OBVIOUS
  <1>1. queue' \in Seq(Events) /\ batch' \in 0..Len(queue')
    BY FireClientEvent DEF OnRequestSuccess, TakeClient, ClientEventNames
  <1> QED BY <1>1 DEF OnRequestSuccess, TypeOK, netVars, clientVars, stateVars, pipeVars

LEMMA OnRequestFailureTypeOK == TypeOK /\ OnRequestFailure => TypeOK'
  <1> SUFFICES ASSUME TypeOK, OnRequestFailure PROVE TypeOK'
    OBVIOUS
  <1>1. queue' \in Seq(Events) /\ batch' \in 0..Len(queue')
    BY FireNone, FireClientEvent DEF OnRequestFailure, TakeClient, ClientEventNames
  <1>2. handled' \in [Clients -> BOOLEAN]
    BY DEF OnRequestFailure, TypeOK
  <1> QED BY <1>1, <1>2 DEF OnRequestFailure, TypeOK, netVars, clientVars, stateVars, pipeVars

LEMMA OnHTTPErrorTypeOK == TypeOK /\ OnHTTPError => TypeOK'
  <1> SUFFICES ASSUME TypeOK, OnHTTPError PROVE TypeOK'
    OBVIOUS
  <1>1. queue' \in Seq(Events) /\ batch' \in 0..Len(queue')
    BY FireNone, FireClientEvent DEF OnHTTPError, TakeClient, ClientEventNames
  <1>2. reply' \in [Clients -> ReplySpace]
    BY ReplyType, PrematureType DEF OnHTTPError, TypeOK
  <1>3. faults' \in 0..MaxFaults
    BY FaultType DEF OnHTTPError, TypeOK
  <1> QED BY <1>1, <1>2, <1>3 DEF OnHTTPError, TypeOK, netVars, clientVars, stateVars, pipeVars

LEMMA OnHTTPErrorSuccessTypeOK == TypeOK /\ OnHTTPErrorSuccess => TypeOK'
  <1> SUFFICES ASSUME TypeOK, OnHTTPErrorSuccess PROVE TypeOK'
    OBVIOUS
  <1>1. queue' \in Seq(Events) /\ batch' \in 0..Len(queue')
    BY FireClientEvent DEF OnHTTPErrorSuccess, TakeClient, ClientEventNames
  <1>2. faults' \in 0..MaxFaults
    BY FaultType DEF OnHTTPErrorSuccess, TypeOK
  <1> QED BY <1>1, <1>2 DEF OnHTTPErrorSuccess, TypeOK, netVars, clientVars, stateVars, pipeVars

LEMMA OnHTTPErrorFailureTypeOK == TypeOK /\ OnHTTPErrorFailure => TypeOK'
  <1> SUFFICES ASSUME TypeOK, OnHTTPErrorFailure PROVE TypeOK'
    OBVIOUS
  <1>1. queue' \in Seq(Events) /\ batch' \in 0..Len(queue')
    BY FireNone, FireClientEvent, FireSocketEvent
    DEF OnHTTPErrorFailure, TakeClient, ClientEventNames, SocketEventNames, Unanswerable, TypeOK
  <1>2. reply' \in [Clients -> ReplySpace]
    BY ReplyType, PrematureType DEF OnHTTPErrorFailure, TypeOK
  <1>3. written' \in [Sockets -> Seq([client: Clients \cup {0}, part: Parts])]
    BY WriteType DEF OnHTTPErrorFailure, TypeOK, Unanswerable, Parts
  <1> QED BY <1>1, <1>2, <1>3 DEF OnHTTPErrorFailure, TypeOK, netVars, clientVars, stateVars, pipeVars

LEMMA OnResponseTypeOK == TypeOK /\ OnResponse => TypeOK'
  <1> SUFFICES ASSUME TypeOK, OnResponse PROVE TypeOK'
    OBVIOUS
  <1>1. PICK c \in Clients : OnResponse!(c)
    BY DEF OnResponse
  <1> DEFINE failure == <<ClientEvent("response_failure", c)>>
             begin == <<ClientEvent("response.start", c)>>
             start == IF c \in responses THEN failure
                      ELSE IF IsHead(socket[c], c) THEN begin ELSE <<>>
  <1>2. /\ failure \in Seq(Events) /\ begin \in Seq(Events)
        /\ \A n \in {"httperror", "response_failure"} : <<ClientEvent(n, c)>> \in Seq(Events)
    <2>1. \A n \in {"response_failure", "response.start", "httperror"} :
             ClientEvent(n, c) \in Events
      BY ClientEventType DEF ClientEventNames, StreamNames
    <2> QED BY <2>1
  <1> HIDE DEF failure, begin
  <1>3. start \in Seq(Events)
    BY <1>2
  <1>4. \/ Fire(<<>>) \/ Fire(start)
        \/ Fire(failure \o start) \/ Fire(start \o failure)
        \/ \E n \in {"httperror", "response_failure"} : Fire(<<ClientEvent(n, c)>>)
    BY <1>1 DEF failure, begin, ResponseOutcome
  <1> HIDE DEF start
  <1>5. queue' \in Seq(Events) /\ batch' \in 0..Len(queue')
    <2>1. Take("response")
      BY <1>1 DEF TakeClient
    <2>2. failure \o start \in Seq(Events) /\ start \o failure \in Seq(Events)
      BY <1>2, <1>3, ConcatProperties
    <2> QED BY <1>2, <1>3, <1>4, <2>1, <2>2, EmptySeq, FireType DEF TypeOK
  <1>6. reply' \in [Clients -> ReplySpace]
    BY <1>1, PrematureType DEF TypeOK
  <1>7. responses' \subseteq Clients /\ faults' \in 0..MaxFaults
    BY <1>1, FaultType DEF TypeOK
  <1> QED BY <1>5, <1>6, <1>7 DEF OnResponse, TypeOK, netVars

LEMMA OnResponseStartTypeOK == TypeOK /\ OnResponseStart => TypeOK'
  <1> SUFFICES ASSUME TypeOK, OnResponseStart PROVE TypeOK'
    OBVIOUS
  <1>1. queue' \in Seq(Events) /\ batch' \in 0..Len(queue')
    BY FireNone, FireClientEvent DEF OnResponseStart, TakeClient, ClientEventNames, StreamNames
  <1>2. reply' \in [Clients -> ReplySpace]
    BY PrematureType DEF OnResponseStart, TypeOK
  <1>3. response_started' \subseteq Clients /\ composed' \subseteq Clients
    BY DEF OnResponseStart, TypeOK
  <1>4. tunnel' \in [Sockets -> BOOLEAN]
    BY DEF OnResponseStart, TypeOK, ReplySpace
  <1>5. written' \in [Sockets -> Seq([client: Clients \cup {0}, part: Parts])]
    BY WriteType DEF OnResponseStart, TypeOK, Unanswerable, Parts
  <1>6. faults' \in 0..MaxFaults
    BY FaultType DEF OnResponseStart, TypeOK
  <1> QED BY <1>1, <1>2, <1>3, <1>4, <1>5, <1>6 DEF OnResponseStart, TypeOK, netVars, clientVars, stateVars, pipeVars

LEMMA OnResponseFailureTypeOK == TypeOK /\ OnResponseFailure => TypeOK'
  <1> SUFFICES ASSUME TypeOK, OnResponseFailure PROVE TypeOK'
    OBVIOUS
  <1>1. queue' \in Seq(Events) /\ batch' \in 0..Len(queue')
    BY FireNone, FireClientEvent DEF OnResponseFailure, TakeClient, ClientEventNames
  <1>2. reply' \in [Clients -> ReplySpace]
    BY ReplyType DEF OnResponseFailure, TypeOK
  <1>3. done' \in [Clients -> BOOLEAN]
    BY DEF OnResponseFailure, TypeOK
  <1> QED BY <1>1, <1>2, <1>3 DEF OnResponseFailure, TypeOK, netVars, clientVars, stateVars, pipeVars

LEMMA OnCloseTypeOK == TypeOK /\ OnClose => TypeOK'
  <1> SUFFICES ASSUME TypeOK, OnClose PROVE TypeOK'
    OBVIOUS
  <1>1. queue' \in Seq(Events) /\ batch' \in 0..Len(queue')
    BY FireNone, FireSocketEvent DEF OnClose, TakeSocket, SocketEventNames
  <1>2. /\ known' \subseteq Sockets
        /\ requests' \in [Sockets -> Seq(Clients)]
        /\ responses' \subseteq Clients /\ response_started' \subseteq Clients
        /\ composed' \subseteq Clients
        /\ tunnel' \in [Sockets -> BOOLEAN] /\ timeout' \in [Sockets -> BOOLEAN]
        /\ parser' \in [Sockets -> {"http", "alert"}]
    BY RemoveStateType DEF OnClose
  <1>3. conn' \in [Sockets -> {"new", "open", "eof", "closed"}]
    BY DEF OnClose, TypeOK, netVars
  <1>4. written' \in [Sockets -> Seq([client: Clients \cup {0}, part: Parts])]
    BY LoseType DEF OnClose
  <1> QED BY <1>1, <1>2, <1>3, <1>4 DEF OnClose, TypeOK, netVars, clientVars, stateVars, pipeVars

LEMMA OnDisconnectTypeOK == TypeOK /\ OnDisconnect => TypeOK'
  <1> SUFFICES ASSUME TypeOK, OnDisconnect PROVE TypeOK'
    OBVIOUS
  <1>1. queue' \in Seq(Events) /\ batch' \in 0..Len(queue')
    BY FireNone, FireSocketEvent DEF OnDisconnect, TakeSocket, SocketEventNames
  <1>2. /\ known' \subseteq Sockets
        /\ requests' \in [Sockets -> Seq(Clients)]
        /\ responses' \subseteq Clients /\ response_started' \subseteq Clients
        /\ composed' \subseteq Clients
        /\ tunnel' \in [Sockets -> BOOLEAN] /\ timeout' \in [Sockets -> BOOLEAN]
        /\ parser' \in [Sockets -> {"http", "alert"}]
    BY RemoveStateType DEF OnDisconnect
  <1>3. conn' \in [Sockets -> {"new", "open", "eof", "closed"}]
    BY DEF OnDisconnect, TypeOK, netVars
  <1> QED BY <1>1, <1>2, <1>3 DEF OnDisconnect, TypeOK, netVars, clientVars, stateVars, pipeVars

LEMMA OnEOFTypeOK == TypeOK /\ OnEOF => TypeOK'
  <1> SUFFICES ASSUME TypeOK, OnEOF PROVE TypeOK'
    OBVIOUS
  <1>1. queue' \in Seq(Events) /\ batch' \in 0..Len(queue')
    BY FireNone, FireSocketEvent DEF OnEOF, TakeSocket, SocketEventNames
  <1>2. conn' \in [Sockets -> {"new", "open", "eof", "closed"}]
    BY DEF OnEOF, TypeOK
  <1>3. written' \in [Sockets -> Seq([client: Clients \cup {0}, part: Parts])]
    BY LoseType DEF OnEOF
  <1> QED BY <1>1, <1>2, <1>3 DEF OnEOF, TypeOK, netVars, clientVars, stateVars, pipeVars

LEMMA OnSocketErrorTypeOK == TypeOK /\ OnSocketError => TypeOK'
  <1> SUFFICES ASSUME TypeOK, OnSocketError PROVE TypeOK'
    OBVIOUS
  <1>1. queue' \in Seq(Events) /\ batch' \in 0..Len(queue')
    BY FireSocketEvent DEF OnSocketError, TakeSocket, SocketEventNames
  <1>2. written' \in [Sockets -> Seq([client: Clients \cup {0}, part: Parts])]
    BY WriteType DEF OnSocketError, TypeOK, Parts
  <1> QED BY <1>1, <1>2 DEF OnSocketError, TypeOK, netVars, clientVars, stateVars, pipeVars

\* The other handlers name the connection of their client: it has one.
LEMMA HeadOwned ==
    ASSUME TypeOK, QueueOwned, ClientsOwned, NEW n \in ClientEventNames, NEW c \in Clients,
           TakeClient(n, c)
    PROVE  c \in 1..born /\ socket[c] \in Sockets
  <1>1. queue # <<>> /\ Head(queue).name = n /\ Head(queue).client = c
    BY DEF TakeClient, Take
  <1>2. 1 \in 1..Len(queue) /\ Head(queue) = queue[1]
    BY <1>1, HeadTailProperties, LenProperties, EmptySeq DEF TypeOK
  <1> QED BY <1>1, <1>2 DEF QueueOwned, ClientsOwned

LEMMA OnExceptionTypeOK == TypeOK /\ QueueOwned /\ ClientsOwned /\ OnException => TypeOK'
  <1> SUFFICES ASSUME TypeOK, QueueOwned, ClientsOwned, OnException PROVE TypeOK'
    OBVIOUS
  <1>1. queue' \in Seq(Events) /\ batch' \in 0..Len(queue')
    BY HeadOwned, FireSocketEvent
    DEF OnException, TakeClient, ClientEventNames, SocketEventNames
  <1> QED BY <1>1 DEF OnException, TypeOK, netVars, clientVars, stateVars, pipeVars

LEMMA OnResponseBodyTypeOK == TypeOK /\ QueueOwned /\ ClientsOwned /\ OnResponseBody => TypeOK'
  <1> SUFFICES ASSUME TypeOK, QueueOwned, ClientsOwned, OnResponseBody PROVE TypeOK'
    OBVIOUS
  <1>1. queue' \in Seq(Events) /\ batch' \in 0..Len(queue')
    BY FireClientEvent DEF OnResponseBody, TakeClient, ClientEventNames, StreamNames
  <1>2. PICK c \in Clients : OnResponseBody!(c)
    BY DEF OnResponseBody
  <1>3. written' \in [Sockets -> Seq([client: Clients \cup {0}, part: Parts])]
    <2>1. socket[c] \in Sockets
      BY <1>2, HeadOwned DEF ClientEventNames, StreamNames
    <2> QED BY <1>2, <2>1, WriteType DEF TypeOK, Parts
  <1>4. reply' \in [Clients -> ReplySpace]
    <2>1. CASE reply[c].left > 0 /\ reply' = [reply EXCEPT ![c].left = @ - 1]
      <3>1. reply[c].left - 1 \in 0..MaxChunks
        BY <2>1, ReplyType DEF TypeOK, ReplySpace
      <3> QED BY <2>1, <3>1, ReplyUpdate
    <2>2. CASE reply' = reply
      BY <2>2 DEF TypeOK
    <2> QED BY <1>2, <2>1, <2>2
  <1>5. done' \in [Clients -> BOOLEAN] /\ faults' \in 0..MaxFaults
    BY <1>2, FaultType DEF TypeOK
  <1> QED BY <1>1, <1>3, <1>4, <1>5
          DEF OnResponseBody, TypeOK, netVars, stateVars, pipeVars

\* The request behind the first one is a client of the same connection.
LEMMA NextOwned ==
    ASSUME TypeOK, QueueOwned, ClientsOwned, NEW s \in Sockets,
           requests[s] # <<>>, Tail(requests[s]) # <<>>
    PROVE  /\ Head(Tail(requests[s])) \in 1..born
           /\ Head(Tail(requests[s])) \in Clients
           /\ socket[Head(Tail(requests[s]))] = s
  <1>1. requests[s] \in Seq(Clients)
    BY DEF TypeOK
  <1>2. /\ Tail(requests[s]) \in Seq(Clients)
        /\ Len(Tail(requests[s])) = Len(requests[s]) - 1
        /\ \A i \in 1..Len(Tail(requests[s])) : Tail(requests[s])[i] = requests[s][i+1]
    BY <1>1, HeadTailProperties
  <1>3. Head(Tail(requests[s])) = Tail(requests[s])[1] /\ Len(Tail(requests[s])) >= 1
    BY <1>2, HeadTailProperties, EmptySeq, LenProperties
  <1>4. Len(requests[s]) \in Nat
    BY <1>1, LenProperties
  <1>5. Head(Tail(requests[s])) = requests[s][2] /\ 2 \in 1..Len(requests[s])
    BY <1>2, <1>3, <1>4
  <1> QED BY <1>1, <1>5 DEF QueueOwned, ClientsOwned, TypeOK

LEMMA OnResponseCompleteTypeOK ==
    TypeOK /\ QueueOwned /\ ClientsOwned /\ OnResponseComplete => TypeOK'
  <1> SUFFICES ASSUME TypeOK, QueueOwned, ClientsOwned, OnResponseComplete PROVE TypeOK'
    OBVIOUS
  <1>1. PICK c \in Clients : OnResponseComplete!(c)
    BY DEF OnResponseComplete
  <1>2. socket[c] \in Sockets /\ Take("response.complete")
    BY <1>1, HeadOwned DEF ClientEventNames, StreamNames, TakeClient
  <1>3. queue' \in Seq(Events) /\ batch' \in 0..Len(queue')
    <2>1. CASE Fire(<<>>)
      BY <1>2, <2>1, FireNone
    <2>2. CASE Fire(<<SocketEvent("close", socket[c])>>)
      BY <1>2, <2>2, FireSocketEvent DEF SocketEventNames
    <2>3. CASE /\ IsHead(socket[c], c) /\ Tail(requests[socket[c]]) # <<>>
               /\ Fire(<<ClientEvent("response.start", Head(Tail(requests[socket[c]])))>>)
      <3>1. Head(Tail(requests[socket[c]])) \in Clients
        BY <1>2, <2>3, NextOwned DEF IsHead
      <3> QED BY <1>2, <2>3, <3>1, FireClientEvent DEF ClientEventNames, StreamNames
    <2> QED BY <1>1, <2>1, <2>2, <2>3 DEF AfterComplete
  <1>4. reply' \in [Clients -> ReplySpace]
    BY <1>1, PrematureType DEF TypeOK
  <1>5. requests' \in [Sockets -> Seq(Clients)]
    <2> DEFINE s == socket[c]
    <2>1. requests \in [Sockets -> Seq(Clients)] /\ s \in Sockets
      BY <1>2 DEF TypeOK
    <2>2. \/ requests' = requests
          \/ requests[s] # <<>> /\ requests' = [requests EXCEPT ![s] = Tail(@)]
      BY <1>1 DEF IsHead
    <2> HIDE DEF s
    <2>3. requests[s] # <<>> => Tail(requests[s]) \in Seq(Clients)
      BY <2>1, HeadTailProperties
    <2> QED BY <2>1, <2>2, <2>3
  <1> QED BY <1>3, <1>4, <1>5 DEF OnResponseComplete, TypeOK, netVars

-----------------------------------------------------------------------------
(* The queue, event by event *)

\* After a dispatch each event in the queue was there before or was fired.
LEMMA FireElements ==
    ASSUME queue \in Seq(Events), NEW n, Take(n), NEW es \in Seq(Events), Fire(es)
    PROVE  \A i \in 1..Len(queue') :
             \/ i+1 \in 1..Len(queue) /\ queue'[i] = queue[i+1]
             \/ /\ i - (Len(queue) - 1) \in 1..Len(es)
                /\ queue'[i] = es[i - (Len(queue) - 1)]
  <1>1. queue # <<>> /\ queue' = Tail(queue) \o es
    BY DEF Take, Fire
  <1>2. /\ Tail(queue) \in Seq(Events) /\ Len(Tail(queue)) = Len(queue) - 1
        /\ \A i \in 1..Len(Tail(queue)) : Tail(queue)[i] = queue[i+1]
    BY <1>1, HeadTailProperties
  <1>3. Len(queue) \in Nat \ {0} /\ Len(es) \in Nat
    BY <1>1, LenProperties, EmptySeq
  <1>4. /\ Len(queue') = Len(queue) - 1 + Len(es)
        /\ \A i \in 1..Len(queue') :
             queue'[i] = IF i <= Len(queue) - 1 THEN Tail(queue)[i]
                         ELSE es[i - (Len(queue) - 1)]
    BY <1>1, <1>2, ConcatProperties
  <1> QED BY <1>2, <1>3, <1>4

LEMMA EnqueueElements ==
    ASSUME queue \in Seq(Events), NEW e \in Events, Enqueue(e)
    PROVE  \A i \in 1..Len(queue') :
             \/ i \in 1..Len(queue) /\ queue'[i] = queue[i]
             \/ queue'[i] = e
  <1>1. /\ Len(queue') = Len(queue) + 1
        /\ \A i \in 1..Len(queue') :
             queue'[i] = IF i <= Len(queue) THEN queue[i] ELSE e
    BY AppendProperties, LenProperties DEF Enqueue
  <1> QED BY <1>1, LenProperties

-----------------------------------------------------------------------------
(* What any step has to show *)

QueueInvariant == QueueOwned /\ DisconnectsAreReal /\ StreamState /\ OneStream

\* An event that moves no response on.
Plain(e) ==
    /\ e.name \notin StreamNames
    /\ e.name \in ClientEventNames => e.client \in 1..born
    /\ e.name = "disconnect" => conn[e.socket] = "closed"

\* The part of a step the queue depends on: clients stay, closed connections
\* stay closed, and what is under way behind the first d events may go on.
Stable(d) ==
    /\ born \in Nat /\ born' \in Nat /\ born <= born'
    /\ \A c \in 1..born : socket'[c] = socket[c]
    /\ \A s \in Sockets : conn[s] = "closed" => conn'[s] = "closed"
    /\ \A c \in 1..born :
          (\E i \in Streams : i > d /\ queue[i].client = c) /\ MayStream(c) => MayStream(c)'

LEMMA DisconnectSocket ==
    ASSUME NEW e \in Events, e.name = "disconnect"
    PROVE  e.socket \in Sockets
  BY DEF Events, ClientEvents, SocketEvents, ReadEvents, ClientEventNames, StreamNames

\* A step that only takes events away, or adds plain ones, keeps the invariant
\* of the queue.
LEMMA QuietStep ==
    ASSUME NEW d \in {0, 1}, QueueInvariant, Stable(d),
           queue \in Seq(Events), queue' \in Seq(Events),
           \A i \in 1..Len(queue') :
             \/ i+d \in 1..Len(queue) /\ queue'[i] = queue[i+d]
             \/ Plain(queue[i])'
    PROVE  QueueInvariant'
  <1>1. QueueOwned'
    BY DEF QueueInvariant, QueueOwned, Stable, Plain
  <1>2. DisconnectsAreReal'
    BY DisconnectSocket DEF QueueInvariant, DisconnectsAreReal, Stable, Plain
  <1>3. \A i \in Streams' : i+d \in Streams /\ i+d > d /\ queue'[i] = queue[i+d]
    BY DEF Streams, Plain
  <1>4. \A i \in Streams : queue[i].client \in 1..born
    BY DEF QueueInvariant, QueueOwned, Streams, ClientEventNames
  <1>5. StreamState'
    BY <1>3, <1>4 DEF QueueInvariant, StreamState, Stable
  <1>6. OneStream'
    <2> SUFFICES ASSUME NEW i \in Streams', NEW j \in Streams',
                        socket'[queue'[i].client] = socket'[queue'[j].client]
                 PROVE  i = j
      BY DEF OneStream
    <2>1. i+d \in Streams /\ queue'[i] = queue[i+d]
          /\ j+d \in Streams /\ queue'[j] = queue[j+d]
      BY <1>3
    <2>2. socket[queue[i+d].client] = socket[queue[j+d].client]
      BY <1>4, <2>1 DEF Stable
    <2>3. i + d = j + d
      BY <2>1, <2>2 DEF QueueInvariant, OneStream
    <2> QED BY <2>3 DEF Streams
  <1> QED BY <1>1, <1>2, <1>5, <1>6 DEF QueueInvariant

\* A step that starts a response, or moves one on, at place k of the queue,
\* while no other response of its connection is under way.
LEMMA StreamStep ==
    ASSUME QueueInvariant, Stable(1), queue \in Seq(Events), queue' \in Seq(Events),
           NEW c \in 1..born, MayStream(c)', NEW k \in 1..Len(queue'),
           queue'[k].name \in StreamNames, queue'[k].client = c,
           \A i \in 1..Len(queue') : i # k =>
             \/ i+1 \in 1..Len(queue) /\ queue'[i] = queue[i+1]
             \/ Plain(queue[i])',
           \A i \in Streams : i # 1 => socket[queue[i].client] # socket[c]
    PROVE  QueueInvariant'
  <1>0. "disconnect" \notin StreamNames
    BY DEF StreamNames
  <1>1. QueueOwned'
    BY DEF QueueInvariant, QueueOwned, Stable, Plain
  <1>2. DisconnectsAreReal'
    <2> SUFFICES ASSUME NEW i \in 1..Len(queue'), queue'[i].name = "disconnect"
                 PROVE  conn'[queue'[i].socket] = "closed"
      BY DEF DisconnectsAreReal
    <2>1. i # k
      BY <1>0
    <2>2. CASE i+1 \in 1..Len(queue) /\ queue'[i] = queue[i+1]
      <3>1. conn[queue[i+1].socket] = "closed" /\ queue[i+1] \in Events
        BY <2>2 DEF QueueInvariant, DisconnectsAreReal
      <3>2. queue[i+1].socket \in Sockets
        BY <2>2, <3>1, DisconnectSocket
      <3> QED BY <2>2, <3>1, <3>2 DEF Stable
    <2>3. CASE Plain(queue[i])'
      BY <2>3 DEF Plain
    <2> QED BY <2>1, <2>2, <2>3
  <1>3. \A i \in Streams' : i # k => /\ i+1 \in Streams /\ queue'[i] = queue[i+1]
                                     /\ i+1 > 1 /\ i+1 # 1
    BY DEF Streams, Plain
  <1>4. \A i \in Streams : queue[i].client \in 1..born
    BY DEF QueueInvariant, QueueOwned, Streams, ClientEventNames
  <1>5. StreamState'
    BY <1>3, <1>4 DEF QueueInvariant, StreamState, Stable
  <1>6. OneStream'
    <2> SUFFICES ASSUME NEW i \in Streams', NEW j \in Streams',
                        socket'[queue'[i].client] = socket'[queue'[j].client]
                 PROVE  i = j
      BY DEF OneStream
    <2>1. ASSUME NEW l \in Streams', l # k
          PROVE  socket'[queue'[l].client] # socket'[c]
      <3>1. l+1 \in Streams /\ queue'[l] = queue[l+1] /\ l+1 # 1
        BY <1>3, <2>1
      <3>2. socket[queue[l+1].client] # socket[c] /\ queue[l+1].client \in 1..born
        BY <1>4, <3>1
      <3> QED BY <3>1, <3>2 DEF Stable
    <2>2. CASE i = k \/ j = k
      BY <2>1, <2>2
    <2>3. CASE i # k /\ j # k
      <3>1. socket[queue[i+1].client] = socket[queue[j+1].client]
        BY <1>3, <1>4, <2>3 DEF Stable
      <3>2. i + 1 = j + 1
        BY <1>3, <2>3, <3>1 DEF QueueInvariant, OneStream
      <3> QED BY <3>2 DEF Streams
    <2> QED BY <2>2, <2>3
  <1> QED BY <1>1, <1>2, <1>5, <1>6 DEF QueueInvariant

\* Most handlers change neither the connections nor the pipelines.
LEMMA StableUnchanged ==
    ASSUME TypeOK, UNCHANGED <<conn, born, socket, known, requests>>,
           responses \subseteq responses'
    PROVE  \A d \in {0, 1} : Stable(d)
  <1>1. born \in Nat
    BY ConstantsAssumption DEF TypeOK, ConstantsAssumption
  <1> QED BY <1>1 DEF Stable, MayStream, IsHead

-----------------------------------------------------------------------------
(* The steps by what they fire *)

LEMMA DispatchNone ==
    ASSUME TypeOK, QueueInvariant, Stable(1), NEW n, Take(n), Fire(<<>>)
    PROVE  QueueInvariant'
  <1> DEFINE es == <<>>
  <1>1. es \in Seq(Events) /\ Len(es) = 0 /\ Fire(es)
    OBVIOUS
  <1> HIDE DEF es
  <1>2. \A i \in 1..Len(queue') : i+1 \in 1..Len(queue) /\ queue'[i] = queue[i+1]
    <2>1. \A i \in 1..Len(queue') :
            \/ i+1 \in 1..Len(queue) /\ queue'[i] = queue[i+1]
            \/ i - (Len(queue) - 1) \in 1..Len(es)
      BY <1>1, FireElements DEF TypeOK
    <2> QED BY <1>1, <2>1
  <1> QED BY <1>2, FireNone, QuietStep DEF TypeOK

LEMMA DispatchPlain ==
    ASSUME TypeOK, QueueInvariant, Stable(1), NEW n, Take(n),
           NEW es \in Seq(Events), Fire(es), \A k \in 1..Len(es) : Plain(es[k])'
    PROVE  QueueInvariant'
  <1>1. queue' \in Seq(Events)
    BY FireType DEF TypeOK
  <1>2. \A i \in 1..Len(queue') :
          \/ i+1 \in 1..Len(queue) /\ queue'[i] = queue[i+1]
          \/ Plain(queue[i])'
    <2>1. ASSUME NEW i \in 1..Len(queue')
          PROVE  \/ i+1 \in 1..Len(queue) /\ queue'[i] = queue[i+1]
                 \/ \E k \in 1..Len(es) : queue'[i] = es[k]
      BY FireElements DEF TypeOK
    <2>2. ASSUME NEW i \in 1..Len(queue'), NEW k \in 1..Len(es), queue'[i] = es[k]
          PROVE  Plain(queue[i])'
      BY <2>2 DEF Plain
    <2> QED BY <2>1, <2>2
  <1> QED BY <1>1, <1>2, QuietStep DEF TypeOK

LEMMA DispatchPlainEvent ==
    ASSUME TypeOK, QueueInvariant, Stable(1), NEW n, Take(n),
           NEW e \in Events, Fire(<<e>>), Plain(e)'
    PROVE  QueueInvariant'
  <1> DEFINE es == <<e>>
  <1>1. es \in Seq(Events) /\ Len(es) = 1 /\ es[1] = e /\ Fire(es)
    OBVIOUS
  <1> HIDE DEF es
  <1>2. \A k \in 1..Len(es) : es[k] = e
    BY <1>1
  <1>3. \A k \in 1..Len(es) : Plain(es[k])'
    BY <1>2 DEF Plain
  <1> QED BY <1>1, <1>3, DispatchPlain

LEMMA ClientEventPlain ==
    ASSUME Stable(1), NEW m \in ClientEventNames \ StreamNames, NEW c \in 1..born
    PROVE  Plain(ClientEvent(m, c))'
  BY DEF Stable, Plain, ClientEvent, ClientEventNames, StreamNames

LEMMA SocketEventPlain ==
    ASSUME NEW m \in SocketEventNames, NEW s, m = "disconnect" => conn'[s] = "closed"
    PROVE  Plain(SocketEvent(m, s))'
  BY DEF Plain, SocketEvent, SocketEventNames, ClientEventNames, StreamNames

LEMMA DispatchClientEvent ==
    ASSUME TypeOK, QueueInvariant, Stable(1), NEW n, Take(n),
           NEW m \in ClientEventNames \ StreamNames, NEW c \in Clients, c \in 1..born,
           Fire(<<ClientEvent(m, c)>>)
    PROVE  QueueInvariant'
  <1>1. ClientEvent(m, c) \in Events
    BY ClientEventType
  <1>2. Plain(ClientEvent(m, c))'
    BY ClientEventPlain
  <1> QED BY <1>1, <1>2, DispatchPlainEvent

LEMMA DispatchSocketEvent ==
    ASSUME TypeOK, QueueInvariant, Stable(1), NEW n, Take(n),
           NEW m \in SocketEventNames, NEW s \in Sockets,
           m = "disconnect" => conn'[s] = "closed",
           Fire(<<SocketEvent(m, s)>>)
    PROVE  QueueInvariant'
  <1>1. SocketEvent(m, s) \in Events
    BY SocketEventType
  <1>2. Plain(SocketEvent(m, s))'
    BY SocketEventPlain
  <1> QED BY <1>1, <1>2, DispatchPlainEvent

\* The dispatched event was about a response under way: it is the only one of
\* its connection.
LEMMA HeadIsOnlyStream ==
    ASSUME TypeOK, QueueInvariant, NEW n \in StreamNames, NEW c \in Clients,
           TakeClient(n, c)
    PROVE  /\ MayStream(c)
           /\ \A i \in Streams : i # 1 => socket[queue[i].client] # socket[c]
  <1>1. queue # <<>> /\ Head(queue).name = n /\ Head(queue).client = c
    BY DEF TakeClient, Take
  <1>2. 1 \in 1..Len(queue) /\ Head(queue) = queue[1]
    BY <1>1, HeadTailProperties, LenProperties, EmptySeq DEF TypeOK
  <1>3. 1 \in Streams
    BY <1>1, <1>2 DEF Streams
  <1> QED BY <1>1, <1>2, <1>3 DEF QueueInvariant, StreamState, OneStream

LEMMA DispatchStream ==
    ASSUME TypeOK, QueueInvariant, Stable(1), NEW n, Take(n),
           NEW m \in StreamNames, NEW c \in Clients, c \in 1..born,
           Fire(<<ClientEvent(m, c)>>), MayStream(c)',
           \A i \in Streams : i # 1 => socket[queue[i].client] # socket[c]
    PROVE  QueueInvariant'
  <1> DEFINE e == ClientEvent(m, c)
             es == <<e>>
             k == Len(queue)
  <1>0. e \in Events
    BY ClientEventType DEF ClientEventNames
  <1>1. es \in Seq(Events) /\ Len(es) = 1 /\ es[1] = e /\ Fire(es)
    BY <1>0
  <1> HIDE DEF es
  <1>2. queue' \in Seq(Events)
    BY <1>1, FireType DEF TypeOK
  <1>3. queue # <<>> /\ Len(queue) \in Nat \ {0} /\ Tail(queue) \in Seq(Events)
        /\ Len(Tail(queue)) = k - 1
    BY LenProperties, EmptySeq, HeadTailProperties DEF TypeOK, Take
  <1>4. Len(queue') = k /\ queue'[k] = e
    <2>1. queue' = Tail(queue) \o es
      BY <1>1 DEF Fire
    <2>2. /\ Len(queue') = Len(Tail(queue)) + Len(es)
          /\ \A i \in 1..Len(Tail(queue)) + Len(es) :
               queue'[i] = IF i <= Len(Tail(queue)) THEN Tail(queue)[i]
                           ELSE es[i - Len(Tail(queue))]
      BY <1>1, <1>3, <2>1, ConcatProperties
    <2>3. /\ k \in 1..Len(Tail(queue)) + Len(es)
          /\ ~(k <= Len(Tail(queue))) /\ k - Len(Tail(queue)) = 1
      BY <1>1, <1>3
    <2> QED BY <1>1, <1>3, <2>2, <2>3
  <1>5. ASSUME NEW i \in 1..Len(queue'), i # k
        PROVE  i+1 \in 1..Len(queue) /\ queue'[i] = queue[i+1]
    <2>1. \/ i+1 \in 1..Len(queue) /\ queue'[i] = queue[i+1]
          \/ i - (Len(queue) - 1) \in 1..Len(es)
      BY <1>1, FireElements DEF TypeOK
    <2>2. ~(i - (Len(queue) - 1) \in 1..Len(es))
      <3>1. i \in 1..k
        BY <1>4
      <3> QED BY <1>1, <1>3, <1>5, <3>1
    <2> QED BY <2>1, <2>2
  <1>6. queue'[k].name \in StreamNames /\ queue'[k].client = c /\ k \in 1..Len(queue')
    BY <1>3, <1>4 DEF ClientEvent
  <1> QED BY <1>2, <1>5, <1>6, StreamStep DEF TypeOK

LEMMA EnqueuePlain ==
    ASSUME TypeOK, QueueInvariant, Stable(0), NEW e \in Events, Enqueue(e), Plain(e)'
    PROVE  QueueInvariant'
  <1>1. ASSUME NEW i \in 1..Len(queue')
        PROVE  \/ i+0 \in 1..Len(queue) /\ queue'[i] = queue[i+0]
               \/ Plain(queue[i])'
    <2>1. (i \in 1..Len(queue) /\ queue'[i] = queue[i]) \/ queue'[i] = e
      BY EnqueueElements DEF TypeOK
    <2>2. CASE i \in 1..Len(queue) /\ queue'[i] = queue[i]
      BY <2>2
    <2>3. CASE queue'[i] = e
      BY <2>3 DEF Plain
    <2> QED BY <2>1, <2>2, <2>3
  <1> QED BY <1>1, EnqueueTyped, QuietStep DEF TypeOK

LEMMA QueueUnchanged ==
    ASSUME TypeOK, QueueInvariant, Stable(0), UNCHANGED queue
    PROVE  QueueInvariant'
  <1>1. \A i \in 1..Len(queue') : i+0 \in 1..Len(queue) /\ queue'[i] = queue[i+0]
    BY DEF TypeOK
  <1> QED BY <1>1, QuietStep DEF TypeOK

-----------------------------------------------------------------------------
(* The handlers that move no response on *)

LEMMA InvariantParts ==
    /\ PipelineInvariant => /\ TypeOK /\ QueueInvariant /\ ClientsOwned /\ QueueOwned
                            /\ DisconnectsAreReal
    /\ TypeOK' /\ QueueInvariant' /\ ClientsOwned' => PipelineInvariant'
  BY DEF PipelineInvariant, QueueInvariant

LEMMA QuietClients ==
    ASSUME ClientsOwned, UNCHANGED <<born, socket, requests>>, known \subseteq known',
           \A c \in Clients : task'[c] # "none" => task[c] # "none" \/ c \in 1..born
    PROVE  ClientsOwned'
  BY DEF ClientsOwned

QuietFire ==
    \/ Fire(<<>>)
    \/ \E m \in ClientEventNames \ StreamNames, c \in 1..born : Fire(<<ClientEvent(m, c)>>)
    \/ \E m \in SocketEventNames \ {"disconnect"}, s \in Sockets : Fire(<<SocketEvent(m, s)>>)

LEMMA ClientsBorn ==
    ASSUME TypeOK
    PROVE  1..born \subseteq Clients /\ born \in Nat
  BY ConstantsAssumption DEF TypeOK, Clients, ConstantsAssumption

LEMMA QuietQueue ==
    ASSUME TypeOK, QueueInvariant, Stable(1), NEW n, Take(n), QuietFire
    PROVE  QueueInvariant'
  <1>1. CASE Fire(<<>>)
    BY <1>1, DispatchNone
  <1>2. CASE \E m \in ClientEventNames \ StreamNames, c \in 1..born :
               Fire(<<ClientEvent(m, c)>>)
    <2>1. PICK m \in ClientEventNames \ StreamNames, c \in 1..born :
               Fire(<<ClientEvent(m, c)>>)
      BY <1>2
    <2>2. c \in Clients
      BY ClientsBorn
    <2> QED BY <2>1, <2>2, DispatchClientEvent
  <1>3. CASE \E m \in SocketEventNames \ {"disconnect"}, s \in Sockets :
               Fire(<<SocketEvent(m, s)>>)
    BY <1>3, DispatchSocketEvent
  <1> QED BY <1>1, <1>2, <1>3 DEF QuietFire

LEMMA QuietHandler ==
    ASSUME TypeOK, QueueInvariant, ClientsOwned, NEW n, Take(n), QuietFire,
           UNCHANGED <<conn, born, socket, known, requests>>,
           responses \subseteq responses',
           \A c \in Clients : task'[c] # "none" => task[c] # "none" \/ c \in 1..born
    PROVE  QueueInvariant' /\ ClientsOwned'
  <1>1. Stable(1)
    BY StableUnchanged
  <1>2. QueueInvariant'
    BY <1>1, QuietQueue
  <1>3. ClientsOwned'
    BY QuietClients
  <1> QED BY <1>2, <1>3

LEMMA OnTimeoutCheckKeeps == PipelineInvariant /\ OnTimeoutCheck => PipelineInvariant'
  <1> SUFFICES ASSUME PipelineInvariant, OnTimeoutCheck PROVE PipelineInvariant'
    OBVIOUS
  <1>1. Take("timeout.check") /\ QuietFire
    BY DEF OnTimeoutCheck, TakeSocket, QuietFire
  <1> QED BY <1>1, InvariantParts, QuietHandler, OnTimeoutCheckTypeOK
          DEF OnTimeoutCheck, netVars, clientVars, stateVars, pipeVars

LEMMA OnRoutingKeeps == PipelineInvariant /\ OnRouting => PipelineInvariant'
  <1> SUFFICES ASSUME PipelineInvariant, OnRouting PROVE PipelineInvariant'
    OBVIOUS
  <1>1. PICK c \in Clients, n \in DOMAIN NextHop : OnRouting!(c, n)
    BY DEF OnRouting
  <1>2. /\ n \in ClientEventNames /\ NextHop[n] \in ClientEventNames \ StreamNames
        /\ "httperror" \in ClientEventNames \ StreamNames
    BY DEF NextHop, ClientEventNames, StreamNames
  <1>3. c \in 1..born /\ Take(n)
    BY <1>1, <1>2, InvariantParts, HeadOwned DEF TakeClient
  <1>4. QuietFire
    BY <1>1, <1>2, <1>3 DEF QuietFire
  <1>5. UNCHANGED <<conn, born, socket, known, requests, responses, task>>
    BY <1>1 DEF netVars, clientVars, stateVars, pipeVars
  <1> QED BY <1>3, <1>4, <1>5, InvariantParts, QuietHandler, OnRoutingTypeOK

LEMMA OnRequestKeeps == PipelineInvariant /\ OnRequest => PipelineInvariant'
  <1> SUFFICES ASSUME PipelineInvariant, OnRequest PROVE PipelineInvariant'
    OBVIOUS
  <1>1. PICK c \in Clients : OnRequest!(c)
    BY DEF OnRequest
  <1>2. {"request_success", "response", "httperror", "request_failure"}
             \subseteq ClientEventNames \ StreamNames /\ "request" \in ClientEventNames
    BY DEF ClientEventNames, StreamNames
  <1>3. c \in 1..born /\ Take("request")
    BY <1>1, <1>2, InvariantParts, HeadOwned DEF TakeClient
  <1>4. QuietFire
    BY <1>1, <1>2, <1>3 DEF QuietFire
  <1>5. UNCHANGED <<conn, born, socket, known, requests, responses>>
    BY <1>1 DEF netVars, stateVars, pipeVars
  <1>6. \A d \in Clients : task'[d] # "none" => task[d] # "none" \/ d \in 1..born
    BY <1>1, <1>3, InvariantParts DEF TypeOK
  <1> QED BY <1>3, <1>4, <1>5, <1>6, InvariantParts, QuietHandler, OnRequestTypeOK

LEMMA OnRequestSuccessKeeps == PipelineInvariant /\ OnRequestSuccess => PipelineInvariant'
  <1> SUFFICES ASSUME PipelineInvariant, OnRequestSuccess PROVE PipelineInvariant'
    OBVIOUS
  <1>1. PICK c \in Clients : OnRequestSuccess!(c)
    BY DEF OnRequestSuccess
  <1>2. "request_success" \in ClientEventNames /\ "response" \in ClientEventNames \ StreamNames
    BY DEF ClientEventNames, StreamNames
  <1>3. c \in 1..born /\ Take("request_success")
    BY <1>1, <1>2, InvariantParts, HeadOwned DEF TakeClient
  <1>4. QuietFire
    BY <1>1, <1>2, <1>3 DEF QuietFire
  <1>5. UNCHANGED <<conn, born, socket, known, requests, responses, task>>
    BY <1>1 DEF netVars, clientVars, stateVars, pipeVars
  <1> QED BY <1>3, <1>4, <1>5, InvariantParts, QuietHandler, OnRequestSuccessTypeOK

LEMMA OnRequestFailureKeeps == PipelineInvariant /\ OnRequestFailure => PipelineInvariant'
  <1> SUFFICES ASSUME PipelineInvariant, OnRequestFailure PROVE PipelineInvariant'
    OBVIOUS
  <1>1. PICK c \in Clients : OnRequestFailure!(c)
    BY DEF OnRequestFailure
  <1>2. "request_failure" \in ClientEventNames /\ "httperror" \in ClientEventNames \ StreamNames
    BY DEF ClientEventNames, StreamNames
  <1>3. c \in 1..born /\ Take("request_failure")
    BY <1>1, <1>2, InvariantParts, HeadOwned DEF TakeClient
  <1>4. QuietFire
    BY <1>1, <1>2, <1>3 DEF QuietFire
  <1>5. UNCHANGED <<conn, born, socket, known, requests, responses, task>>
    BY <1>1 DEF netVars, stateVars, pipeVars
  <1> QED BY <1>3, <1>4, <1>5, InvariantParts, QuietHandler, OnRequestFailureTypeOK

LEMMA OnHTTPErrorKeeps == PipelineInvariant /\ OnHTTPError => PipelineInvariant'
  <1> SUFFICES ASSUME PipelineInvariant, OnHTTPError PROVE PipelineInvariant'
    OBVIOUS
  <1>1. PICK c \in Clients : OnHTTPError!(c)
    BY DEF OnHTTPError
  <1>2. /\ {"httperror_failure", "httperror_success"} \subseteq ClientEventNames \ StreamNames
        /\ "httperror" \in ClientEventNames
    BY DEF ClientEventNames, StreamNames
  <1>3. c \in 1..born /\ Take("httperror")
    BY <1>1, <1>2, InvariantParts, HeadOwned DEF TakeClient
  <1>4. QuietFire
    BY <1>1, <1>2, <1>3 DEF QuietFire
  <1>5. UNCHANGED <<conn, born, socket, known, requests, responses, task>>
    BY <1>1 DEF netVars, stateVars, pipeVars
  <1> QED BY <1>3, <1>4, <1>5, InvariantParts, QuietHandler, OnHTTPErrorTypeOK

LEMMA OnHTTPErrorSuccessKeeps ==
    PipelineInvariant /\ OnHTTPErrorSuccess => PipelineInvariant'
  <1> SUFFICES ASSUME PipelineInvariant, OnHTTPErrorSuccess PROVE PipelineInvariant'
    OBVIOUS
  <1>1. PICK c \in Clients : OnHTTPErrorSuccess!(c)
    BY DEF OnHTTPErrorSuccess
  <1>2. /\ {"response", "exception:httperror_success"} \subseteq ClientEventNames \ StreamNames
        /\ "httperror_success" \in ClientEventNames
    BY DEF ClientEventNames, StreamNames
  <1>3. c \in 1..born /\ Take("httperror_success")
    BY <1>1, <1>2, InvariantParts, HeadOwned DEF TakeClient
  <1>4. QuietFire
    BY <1>1, <1>2, <1>3 DEF QuietFire
  <1>5. UNCHANGED <<conn, born, socket, known, requests, responses, task>>
    BY <1>1 DEF netVars, clientVars, stateVars, pipeVars
  <1> QED BY <1>3, <1>4, <1>5, InvariantParts, QuietHandler, OnHTTPErrorSuccessTypeOK

LEMMA OnHTTPErrorFailureKeeps ==
    PipelineInvariant /\ OnHTTPErrorFailure => PipelineInvariant'
  <1> SUFFICES ASSUME PipelineInvariant, OnHTTPErrorFailure PROVE PipelineInvariant'
    OBVIOUS
  <1>1. PICK c \in Clients, n \in {"httperror_failure", "exception:httperror_success"} :
             OnHTTPErrorFailure!(c, n)
    BY DEF OnHTTPErrorFailure
  <1>2. n \in ClientEventNames /\ "close" \in SocketEventNames \ {"disconnect"}
    BY DEF ClientEventNames, SocketEventNames
  <1>3. socket[c] \in Sockets /\ Take(n)
    BY <1>1, <1>2, InvariantParts, HeadOwned DEF TakeClient
  <1>4. QuietFire
    BY <1>1, <1>2, <1>3 DEF QuietFire
  <1>5. UNCHANGED <<conn, born, socket, known, requests, responses, task>>
    BY <1>1 DEF netVars, stateVars, pipeVars
  <1> QED BY <1>3, <1>4, <1>5, InvariantParts, QuietHandler, OnHTTPErrorFailureTypeOK

LEMMA OnResponseFailureKeeps ==
    PipelineInvariant /\ OnResponseFailure => PipelineInvariant'
  <1> SUFFICES ASSUME PipelineInvariant, OnResponseFailure PROVE PipelineInvariant'
    OBVIOUS
  <1>1. PICK c \in Clients : OnResponseFailure!(c)
    BY DEF OnResponseFailure
  <1>2. "response_failure" \in ClientEventNames /\ "httperror" \in ClientEventNames \ StreamNames
    BY DEF ClientEventNames, StreamNames
  <1>3. c \in 1..born /\ Take("response_failure")
    BY <1>1, <1>2, InvariantParts, HeadOwned DEF TakeClient
  <1>4. QuietFire
    BY <1>1, <1>2, <1>3 DEF QuietFire
  <1>5. UNCHANGED <<conn, born, socket, known, requests, responses, task>>
    BY <1>1 DEF netVars, stateVars, pipeVars
  <1> QED BY <1>3, <1>4, <1>5, InvariantParts, QuietHandler, OnResponseFailureTypeOK

LEMMA OnExceptionKeeps == PipelineInvariant /\ OnException => PipelineInvariant'
  <1> SUFFICES ASSUME PipelineInvariant, OnException PROVE PipelineInvariant'
    OBVIOUS
  <1>1. PICK c \in Clients : OnException!(c)
    BY DEF OnException
  <1>2. /\ "exception:response.body" \in ClientEventNames
        /\ "close" \in SocketEventNames \ {"disconnect"}
    BY DEF ClientEventNames, SocketEventNames
  <1>3. socket[c] \in Sockets /\ Take("exception:response.body")
    BY <1>1, <1>2, InvariantParts, HeadOwned DEF TakeClient
  <1>4. QuietFire
    BY <1>1, <1>2, <1>3 DEF QuietFire
  <1>5. UNCHANGED <<conn, born, socket, known, requests, responses, task>>
    BY <1>1 DEF netVars, clientVars, stateVars, pipeVars
  <1> QED BY <1>3, <1>4, <1>5, InvariantParts, QuietHandler, OnExceptionTypeOK

LEMMA OnSocketErrorKeeps == PipelineInvariant /\ OnSocketError => PipelineInvariant'
  <1> SUFFICES ASSUME PipelineInvariant, OnSocketError PROVE PipelineInvariant'
    OBVIOUS
  <1>1. PICK s \in Sockets, e \in {"ssl error", "plaintext error"} : OnSocketError!(s, e)
    BY DEF OnSocketError
  <1>2. "close" \in SocketEventNames \ {"disconnect"}
    BY DEF SocketEventNames
  <1>3. Take(e) /\ QuietFire
    BY <1>1, <1>2 DEF TakeSocket, QuietFire
  <1>4. UNCHANGED <<conn, born, socket, known, requests, responses, task>>
    BY <1>1 DEF netVars, clientVars, stateVars, pipeVars
  <1> QED BY <1>3, <1>4, InvariantParts, QuietHandler, OnSocketErrorTypeOK

-----------------------------------------------------------------------------
(* The end of a connection *)

\* Removing the State of a connection that is closed takes nothing from what is
\* under way on the others.
LEMMA RemoveStateStable ==
    ASSUME TypeOK, ClientsOwned, NEW s \in Sockets, RemoveState(s),
           conn' = [conn EXCEPT ![s] = "closed"], UNCHANGED <<born, socket, task>>
    PROVE  Stable(1) /\ ClientsOwned'
  <1>1. born \in Nat
    BY ClientsBorn
  <1>2. conn'[s] = "closed" /\ \A t \in Sockets : t # s => conn'[t] = conn[t]
    BY DEF TypeOK
  <1>3. s \notin known' /\ \A t \in Sockets : t # s => (t \in known' <=> t \in known)
    BY DEF RemoveState
  <1>4. requests'[s] = <<>> /\ \A t \in Sockets : t # s => requests'[t] = requests[t]
    BY DEF RemoveState, TypeOK
  <1>5. \A c \in Clients : socket[c] # s => (c \in responses' <=> c \in responses)
    BY DEF RemoveState, Owned
  <1>6. ASSUME NEW c \in 1..born, MayStream(c) PROVE MayStream(c)'
    <2>1. socket[c] \in Sockets /\ c \in Clients
      BY ClientsBorn DEF ClientsOwned
    <2>2. CASE socket[c] = s
      BY <1>2, <1>3, <2>2 DEF MayStream
    <2>3. CASE socket[c] # s
      BY <1>2, <1>3, <1>4, <1>5, <1>6, <2>1, <2>3 DEF MayStream, IsHead
    <2> QED BY <2>2, <2>3
  <1>7. Stable(1)
    BY <1>1, <1>2, <1>6 DEF Stable
  <1>8. ClientsOwned'
    BY <1>3, <1>4 DEF ClientsOwned
  <1> QED BY <1>7, <1>8

LEMMA OnCloseKeeps == PipelineInvariant /\ OnClose => PipelineInvariant'
  <1> SUFFICES ASSUME PipelineInvariant, OnClose PROVE PipelineInvariant'
    OBVIOUS
  <1>1. PICK s \in Sockets : OnClose!(s)
    BY DEF OnClose
  <1>2. Stable(1) /\ ClientsOwned'
    BY <1>1, InvariantParts, RemoveStateStable DEF clientVars
  <1>3. conn'[s] = "closed" /\ Take("close") /\ "disconnect" \in SocketEventNames
    BY <1>1, InvariantParts DEF TypeOK, TakeSocket, SocketEventNames
  <1>4. QueueInvariant'
    <2>1. CASE Fire(<<>>)
      BY <1>2, <1>3, <2>1, InvariantParts, DispatchNone
    <2>2. CASE Fire(<<SocketEvent("disconnect", s)>>)
      BY <1>2, <1>3, <2>2, InvariantParts, DispatchSocketEvent
    <2> QED BY <1>1, <2>1, <2>2
  <1> QED BY <1>2, <1>4, InvariantParts, OnCloseTypeOK

LEMMA OnDisconnectKeeps == PipelineInvariant /\ OnDisconnect => PipelineInvariant'
  <1> SUFFICES ASSUME PipelineInvariant, OnDisconnect PROVE PipelineInvariant'
    OBVIOUS
  <1>1. PICK s \in Sockets : OnDisconnect!(s)
    BY DEF OnDisconnect
  <1>2. conn[s] = "closed"
    <2>1. queue # <<>> /\ Head(queue).name = "disconnect" /\ Head(queue).socket = s
      BY <1>1 DEF TakeSocket, Take
    <2>2. 1 \in 1..Len(queue) /\ Head(queue) = queue[1]
      BY <2>1, InvariantParts, HeadTailProperties, LenProperties, EmptySeq DEF TypeOK
    <2> QED BY <2>1, <2>2, InvariantParts DEF DisconnectsAreReal
  <1>3. conn' = [conn EXCEPT ![s] = "closed"]
    BY <1>1, <1>2, InvariantParts DEF TypeOK, netVars
  <1>4. Stable(1) /\ ClientsOwned'
    BY <1>1, <1>3, InvariantParts, RemoveStateStable DEF clientVars
  <1>5. QueueInvariant'
    BY <1>1, <1>4, InvariantParts, DispatchNone DEF TakeSocket
  <1> QED BY <1>4, <1>5, InvariantParts, OnDisconnectTypeOK

LEMMA OnEOFKeeps == PipelineInvariant /\ OnEOF => PipelineInvariant'
  <1> SUFFICES ASSUME PipelineInvariant, OnEOF PROVE PipelineInvariant'
    OBVIOUS
  <1>1. PICK s \in Sockets : OnEOF!(s)
    BY DEF OnEOF
  <1>2. conn'[s] = "closed" /\ Take("eof") /\ "disconnect" \in SocketEventNames
    BY <1>1, InvariantParts DEF TypeOK, TakeSocket, SocketEventNames
  <1>3. \A t \in Sockets : conn[t] = "closed" => conn'[t] = "closed"
    BY <1>1, InvariantParts DEF TypeOK
  <1>4. UNCHANGED <<born, socket, task, known, requests, responses>>
    BY <1>1 DEF clientVars, stateVars, pipeVars
  <1>5. ClientsOwned'
    BY <1>4, InvariantParts, QuietClients
  <1>6. Stable(1)
    <2>1. \A c \in 1..born : MayStream(c) => MayStream(c)'
      BY <1>3, <1>4, InvariantParts DEF MayStream, IsHead, ClientsOwned
    <2> QED BY <1>3, <1>4, <2>1, InvariantParts, ClientsBorn DEF Stable
  <1>7. QueueInvariant'
    <2>1. CASE Fire(<<>>)
      BY <1>2, <1>6, <2>1, InvariantParts, DispatchNone
    <2>2. CASE Fire(<<SocketEvent("disconnect", s)>>)
      BY <1>2, <1>6, <2>2, InvariantParts, DispatchSocketEvent
    <2> QED BY <1>1, <2>1, <2>2
  <1> QED BY <1>5, <1>7, InvariantParts, OnEOFTypeOK

-----------------------------------------------------------------------------
(* Between two batches *)

LEMMA TickKeeps == PipelineInvariant /\ Tick => PipelineInvariant'
  <1> SUFFICES ASSUME PipelineInvariant, Tick PROVE PipelineInvariant'
    OBVIOUS
  <1>1. UNCHANGED <<queue, conn, born, socket, task, known, requests, responses>>
    BY DEF Tick, netVars, clientVars, pipeVars
  <1>2. Stable(0)
    BY <1>1, InvariantParts, StableUnchanged
  <1>3. QueueInvariant' /\ ClientsOwned'
    BY <1>1, <1>2, InvariantParts, QueueUnchanged, QuietClients
  <1> QED BY <1>3, InvariantParts, TickTypeOK

LEMMA TasksKeep == PipelineInvariant /\ Tasks => PipelineInvariant'
  <1> SUFFICES ASSUME PipelineInvariant, Tasks PROVE PipelineInvariant'
    OBVIOUS
  <1>1. UNCHANGED <<conn, born, socket, known, requests, responses>>
    BY DEF Tasks, TaskEnds, StoppedTaskEnds, TimerExpires, netVars, clientVars,
           stateVars, pipeVars
  <1>2. Stable(0) /\ Stable(1)
    BY <1>1, InvariantParts, StableUnchanged
  <1>3. \A d \in Clients : task'[d] # "none" => task[d] # "none"
    BY InvariantParts DEF Tasks, TaskEnds, StoppedTaskEnds, TimerExpires, clientVars, TypeOK
  <1>4. ClientsOwned'
    BY <1>1, <1>3, InvariantParts, QuietClients
  <1>5. ASSUME NEW c \in Clients, task[c] # "none",
               NEW m \in ClientEventNames \ StreamNames, Enqueue(ClientEvent(m, c))
        PROVE  QueueInvariant'
    <2>1. c \in 1..born
      BY <1>5, InvariantParts DEF ClientsOwned
    <2>2. ClientEvent(m, c) \in Events /\ Plain(ClientEvent(m, c))'
      BY <1>2, <2>1, ClientEventType, ClientEventPlain
    <2> QED BY <1>2, <1>5, <2>2, InvariantParts, EnqueuePlain
  <1>6. QueueInvariant'
    <2>1. {"request_success", "request_failure"} \subseteq ClientEventNames \ StreamNames
      BY DEF ClientEventNames, StreamNames
    <2>2. ASSUME NEW c \in Clients, TaskEnds(c) PROVE QueueInvariant'
      BY <1>5, <2>1, <2>2 DEF TaskEnds
    <2>3. ASSUME NEW c \in Clients, StoppedTaskEnds(c) PROVE QueueInvariant'
      <3>1. CASE UNCHANGED queue
        BY <1>2, <3>1, InvariantParts, QueueUnchanged
      <3>2. CASE Enqueue(ClientEvent("request_failure", c))
        BY <1>5, <2>1, <2>3, <3>2 DEF StoppedTaskEnds
      <3> QED BY <2>3, <3>1, <3>2 DEF StoppedTaskEnds, loopVars
    <2>4. ASSUME NEW s \in Sockets, TimerExpires(s) PROVE QueueInvariant'
      <3>1. SocketEvent("close", s) \in Events /\ Plain(SocketEvent("close", s))'
        BY SocketEventType, SocketEventPlain DEF SocketEventNames
      <3>2. CASE UNCHANGED queue
        BY <1>2, <3>2, InvariantParts, QueueUnchanged
      <3>3. CASE Enqueue(SocketEvent("close", s))
        BY <1>2, <3>1, <3>3, InvariantParts, EnqueuePlain
      <3> QED BY <2>4, <3>2, <3>3 DEF TimerExpires, Enqueue
    <2> QED BY <2>2, <2>3, <2>4 DEF Tasks
  <1> QED BY <1>4, <1>6, InvariantParts, TasksTypeOK

LEMMA EnvironmentKeeps == PipelineInvariant /\ Environment => PipelineInvariant'
  <1> SUFFICES ASSUME PipelineInvariant, Environment PROVE PipelineInvariant'
    OBVIOUS
  <1>1. UNCHANGED <<born, socket, task, known, requests, responses>>
    BY DEF Environment, Accept, Hangup, PeerSends, TLSError, clientVars, stateVars, pipeVars
  <1>2. \A t \in Sockets : conn[t] = "closed" => conn'[t] = "closed"
    <2>1. conn \in [Sockets -> {"new", "open", "eof", "closed"}]
      BY InvariantParts DEF TypeOK
    <2>2. \/ conn' = conn
          \/ \E s \in Sockets, x \in {"open", "eof"} :
                conn[s] # "closed" /\ conn' = [conn EXCEPT ![s] = x]
      BY DEF Environment, Accept, Hangup, PeerSends, TLSError
    <2> QED BY <2>1, <2>2
  <1>3. Stable(0)
    <2>1. \A c \in 1..born : MayStream(c) => MayStream(c)'
      BY <1>1, <1>2, InvariantParts DEF MayStream, IsHead, ClientsOwned
    <2> QED BY <1>1, <1>2, <2>1, InvariantParts, ClientsBorn DEF Stable
  <1>4. ClientsOwned'
    BY <1>1, InvariantParts, QuietClients
  <1>5. ASSUME NEW s \in Sockets, NEW m \in SocketEventNames \ {"disconnect"},
               Enqueue(SocketEvent(m, s))
        PROVE  QueueInvariant'
    <2>1. SocketEvent(m, s) \in Events /\ Plain(SocketEvent(m, s))'
      BY SocketEventType, SocketEventPlain
    <2> QED BY <1>3, <1>5, <2>1, InvariantParts, EnqueuePlain
  <1>6. ASSUME NEW s \in Sockets, NEW n \in ReadSizes,
               NEW d \in {"http", "malformed", "tls"}, PeerSends(s, n, d)
        PROVE  QueueInvariant'
    <2> DEFINE e == [name |-> "read", socket |-> s, messages |-> n, data |-> d]
    <2>1. e \in Events
      BY DEF Events, ReadEvents
    <2>2. Plain(e)'
      BY DEF Plain, StreamNames, ClientEventNames
    <2> QED BY <1>3, <1>6, <2>1, <2>2, InvariantParts, EnqueuePlain DEF PeerSends
  <1>7. QueueInvariant'
    <2>1. {"timeout.check", "eof", "ssl error", "plaintext error"}
            \subseteq SocketEventNames \ {"disconnect"}
      BY DEF SocketEventNames
    <2> QED BY <1>5, <1>6, <2>1 DEF Environment, Accept, Hangup, TLSError
  <1> QED BY <1>4, <1>7, InvariantParts, EnvironmentTypeOK

-----------------------------------------------------------------------------
(* The handlers that move a response on *)

LEMMA OnResponseStartKeeps == PipelineInvariant /\ OnResponseStart => PipelineInvariant'
  <1> SUFFICES ASSUME PipelineInvariant, OnResponseStart PROVE PipelineInvariant'
    OBVIOUS
  <1>1. PICK c \in Clients : OnResponseStart!(c)
    BY DEF OnResponseStart
  <1>2. {"response.start", "response.body"} \subseteq StreamNames
        /\ StreamNames \subseteq ClientEventNames
    BY DEF ClientEventNames, StreamNames
  <1>3. c \in 1..born /\ Take("response.start")
    BY <1>1, <1>2, InvariantParts, HeadOwned DEF TakeClient
  <1>4. UNCHANGED <<conn, born, socket, task, known, requests, responses>>
    BY <1>1 DEF netVars
  <1>5. Stable(1) /\ ClientsOwned'
    BY <1>4, InvariantParts, StableUnchanged, QuietClients
  <1>6. MayStream(c)' /\ \A i \in Streams : i # 1 => socket[queue[i].client] # socket[c]
    <2>1. MayStream(c) /\ \A i \in Streams : i # 1 => socket[queue[i].client] # socket[c]
      BY <1>1, <1>2, InvariantParts, HeadIsOnlyStream
    <2> QED BY <1>4, <2>1 DEF MayStream, IsHead
  <1>7. QueueInvariant'
    <2>1. CASE Fire(<<>>)
      BY <1>3, <1>5, <2>1, InvariantParts, DispatchNone
    <2>2. CASE Fire(<<ClientEvent("response.body", c)>>)
      BY <1>2, <1>3, <1>5, <1>6, <2>2, InvariantParts, DispatchStream
    <2> QED BY <1>1, <2>1, <2>2
  <1> QED BY <1>5, <1>7, InvariantParts, OnResponseStartTypeOK

LEMMA OnResponseBodyKeeps == PipelineInvariant /\ OnResponseBody => PipelineInvariant'
  <1> SUFFICES ASSUME PipelineInvariant, OnResponseBody PROVE PipelineInvariant'
    OBVIOUS
  <1>1. PICK c \in Clients : OnResponseBody!(c)
    BY DEF OnResponseBody
  <1>2. {"response.body", "response.complete"} \subseteq StreamNames
        /\ StreamNames \subseteq ClientEventNames
        /\ "exception:response.body" \in ClientEventNames \ StreamNames
    BY DEF ClientEventNames, StreamNames
  <1>3. c \in 1..born /\ Take("response.body")
    BY <1>1, <1>2, InvariantParts, HeadOwned DEF TakeClient
  <1>4. UNCHANGED <<conn, born, socket, task, known, requests, responses>>
    BY <1>1 DEF netVars, stateVars, pipeVars
  <1>5. Stable(1) /\ ClientsOwned'
    BY <1>4, InvariantParts, StableUnchanged, QuietClients
  <1>6. MayStream(c)' /\ \A i \in Streams : i # 1 => socket[queue[i].client] # socket[c]
    <2>1. MayStream(c) /\ \A i \in Streams : i # 1 => socket[queue[i].client] # socket[c]
      BY <1>1, <1>2, InvariantParts, HeadIsOnlyStream
    <2> QED BY <1>4, <2>1 DEF MayStream, IsHead
  <1>7. QueueInvariant'
    <2>1. CASE Fire(<<ClientEvent("exception:response.body", c)>>)
      BY <1>2, <1>3, <1>5, <2>1, InvariantParts, DispatchClientEvent
    <2>2. CASE Fire(<<ClientEvent("response.body", c)>>)
      BY <1>2, <1>3, <1>5, <1>6, <2>2, InvariantParts, DispatchStream
    <2>3. CASE Fire(<<ClientEvent("response.complete", c)>>)
      BY <1>2, <1>3, <1>5, <1>6, <2>3, InvariantParts, DispatchStream
    <2> QED BY <1>1, <2>1, <2>2, <2>3
  <1> QED BY <1>5, <1>7, InvariantParts, OnResponseBodyTypeOK

\* When the first request leaves the pipeline, the response of the second may
\* start: the one that is complete was the only one under way.
LEMMA OnResponseCompleteKeeps ==
    PipelineInvariant /\ OnResponseComplete => PipelineInvariant'
  <1> SUFFICES ASSUME PipelineInvariant, OnResponseComplete PROVE PipelineInvariant'
    OBVIOUS
  <1>1. PICK c \in Clients : OnResponseComplete!(c)
    BY DEF OnResponseComplete
  <1>2. /\ {"response.start", "response.complete"} \subseteq StreamNames
        /\ StreamNames \subseteq ClientEventNames
        /\ "close" \in SocketEventNames
    BY DEF ClientEventNames, StreamNames, SocketEventNames
  <1>3. c \in 1..born /\ Take("response.complete") /\ socket[c] \in Sockets
    BY <1>1, <1>2, InvariantParts, HeadOwned DEF TakeClient
  <1> DEFINE s == socket[c]
             next == Head(Tail(requests[s]))
  <1>4. \A i \in Streams : i # 1 => socket[queue[i].client] # s
    BY <1>1, <1>2, InvariantParts, HeadIsOnlyStream
  <1>5. UNCHANGED <<conn, born, socket, task, known, responses>>
    BY <1>1 DEF netVars
  <1>6. requests \in [Sockets -> Seq(Clients)]
    BY InvariantParts DEF TypeOK
  <1>7. CASE Fire(<<>>) /\ UNCHANGED requests
    <2>1. Stable(1) /\ ClientsOwned'
      BY <1>5, <1>7, InvariantParts, StableUnchanged, QuietClients
    <2>2. QueueInvariant'
      BY <1>3, <1>7, <2>1, InvariantParts, DispatchNone
    <2> QED BY <2>1, <2>2, InvariantParts, OnResponseCompleteTypeOK
  <1>8. CASE /\ ~Unanswerable(c) /\ IsHead(s, c)
             /\ requests' = [requests EXCEPT ![s] = Tail(@)]
             /\ Fire(IF Tail(requests[s]) = <<>>
                     THEN IF c \in composed THEN <<SocketEvent("close", s)>> ELSE <<>>
                     ELSE IF next \in responses \ response_started
                          THEN <<ClientEvent("response.start", next)>> ELSE <<>>)
    <2>1. /\ requests'[s] = Tail(requests[s])
          /\ \A t \in Sockets : t # s => requests'[t] = requests[t]
      BY <1>3, <1>6, <1>8
    <2>2. /\ Len(Tail(requests[s])) = Len(requests[s]) - 1
          /\ \A i \in 1..Len(Tail(requests[s])) : Tail(requests[s])[i] = requests[s][i+1]
          /\ Len(requests[s]) \in Nat
      BY <1>3, <1>6, <1>8, HeadTailProperties, LenProperties DEF IsHead
    <2>3. ClientsOwned'
      <3>1. ASSUME NEW t \in Sockets, NEW i \in 1..Len(requests'[t])
            PROVE  requests'[t][i] \in 1..born /\ socket[requests'[t][i]] = t /\ t \in known
        <4>1. CASE t = s
          <5>0. i \in 1..Len(Tail(requests[s])) /\ requests'[t][i] = Tail(requests[s])[i]
            BY <2>1, <3>1, <4>1
          <5>1. i+1 \in 1..Len(requests[s]) /\ requests'[t][i] = requests[s][i+1]
            BY <2>2, <5>0
          <5> QED BY <1>3, <4>1, <5>1, InvariantParts DEF ClientsOwned
        <4>2. CASE t # s
          BY <2>1, <3>1, <4>2, InvariantParts DEF ClientsOwned
        <4> QED BY <4>1, <4>2
      <3> QED BY <1>5, <3>1, InvariantParts DEF ClientsOwned
    <2>4. Stable(1)
      <3>1. ASSUME NEW d \in 1..born, NEW i \in Streams, i > 1, queue[i].client = d,
                   MayStream(d)
            PROVE  MayStream(d)'
        <4>1. socket[d] # s /\ socket[d] \in Sockets
          BY <1>4, <3>1, InvariantParts DEF ClientsOwned
        <4>2. requests'[socket[d]] = requests[socket[d]]
          BY <2>1, <4>1
        <4> QED BY <1>5, <3>1, <4>2 DEF MayStream, IsHead
      <3> QED BY <1>5, <3>1, InvariantParts, ClientsBorn DEF Stable
    <2>5. QueueInvariant'
      <3>1. CASE Fire(<<>>)
        BY <1>3, <2>4, <3>1, InvariantParts, DispatchNone
      <3>2. CASE Fire(<<SocketEvent("close", s)>>)
        BY <1>2, <1>3, <2>4, <3>2, InvariantParts, DispatchSocketEvent
      <3>3. CASE /\ Tail(requests[s]) # <<>> /\ next \in responses
                 /\ Fire(<<ClientEvent("response.start", next)>>)
        <4>0. PICK d : d = next
          OBVIOUS
        <4>1. d \in 1..born /\ d \in Clients /\ socket[d] = s
          BY <1>3, <1>8, <3>3, <4>0, InvariantParts, NextOwned DEF IsHead
        <4>2. MayStream(d)'
          <5>1. s \in known /\ d \in responses
            BY <1>8, <3>3, <4>0 DEF Unanswerable
          <5>2. requests'[s] # <<>> /\ Head(requests'[s]) = d
            BY <2>1, <3>3, <4>0
          <5> QED BY <1>5, <4>1, <5>1, <5>2 DEF MayStream, IsHead
        <4>3. \A i \in Streams : i # 1 => socket[queue[i].client] # socket[d]
          BY <1>4, <4>1
        <4>4. Fire(<<ClientEvent("response.start", d)>>)
          BY <3>3, <4>0
        <4> QED BY <1>2, <1>3, <2>4, <4>1, <4>2, <4>3, <4>4, InvariantParts, DispatchStream
      <3> QED BY <1>8, <3>1, <3>2, <3>3
    <2> QED BY <2>3, <2>5, InvariantParts, OnResponseCompleteTypeOK
  <1> QED BY <1>1, <1>7, <1>8 DEF AfterComplete

\* The same when other, plain events are fired around the one of the response.
LEMMA DispatchStreamAmong ==
    ASSUME TypeOK, QueueInvariant, Stable(1), NEW n, Take(n),
           NEW es \in Seq(Events), Fire(es), NEW j \in 1..Len(es), NEW c \in 1..born,
           es[j].name \in StreamNames, es[j].client = c,
           \A i \in 1..Len(es) : i # j => Plain(es[i])', MayStream(c)',
           \A i \in Streams : i # 1 => socket[queue[i].client] # socket[c]
    PROVE  QueueInvariant'
  <1>1. queue' \in Seq(Events)
    BY FireType DEF TypeOK
  <1>2. queue # <<>> /\ Len(queue) \in Nat \ {0} /\ Len(es) \in Nat
        /\ Tail(queue) \in Seq(Events) /\ Len(Tail(queue)) = Len(queue) - 1
    BY LenProperties, EmptySeq, HeadTailProperties DEF TypeOK, Take
  <1>3. PICK k : k = Len(queue) - 1 + j
    OBVIOUS
  <1>4. k \in 1..Len(queue') /\ queue'[k] = es[j]
    <2>1. /\ Len(queue') = Len(Tail(queue)) + Len(es)
          /\ \A i \in 1..Len(Tail(queue)) + Len(es) :
               queue'[i] = IF i <= Len(Tail(queue)) THEN Tail(queue)[i]
                           ELSE es[i - Len(Tail(queue))]
      BY <1>2, ConcatProperties DEF Fire
    <2>2. k \in 1..Len(queue') /\ ~(k <= Len(Tail(queue))) /\ k - Len(Tail(queue)) = j
      BY <1>2, <1>3, <2>1
    <2> QED BY <2>1, <2>2
  <1>5. ASSUME NEW i \in 1..Len(queue'), i # k
        PROVE  \/ i+1 \in 1..Len(queue) /\ queue'[i] = queue[i+1]
               \/ Plain(queue[i])'
    <2>1. \/ i+1 \in 1..Len(queue) /\ queue'[i] = queue[i+1]
          \/ /\ i - (Len(queue) - 1) \in 1..Len(es)
             /\ queue'[i] = es[i - (Len(queue) - 1)]
      BY FireElements DEF TypeOK
    <2>2. i - (Len(queue) - 1) # j
      BY <1>1, <1>2, <1>3, <1>5, LenProperties
    <2> QED BY <2>1, <2>2 DEF Plain
  <1> QED BY <1>1, <1>4, <1>5, StreamStep DEF TypeOK

\* Two handlers of one event fire one event each.
LEMMA TwoEvents ==
    ASSUME NEW S, NEW x \in S, NEW y \in S
    PROVE  <<x>> \o <<y>> = <<x, y>> /\ <<x>> \o <<>> = <<x>> /\ <<>> \o <<x>> = <<x>>
  <1>1. PICK s, t, u : s = <<x>> /\ t = <<y>> /\ u = <<x, y>>
    OBVIOUS
  <1>2. /\ s \in Seq(S) /\ Len(s) = 1 /\ s[1] = x
        /\ t \in Seq(S) /\ Len(t) = 1 /\ t[1] = y
        /\ u \in Seq(S) /\ Len(u) = 2 /\ u[1] = x /\ u[2] = y
    BY <1>1
  <1>3. /\ s \o t \in Seq(S) /\ Len(s \o t) = 2
        /\ \A i \in 1..2 : (s \o t)[i] = IF i <= 1 THEN s[i] ELSE t[i-1]
    BY <1>2, ConcatProperties
  <1>4. \A i \in 1..2 : (s \o t)[i] = u[i]
    BY <1>2, <1>3
  <1>5. s \o t = u
    BY <1>2, <1>3, <1>4, SeqEqual
  <1> QED BY <1>1, <1>2, <1>5, ConcatEmptySeq

\* A response that finds its request first begins, and no other of that
\* connection is under way: it would be the one of the same request.
LEMMA OnResponseKeeps == PipelineInvariant /\ OnResponse => PipelineInvariant'
  <1> SUFFICES ASSUME PipelineInvariant, OnResponse PROVE PipelineInvariant'
    OBVIOUS
  <1>1. PICK c \in Clients : OnResponse!(c)
    BY DEF OnResponse
  <1>2. /\ {"response", "response.start"} \subseteq ClientEventNames
        /\ {"response_failure", "httperror"} \subseteq ClientEventNames \ StreamNames
        /\ "response.start" \in StreamNames
    BY DEF ClientEventNames, StreamNames
  <1>3. c \in 1..born /\ Take("response")
    BY <1>1, <1>2, InvariantParts, HeadOwned DEF TakeClient
  <1>4. UNCHANGED <<conn, born, socket, task, known, requests>>
        /\ responses \subseteq responses'
    BY <1>1 DEF netVars
  <1>5. Stable(1) /\ ClientsOwned'
    BY <1>4, InvariantParts, StableUnchanged, QuietClients
  <1> DEFINE f == ClientEvent("response_failure", c)
             b == ClientEvent("response.start", c)
             begins == ~Unanswerable(c) /\ c \notin responses /\ IsHead(socket[c], c)
                       /\ responses' = responses \cup {c}
  <1>6. f \in Events /\ b \in Events /\ Plain(f)'
    BY <1>2, <1>3, <1>5, ClientEventType, ClientEventPlain
  <1>7. b.name \in StreamNames /\ b.client = c
    BY <1>2 DEF ClientEvent
  <1>8. \/ Fire(<<>>) \/ Fire(<<f>>) \/ Fire(<<f, f>>)
        \/ Fire(<<ClientEvent("httperror", c)>>)
        \/ begins /\ (Fire(<<b>>) \/ Fire(<<f, b>>) \/ Fire(<<b, f>>))
    <2> DEFINE failure == <<f>>
               start == IF c \in responses THEN failure
                        ELSE IF IsHead(socket[c], c) THEN <<b>> ELSE <<>>
    <2> HIDE DEF f, b
    <2>1. /\ <<f>> \o <<f>> = <<f, f>> /\ <<f>> \o <<b>> = <<f, b>>
          /\ <<b>> \o <<f>> = <<b, f>> /\ <<f>> \o <<>> = <<f>> /\ <<>> \o <<f>> = <<f>>
      BY <1>6, TwoEvents
    <2>2. \/ Fire(<<>>) \/ Fire(<<f>>) \/ Fire(<<ClientEvent("httperror", c)>>)
          \/ /\ ~Unanswerable(c) /\ responses' = responses \cup {c}
             /\ Fire(start) \/ Fire(failure \o start) \/ Fire(start \o failure)
      BY <1>1 DEF f, b, ResponseOutcome
    <2>3. CASE c \in responses
      <3>1. start = <<f>>
        BY <2>3
      <3> QED BY <2>1, <2>2, <3>1
    <2>4. CASE c \notin responses /\ IsHead(socket[c], c)
      <3>1. start = <<b>>
        BY <2>4
      <3> QED BY <2>1, <2>2, <2>4, <3>1
    <2>5. CASE c \notin responses /\ ~IsHead(socket[c], c)
      <3>1. start = <<>>
        BY <2>5
      <3> QED BY <2>1, <2>2, <3>1
    <2> QED BY <2>3, <2>4, <2>5
  <1>9. begins => /\ MayStream(c)'
                  /\ \A i \in Streams : i # 1 => socket[queue[i].client] # socket[c]
    <2> SUFFICES ASSUME begins
                 PROVE  /\ MayStream(c)'
                        /\ \A i \in Streams : socket[queue[i].client] # socket[c]
      OBVIOUS
    <2>1. MayStream(c)'
      BY <1>4 DEF MayStream, IsHead, Unanswerable
    <2>2. \A i \in Streams : MayStream(queue[i].client)
      BY InvariantParts DEF QueueInvariant, StreamState
    <2> QED BY <2>1, <2>2 DEF MayStream, IsHead, Unanswerable
  <1> HIDE DEF f, b, begins
  <1>10. QueueInvariant'
    <2>1. CASE Fire(<<>>)
      BY <1>3, <1>5, <2>1, InvariantParts, DispatchNone
    <2>2. CASE Fire(<<f>>)
      BY <1>3, <1>5, <1>6, <2>2, InvariantParts, DispatchPlainEvent
    <2>3. CASE Fire(<<ClientEvent("httperror", c)>>)
      BY <1>2, <1>3, <1>5, <2>3, InvariantParts, DispatchClientEvent
    <2>4. CASE Fire(<<f, f>>)
      <3>1. PICK es : es = <<f, f>>
        OBVIOUS
      <3>2. es \in Seq(Events) /\ \A k \in 1..Len(es) : es[k] = f
        BY <1>6, <3>1
      <3>3. \A k \in 1..Len(es) : Plain(es[k])'
        BY <1>6, <3>2 DEF Plain
      <3> QED BY <1>3, <1>5, <2>4, <3>1, <3>2, <3>3, InvariantParts, DispatchPlain
    <2>5. ASSUME begins,
                 NEW es \in Seq(Events), Fire(es), NEW j \in 1..Len(es), es[j] = b,
                 \A i \in 1..Len(es) : i # j => es[i] = f
          PROVE  QueueInvariant'
      <3>1. \A i \in 1..Len(es) : i # j => Plain(es[i])'
        BY <1>6, <2>5 DEF Plain
      <3> QED BY <1>3, <1>5, <1>7, <1>9, <2>5, <3>1, InvariantParts, DispatchStreamAmong
    <2>6. CASE begins /\ Fire(<<b>>)
      <3>1. PICK es : es = <<b>>
        OBVIOUS
      <3>2. es \in Seq(Events) /\ 1 \in 1..Len(es) /\ es[1] = b
            /\ \A i \in 1..Len(es) : i # 1 => es[i] = f
        BY <1>6, <3>1
      <3> QED BY <2>5, <2>6, <3>1, <3>2
    <2>7. CASE begins /\ Fire(<<f, b>>)
      <3>1. PICK es : es = <<f, b>>
        OBVIOUS
      <3>2. es \in Seq(Events) /\ 2 \in 1..Len(es) /\ es[2] = b
            /\ \A i \in 1..Len(es) : i # 2 => es[i] = f
        BY <1>6, <3>1
      <3> QED BY <2>5, <2>7, <3>1, <3>2
    <2>8. CASE begins /\ Fire(<<b, f>>)
      <3>1. PICK es : es = <<b, f>>
        OBVIOUS
      <3>2. es \in Seq(Events) /\ 1 \in 1..Len(es) /\ es[1] = b
            /\ \A i \in 1..Len(es) : i # 1 => es[i] = f
        BY <1>6, <3>1
      <3> QED BY <2>5, <2>8, <3>1, <3>2
    <2> QED BY <1>8, <2>1, <2>2, <2>3, <2>4, <2>6, <2>7, <2>8
  <1> QED BY <1>5, <1>10, InvariantParts, OnResponseTypeOK

-----------------------------------------------------------------------------
(* Reading *)

\* New requests go behind those that wait, and belong to the connection.
ReadAppends(s, n, new) ==
    /\ born \in Nat /\ 1..born \subseteq Clients
    /\ requests[s] \in Seq(Clients) /\ Len(requests[s]) \in Nat
    /\ requests'[s] = requests[s] \o new
    /\ \A t \in Sockets : t # s => requests'[t] = requests[t]
    /\ Len(requests'[s]) = Len(requests[s]) + n
    /\ \A i \in 1..Len(requests'[s]) :
         requests'[s][i] = IF i <= Len(requests[s]) THEN requests[s][i]
                           ELSE new[i - Len(requests[s])]
    /\ \A c \in 1..born : socket'[c] = socket[c]
    /\ \A c \in born+1 .. born+n : socket'[c] = s

LEMMA ReadRequests ==
    ASSUME TypeOK, NEW s \in Sockets, NEW n \in Nat, NEW first, ReadOutcome(s, n, first)
    PROVE  \E new \in Seq(Clients) :
             /\ Len(new) = n /\ \A i \in 1..n : new[i] = born + i
             /\ ReadAppends(s, n, new)
  <1>1. born \in Nat /\ 1..born \subseteq Clients /\ born + n <= MaxClients
    BY ClientsBorn DEF ReadOutcome
  <1>2. PICK new \in Seq(Clients) :
             /\ Len(new) = n /\ \A i \in 1..n : new[i] = born + i
             /\ requests' = [requests EXCEPT ![s] = @ \o new]
    <2> DEFINE seq == [k \in 1..n |-> born + k]
    <2>1. seq \in Seq(Clients)
      BY <1>1, NewClients
    <2>2. Len(seq) = n /\ \A i \in 1..n : seq[i] = born + i
      BY <2>1
    <2>3. requests' = [requests EXCEPT ![s] = @ \o seq]
      BY DEF ReadOutcome
    <2> HIDE DEF seq
    <2> QED BY <2>1, <2>2, <2>3
  <1>3. /\ requests[s] \in Seq(Clients) /\ Len(requests[s]) \in Nat
        /\ requests'[s] = requests[s] \o new
        /\ \A t \in Sockets : t # s => requests'[t] = requests[t]
    BY <1>2, LenProperties DEF TypeOK
  <1>4. /\ Len(requests'[s]) = Len(requests[s]) + n
        /\ \A i \in 1..Len(requests'[s]) :
             requests'[s][i] = IF i <= Len(requests[s]) THEN requests[s][i]
                               ELSE new[i - Len(requests[s])]
    <2>1. /\ Len(requests[s] \o new) = Len(requests[s]) + Len(new)
          /\ \A i \in 1..Len(requests[s]) + Len(new) :
               (requests[s] \o new)[i] = IF i <= Len(requests[s]) THEN requests[s][i]
                                         ELSE new[i - Len(requests[s])]
      BY <1>3, ConcatProperties
    <2> QED BY <1>2, <1>3, <2>1
  <1>5. /\ \A c \in 1..born : socket'[c] = socket[c]
        /\ \A c \in born+1 .. born+n : socket'[c] = s
    BY <1>1, ConstantsAssumption DEF ReadOutcome, Clients, ConstantsAssumption
  <1> QED BY <1>1, <1>2, <1>3, <1>4, <1>5 DEF ReadAppends

\* What a read fires
LEMMA ReadFires ==
    ASSUME TypeOK, NEW s \in Sockets, NEW n \in Nat,
           NEW first \in {"routing", "httperror"}, ReadOutcome(s, n, first)
    PROVE  \E es \in Seq(Events) :
             Fire(es) /\ \A i \in 1..Len(es) :
               \/ es[i] = SocketEvent("timeout.check", s)
               \/ es[i] = SocketEvent("close", s) /\ n = 0 /\ OnlyAlerts(s)
               \/ \E c \in 1..born' : es[i] = ClientEvent(first, c)
  <1>1. born \in Nat /\ born' = born + n /\ born + n <= MaxClients
    BY ClientsBorn DEF ReadOutcome
  <1> DEFINE check == SocketEvent("timeout.check", s)
             close == SocketEvent("close", s)
  <1>2. check \in Events /\ close \in Events
    BY SocketEventType DEF SocketEventNames
  <1>3. \/ Fire(<<close>> \o <<check>>) /\ n = 0 /\ OnlyAlerts(s)
        \/ Fire([k \in 1..n |-> ClientEvent(first, born + k)] \o <<check>>)
    BY DEF ReadOutcome
  <1> HIDE DEF check, close
  <1>4. CASE Fire(<<close>> \o <<check>>) /\ n = 0 /\ OnlyAlerts(s)
    <2>1. PICK es : es = <<close, check>>
      OBVIOUS
    <2>2. es = <<close>> \o <<check>>
      BY <1>2, <2>1, TwoEvents
    <2>3. Fire(es)
      BY <1>4, <2>2
    <2>4. es \in Seq(Events) /\ Len(es) = 2 /\ es[1] = close /\ es[2] = check
      BY <1>2, <2>1
    <2> QED BY <1>4, <2>3, <2>4 DEF check, close
  <1>5. CASE Fire([k \in 1..n |-> ClientEvent(first, born + k)] \o <<check>>)
    <2> DEFINE some == [k \in 1..n |-> ClientEvent(first, born + k)]
               last == <<check>>
    <2>1. some \in Seq(Events) /\ Len(some) = n
          /\ \A k \in 1..n : some[k] = ClientEvent(first, born + k)
      <3>1. some \in Seq(Events)
        BY <1>1, NewClientEvents DEF ClientEventNames
      <3> QED BY <3>1
    <2>2. last \in Seq(Events) /\ Len(last) = 1 /\ last[1] = check
      BY <1>2
    <2>3. Fire(some \o last)
      BY <1>5
    <2> HIDE DEF some, last
    <2>4. /\ some \o last \in Seq(Events) /\ Len(some \o last) = n + 1
          /\ \A i \in 1..n+1 : (some \o last)[i] = IF i <= n THEN some[i] ELSE last[i - n]
      <3>1. /\ some \o last \in Seq(Events)
            /\ Len(some \o last) = Len(some) + Len(last)
            /\ \A i \in 1..Len(some) + Len(last) :
                 (some \o last)[i] = IF i <= Len(some) THEN some[i]
                                     ELSE last[i - Len(some)]
        BY <2>1, <2>2, ConcatProperties
      <3> QED BY <2>1, <2>2, <3>1
    <2>5. ASSUME NEW i \in 1..n+1
          PROVE  \/ (some \o last)[i] = check
                 \/ \E c \in 1..born' : (some \o last)[i] = ClientEvent(first, c)
      <3>1. CASE i <= n
        <4>1. i \in 1..n /\ born + i \in 1..born'
          BY <1>1, <3>1
        <4> QED BY <2>1, <2>4, <3>1, <4>1
      <3>2. CASE ~(i <= n)
        BY <2>2, <2>4, <3>2
      <3> QED BY <3>1, <3>2
    <2> QED BY <2>3, <2>4, <2>5 DEF check
  <1> QED BY <1>3, <1>4, <1>5

\* A read that comes after the close makes no request, so the State it brings
\* back is empty.
LEMMA OnReadKeeps == PipelineInvariant /\ OnRead => PipelineInvariant'
  <1> SUFFICES ASSUME PipelineInvariant, OnRead PROVE PipelineInvariant'
    OBVIOUS
  <1>1. PICK s \in Sockets, n \in Nat, first \in {"routing", "httperror"} :
             ReadOutcome(s, n, first)
    BY InvariantParts, OnReadCases
  <1>2. UNCHANGED <<conn, task, responses>>
    BY DEF OnRead, netVars
  <1>3. /\ Take("read") /\ born' = born + n /\ born \in Nat
        /\ 1..born \subseteq Clients /\ born + n <= MaxClients
        /\ known' = known \cup {s} /\ (conn[s] = "closed" => n = 0)
    BY <1>1, InvariantParts, ClientsBorn DEF ReadOutcome
  <1>4. PICK new \in Seq(Clients) :
             /\ Len(new) = n /\ \A i \in 1..n : new[i] = born + i
             /\ ReadAppends(s, n, new)
    BY <1>1, InvariantParts, ReadRequests
  <1>5. /\ requests[s] \in Seq(Clients) /\ Len(requests[s]) \in Nat
        /\ requests'[s] = requests[s] \o new
        /\ \A t \in Sockets : t # s => requests'[t] = requests[t]
    BY <1>4 DEF ReadAppends
  <1>6. /\ Len(requests'[s]) = Len(requests[s]) + n
        /\ \A i \in 1..Len(requests'[s]) :
             requests'[s][i] = IF i <= Len(requests[s]) THEN requests[s][i]
                               ELSE new[i - Len(requests[s])]
    BY <1>4 DEF ReadAppends
  <1>7. /\ \A c \in 1..born : socket'[c] = socket[c]
        /\ \A c \in born+1 .. born+n : socket'[c] = s
    BY <1>4 DEF ReadAppends
  <1>8. requests[s] # <<>> => s \in known /\ requests'[s] # <<>>
                              /\ Head(requests'[s]) = Head(requests[s])
    <2> SUFFICES ASSUME requests[s] # <<>>
                 PROVE  /\ s \in known /\ requests'[s] # <<>>
                        /\ Head(requests'[s]) = Head(requests[s])
      OBVIOUS
    <2>1. 1 \in 1..Len(requests[s]) /\ Head(requests[s]) = requests[s][1]
      BY <1>5, HeadTailProperties, EmptySeq
    <2>2. s \in known
      BY <2>1, InvariantParts DEF ClientsOwned
    <2>3. requests'[s] \in Seq(Clients) /\ 1 \in 1..Len(requests'[s])
          /\ requests'[s][1] = requests[s][1]
      BY <1>4, <1>5, <1>6, <2>1, ConcatProperties
    <2>4. requests'[s] # <<>> /\ Head(requests'[s]) = requests'[s][1]
      BY <2>3, HeadTailProperties, EmptySeq
    <2> QED BY <2>1, <2>2, <2>3, <2>4
  <1>9. n = 0 => requests'[s] = requests[s]
    BY <1>4, <1>5, ConcatEmptySeq, EmptySeq
  <1>10. Stable(1)
    <2>1. ASSUME NEW c \in 1..born, MayStream(c) PROVE MayStream(c)'
      <3>1. socket[c] \in Sockets /\ socket'[c] = socket[c]
        BY <1>7, InvariantParts DEF ClientsOwned
      <3>2. CASE socket[c] # s
        BY <1>2, <1>3, <1>5, <2>1, <3>1, <3>2 DEF MayStream, IsHead
      <3>3. CASE socket[c] = s
        BY <1>2, <1>3, <1>8, <1>9, <2>1, <3>1, <3>3 DEF MayStream, IsHead
      <3> QED BY <3>2, <3>3
    <2> QED BY <1>2, <1>3, <1>7, <2>1 DEF Stable
  <1>11. ClientsOwned'
    <2>1. \A c \in 1..born' : socket'[c] \in Sockets
      BY <1>3, <1>7, InvariantParts DEF ClientsOwned
    <2>2. ASSUME NEW t \in Sockets, NEW i \in 1..Len(requests'[t])
          PROVE  requests'[t][i] \in 1..born' /\ socket'[requests'[t][i]] = t /\ t \in known'
      <3>1. CASE t # s
        <4>1. requests'[t] = requests[t]
          BY <1>5, <3>1
        <4> QED BY <1>3, <1>7, <2>2, <4>1, InvariantParts DEF ClientsOwned
      <3>2. CASE t = s /\ i <= Len(requests[s])
        <4>1. i \in 1..Len(requests[s]) /\ requests'[t][i] = requests[s][i]
          BY <1>5, <1>6, <2>2, <3>2
        <4> QED BY <1>3, <1>7, <3>2, <4>1, InvariantParts DEF ClientsOwned
      <3>3. CASE t = s /\ ~(i <= Len(requests[s]))
        <4>1. PICK k \in 1..n : k = i - Len(requests[s])
          BY <1>5, <1>6, <2>2, <3>3
        <4>2. requests'[t][i] = born + k
          BY <1>4, <1>6, <2>2, <3>3, <4>1
        <4>3. PICK c : c = requests'[t][i]
          OBVIOUS
        <4>4. c \in born+1 .. born+n
          <5>1. born \in Nat /\ c = born + k
            BY <1>3, <4>2, <4>3
          <5> QED BY ONLY <5>1, n \in Nat, k \in 1..n
        <4>5. c \in 1..born' /\ socket'[c] = s
          BY <1>3, <1>7, <4>4
        <4> QED BY <1>3, <3>3, <4>3, <4>5
      <3> QED BY <3>1, <3>2, <3>3
    <2>3. \A c \in Clients : task'[c] # "none" => c \in 1..born'
      BY <1>2, <1>3, InvariantParts DEF ClientsOwned
    <2> QED BY <2>1, <2>2, <2>3 DEF ClientsOwned
  <1>12. QueueInvariant'
    <2>1. PICK check : check = SocketEvent("timeout.check", s)
      OBVIOUS
    <2>2. PICK close : close = SocketEvent("close", s)
      OBVIOUS
    <2>3. /\ check \in Events /\ close \in Events
          /\ Plain(check)' /\ Plain(close)'
      <3>1. "timeout.check" \in SocketEventNames /\ "close" \in SocketEventNames
        BY DEF SocketEventNames
      <3>2. check \in Events /\ close \in Events
        BY <2>1, <2>2, <3>1, SocketEventType
      <3>3. Plain(SocketEvent("timeout.check", s))' /\ Plain(SocketEvent("close", s))'
        BY <3>1, SocketEventPlain
      <3> QED BY <2>1, <2>2, <3>2, <3>3 DEF Plain
    <2>4. PICK es \in Seq(Events) :
               Fire(es) /\ \A i \in 1..Len(es) :
                 \/ es[i] = check \/ es[i] = close
                 \/ \E c \in 1..born' : es[i] = ClientEvent(first, c)
      BY <1>1, <2>1, <2>2, InvariantParts, ReadFires
    <2>5. ASSUME NEW i \in 1..Len(es) PROVE Plain(es[i])'
      <3>1. CASE es[i] = check \/ es[i] = close
        BY <2>3, <3>1 DEF Plain
      <3>2. CASE \E c \in 1..born' : es[i] = ClientEvent(first, c)
        <4>1. es[i].name = first /\ es[i].client \in 1..born'
          BY <3>2 DEF ClientEvent
        <4>2. first \notin StreamNames /\ first # "disconnect"
          BY DEF StreamNames
        <4> QED BY <4>1, <4>2 DEF Plain
      <3> QED BY <2>4, <3>1, <3>2
    <2> QED BY <1>3, <1>10, <2>4, <2>5, InvariantParts, DispatchPlain
  <1> QED BY <1>11, <1>12, InvariantParts, OnReadTypeOK

-----------------------------------------------------------------------------
(* The theorems *)

LEMMA PipelineInit == Init => PipelineInvariant
  <1> SUFFICES ASSUME Init PROVE PipelineInvariant
    OBVIOUS
  <1>1. TypeOK
    <2>1. queue \in Seq(Events) /\ batch \in 0..Len(queue)
      BY EmptySeq DEF Init
    <2>2. requests \in [Sockets -> Seq(Clients)]
      BY EmptySeq DEF Init
    <2>3. written \in [Sockets -> Seq([client: Clients \cup {0}, part: Parts])]
      BY EmptySeq DEF Init
    <2>4. reply \in [Clients -> ReplySpace]
      BY ReplyType DEF Init
    <2>5. sent \in 0..MaxClients /\ born \in 0..MaxClients /\ faults \in 0..MaxFaults
      BY ConstantsAssumption DEF Init, ConstantsAssumption
    <2> QED BY <2>1, <2>2, <2>3, <2>4, <2>5 DEF Init, TypeOK
  <1>2. Len(queue) = 0 /\ born = 0 /\ \A s \in Sockets : Len(requests[s]) = 0
    BY EmptySeq DEF Init
  <1>3. Streams = {}
    BY <1>2 DEF Streams
  <1>4. QueueOwned /\ DisconnectsAreReal
    BY <1>2 DEF QueueOwned, DisconnectsAreReal
  <1>5. ClientsOwned
    BY <1>2 DEF ClientsOwned, Init
  <1>6. StreamState /\ OneStream
    BY <1>3 DEF StreamState, OneStream
  <1> QED BY <1>1, <1>4, <1>5, <1>6 DEF PipelineInvariant

LEMMA PipelineStutter == PipelineInvariant /\ UNCHANGED vars => PipelineInvariant'
  <1> SUFFICES ASSUME PipelineInvariant, UNCHANGED vars PROVE PipelineInvariant'
    OBVIOUS
  <1>1. UNCHANGED <<queue, batch, conn, sent, born, socket, done, handled, reply, task,
                    known, requests, responses, response_started, composed, tunnel,
                    timeout, parser, checks, written, faults>>
    BY DEF vars, loopVars, netVars, clientVars, stateVars, pipeVars
  <1>2. TypeOK'
    BY <1>1, InvariantParts DEF TypeOK
  <1>3. Stable(0) /\ ClientsOwned'
    BY <1>1, InvariantParts, StableUnchanged, QuietClients
  <1>4. QueueInvariant'
    BY <1>1, <1>3, InvariantParts, QueueUnchanged
  <1> QED BY <1>2, <1>3, <1>4, InvariantParts

\* The pipeline is sound in every reachable state, for any number of peers and
\* requests, whatever the peers do and however often foreign code raises.
THEOREM PipelineIsSound == Spec => []PipelineInvariant
  <1>1. ASSUME PipelineInvariant, [Next]_vars PROVE PipelineInvariant'
    <2>1. CASE Dispatch
      BY <1>1, <2>1, OnReadKeeps, OnTimeoutCheckKeeps, OnRoutingKeeps, OnRequestKeeps,
         OnRequestSuccessKeeps, OnRequestFailureKeeps, OnHTTPErrorKeeps,
         OnHTTPErrorSuccessKeeps, OnHTTPErrorFailureKeeps, OnResponseKeeps,
         OnResponseStartKeeps, OnResponseBodyKeeps, OnResponseCompleteKeeps,
         OnResponseFailureKeeps, OnExceptionKeeps, OnCloseKeeps, OnDisconnectKeeps,
         OnEOFKeeps, OnSocketErrorKeeps DEF Dispatch
    <2>2. CASE Environment \/ Tasks \/ Tick
      BY <1>1, <2>2, EnvironmentKeeps, TasksKeep, TickKeeps
    <2>3. CASE UNCHANGED vars
      BY <1>1, <2>3, PipelineStutter
    <2> QED BY <1>1, <2>1, <2>2, <2>3 DEF Next
  <1> QED BY <1>1, PipelineInit, PTL DEF Spec

\* Every variable keeps its type: no handler finds a client, a connection or
\* an event of a shape it does not expect.
THEOREM TypesHold == Spec => []TypeOK
  <1>1. PipelineInvariant => TypeOK
    BY DEF PipelineInvariant
  <1> QED BY <1>1, PipelineIsSound, PTL

\* _on_response and _on_response_complete never both start a response, and no
\* response is started twice: a connection has one under way at most.
THEOREM OneResponseAtATime == Spec => []OneStream
  <1>1. PipelineInvariant => OneStream
    BY DEF PipelineInvariant
  <1> QED BY <1>1, PipelineIsSound, PTL

\* On a living connection the response under way is the one of the first
\* unanswered request: the assertion of _on_response_complete holds there.
THEOREM ResponseOfTheFirst == Spec => []PipelineHead
  <1>1. PipelineInvariant => PipelineHead
    BY DEF PipelineInvariant, StreamState, MayStream, PipelineHead
  <1> QED BY <1>1, PipelineIsSound, PTL

=============================================================================
