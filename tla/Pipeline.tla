------------------------------ MODULE Pipeline ------------------------------
(***************************************************************************)
(* What the server component promises a peer that pipelines its requests   *)
(* (circuits/http/server/server.py), without the events that achieve it:   *)
(* the requests of a connection wait in the order of their arrival; the    *)
(* first one is answered, head first and chunk by chunk, and leaves when   *)
(* its response is complete; the end of the connection drops the rest, and *)
(* what is still on its way.                                               *)
(* Outside this order come only the alert for a peer that speaks the wrong *)
(* protocol and the error response of last resort.                         *)
(***************************************************************************)
EXTENDS Integers, Sequences

CONSTANTS Sockets, MaxRequests

Requests == 1..MaxRequests
None == 0

VARIABLES
    arrived,   \* how many requests have arrived, on all connections
    pending,   \* the unanswered requests of each connection
    active,    \* the request whose response is under way
    out,       \* what each peer is sent, unless the end of the connection is faster
    ended      \* the connections that are over

vars == <<arrived, pending, active, out, ended>>

TypeOK ==
    /\ arrived \in 0..MaxRequests
    /\ pending \in [Sockets -> Seq(Requests)]
    /\ active \in [Sockets -> Requests \cup {None}]
    /\ out \in [Sockets -> Seq([client: Requests \cup {None},
                                part: {"head", "body", "error", "alert"}])]
    /\ ended \subseteq Sockets

Init ==
    /\ arrived = 0
    /\ pending = [s \in Sockets |-> <<>>]
    /\ active = [s \in Sockets |-> None]
    /\ out = [s \in Sockets |-> <<>>]
    /\ ended = {}

Send(s, c, part) ==
    out' = [out EXCEPT ![s] = Append(@, [client |-> c, part |-> part])]

Arrive(s, n) ==
    /\ s \notin ended
    /\ arrived + n <= MaxRequests
    /\ arrived' = arrived + n
    /\ pending' = [pending EXCEPT ![s] = @ \o [i \in 1..n |-> arrived + i]]
    /\ UNCHANGED <<active, out, ended>>

Begin(s) ==
    /\ active[s] = None
    /\ pending[s] # <<>>
    /\ active' = [active EXCEPT ![s] = Head(pending[s])]
    /\ Send(s, Head(pending[s]), "head")
    /\ UNCHANGED <<arrived, pending, ended>>

Chunk(s) ==
    /\ active[s] # None
    /\ Send(s, active[s], "body")
    /\ UNCHANGED <<arrived, pending, active, ended>>

Finish(s) ==
    /\ active[s] # None
    /\ active' = [active EXCEPT ![s] = None]
    /\ pending' = [pending EXCEPT ![s] = Tail(@)]
    /\ UNCHANGED <<arrived, out, ended>>

\* The last resort: the error of any request that is not answered yet.
Abort(s, c) ==
    /\ \E i \in 1..Len(pending[s]) : pending[s][i] = c
    /\ active[s] # c
    /\ Send(s, c, "error")
    /\ UNCHANGED <<arrived, pending, active, ended>>

Alert(s) ==
    /\ s \notin ended
    /\ Send(s, None, "alert")
    /\ UNCHANGED <<arrived, pending, active, ended>>

End(s) ==
    /\ s \notin ended
    /\ \E n \in 0..Len(out[s]) : out' = [out EXCEPT ![s] = SubSeq(@, 1, n)]
    /\ ended' = ended \cup {s}
    /\ pending' = [pending EXCEPT ![s] = <<>>]
    /\ active' = [active EXCEPT ![s] = None]
    /\ UNCHANGED arrived

Next == \E s \in Sockets :
    \/ \E n \in Requests : Arrive(s, n)
    \/ Begin(s) \/ Chunk(s) \/ Finish(s) \/ Alert(s) \/ End(s)
    \/ \E c \in Requests : Abort(s, c)

Spec == Init /\ [][Next]_vars
=============================================================================
