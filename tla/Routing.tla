------------------------------ MODULE Routing ------------------------------
(***************************************************************************)
(* From a request to the resource that is to answer it                     *)
(* (circuits/http/server/routing): the reverse proxy and the domain router *)
(* on the channel of the server, then the path router on the channel of    *)
(* the domain.  Domains and resources come and go while requests are       *)
(* routed; the routers learn of it by the events `registered' and          *)
(* `unregistered', of paths by `routes.create' only.                       *)
(*                                                                         *)
(* A domain stands for its fqdn, which is also its channel.                *)
(***************************************************************************)
EXTENDS RegexPath, FiniteSets

CONSTANTS
    Domains, NoDomain,
    Resources, NoResource,
    Choosy,        \* those with an `identify' of their own, which may decline a request
    Trees,         \* the parents, paths and own routes the resources may have
    Initially,     \* what is registered when the server starts
    Hosts, NoHost,
    LocalName,     \* client.local.name
    Aliases,       \* Domain.aliases
    Gateways,      \* ReverseProxy.gateways
    Clients,
    Requests,
    MaxChanges     \* bound: components registered or unregistered, routes recreated

Components == Domains \cup Resources

\* What routing reads of a request, and Client.remote
RequestFields == {"host", "method", "path", "remote", "forwarded", "x_forwarded_for",
                  "x_forwarded_host"}

ASSUME RoutingAssumption ==
    /\ Domains \subseteq Hosts /\ LocalName \in Hosts /\ NoHost \notin Hosts
    /\ NoDomain \notin Components /\ NoResource \notin Components
    /\ Domains \intersect Resources = {}
    /\ Initially \subseteq Components /\ Choosy \subseteq Resources
    /\ Aliases \in [Domains -> SUBSET (Hosts \ Domains)]
    /\ IsFiniteSet(Domains)
    /\ \A t \in Trees :
         /\ t.parent \in [Resources -> Components]
         /\ t.path \in [Resources -> Seq(STRING)]
         /\ \A S \in SUBSET Resources \ {{}} : \E r \in S : t.parent[r] \notin S   \* no cycles
         /\ \A r \in Resources \intersect Initially : t.parent[r] \in Initially
    /\ \A r \in Requests : DOMAIN r = RequestFields /\ r.x_forwarded_host \in Seq(Hosts)
    /\ MaxChanges \in Nat

VARIABLES
    tree,       \* [parent, path, own]: a choice of Trees
    attached,   \* components whose parent is not themselves
    added,      \* history: components that have been registered
    domains,    \* DomainRouter.domains
    children,   \* Domain.children, Resource.children
    routes,     \* RegexPathRouter.routes of each domain
    queue,      \* the event queue, of [name, of]
    client,     \* of each Client what routing reads and writes
    outcome,    \* history: what routing has led to
    changes     \* counts up to MaxChanges

treeVars == <<tree, attached, added, changes>>
vars == <<treeVars, domains, children, routes, queue, client, outcome>>

\* The templates of this tree
INSTANCE Templates

Outcomes == {"none", "routing", "301", "400", "403", "404", "called", "empty", "lost"}

\* declined is history: the resources that were asked and declined
Unrouted == [domain |-> NoDomain, resource |-> NoResource, path_segments |-> <<>>,
             declined |-> {}]

Event(name, of) == [name |-> name, of |-> of]

Init ==
    /\ tree \in Trees
    /\ attached = Initially /\ added = Initially
    /\ domains = Domains \intersect Initially
    /\ children = [x \in Components |-> {r \in Resources \intersect Initially : tree.parent[r] = x}]
    /\ routes = [d \in Domains |-> {}]
    /\ queue = SetToSeq({Event("routes.create", d) : d \in domains})   \* `started' has fired them
    /\ client = [c \in Clients |-> Unrouted]
    /\ outcome = [c \in Clients |-> "none"]
    /\ changes = 0

-----------------------------------------------------------------------------
(* The tree of components *)

\* component.parent: a component that has been unregistered is its own
Parent(x) == IF x \in attached THEN tree.parent[x] ELSE x

\* Handlers are called if the component belongs to the tree of the server.
InTree[x \in Components] ==
    /\ x \in attached
    /\ (x \in Resources) => InTree[tree.parent[x]]

Fire(events) == queue' = Tail(queue) \o events

OnRegistered(x) ==
    /\ IF x \in Domains
       THEN domains' = domains \cup {x} /\ UNCHANGED children
       ELSE /\ children' = IF InTree[tree.parent[x]]
                           THEN [children EXCEPT ![tree.parent[x]] = @ \cup {x}]
                           ELSE children
            /\ UNCHANGED domains
    /\ UNCHANGED <<routes, client, outcome>>

OnUnregistered_Keeps(x) == UNCHANGED <<domains, children, routes, client, outcome>>

OnUnregistered(x) ==
    /\ IF x \in Domains
       THEN domains' = domains \ {x} /\ UNCHANGED children
       ELSE /\ children' = IF InTree[tree.parent[x]]
                           THEN [children EXCEPT ![tree.parent[x]] = @ \ {x}]
                           ELSE children
            /\ UNCHANGED domains
    /\ UNCHANGED <<routes, client, outcome>>

-----------------------------------------------------------------------------
(* RegexPathRouter: routes *)

\* '/'.join of the paths of the resource and those above it; the loop ends at
\* one that is its own parent.
JoinedPath[r \in Resources] ==
    LET p == Parent(r)
        above == IF p \in Resources /\ Parent(p) # p THEN JoinedPath[p] ELSE <<>>
    IN Behind(above, tree.path[r])

BuildTreePath_Parent(r) ==
    IF Parent(r) \in Domains THEN tree.path[r]
    ELSE Behind(IF Parent(r) # r THEN Behind(<<>>, tree.path[Parent(r)]) ELSE <<>>, tree.path[r])

BuildTreePath(r) == IF Parent(r) \in Domains THEN tree.path[r] ELSE JoinedPath[r]

DomainOf[x \in Components] == IF x \in Domains THEN x ELSE DomainOf[tree.parent[x]]

\* _all_childs: the resources the children lead to from a domain
AllChilds(d) ==
    LET Reached[r \in Resources] ==
            /\ r \in children[tree.parent[r]]
            /\ (tree.parent[r] \in Resources) => Reached[tree.parent[r]]
    IN {r \in Resources : DomainOf[r] = d /\ Reached[r]}

RouteTo(r, pattern) == [resource |-> r, pattern |-> pattern]

\* Resource.routes: those a resource brings itself
OwnRoutes(rs) == UNION {{RouteTo(r, pattern) : pattern \in tree.own[r]} : r \in rs}

\* Without a valid pattern for each of them the handler raises and changes nothing.
OnRoutesCreate(d) ==
    LET built == {RouteTo(r, Tokenize(BuildTreePath(r))) : r \in AllChilds(d)}
    IN /\ routes' = IF InTree[d] /\ \A route \in built : Compiles(route.pattern)
                    THEN [routes EXCEPT ![d] = OwnRoutes(AllChilds(d)) \cup built] ELSE routes
       /\ UNCHANGED <<domains, children, client, outcome>>

-----------------------------------------------------------------------------
(* ReverseProxy and DomainRouter: the event `routing' of the server *)

\* `by' is compared with the first characters of the gateways' addresses, so
\* that one that is given is never theirs.
Proxied(c) ==
    LET own == {i \in DOMAIN c.forwarded : c.forwarded[i].by = NoHost}
        f   == c.forwarded[Min(own)]
    IN IF c.remote \notin Gateways THEN c
       ELSE IF own # {}
       THEN [c EXCEPT !.remote = f.for, !.host = IF f.host = NoHost THEN @ ELSE f.host]
       ELSE IF c.x_forwarded_for # <<>>
       THEN [c EXCEPT !.remote = Head(c.x_forwarded_for),
                      !.host = IF c.x_forwarded_host = <<>> THEN @ ELSE Head(c.x_forwarded_host)]
       ELSE c

\* A request of HTTP/1.0 need not name a host.
HttpOneZero(c) == [c EXCEPT !.host = IF @ = NoHost THEN LocalName ELSE @]

GetDomain_NoAlias(host) == {d \in domains : d = host}

\* The first domain in the order of a set: it is the host or moves it
GetDomain(host) == {d \in domains : d = host \/ host \in Aliases[d]}

\* The first of these hosts that has a domain
Known(hosts) == SelectInSeq(hosts, LAMBDA h : GetDomain(h) # {})

\* _route_host, _route_forwarded_host: the domain of the Host, or else of an
\* X-Forwarded-Host; then _on_domain_routing
Route(c, cl, hosts, i) ==
    \/ /\ i = 0
       /\ client' = [client EXCEPT ![c] = cl]
       /\ outcome' = [outcome EXCEPT ![c] = "400"]
       /\ Fire(<<>>)
    \/ /\ i # 0
       /\ \E d \in GetDomain(hosts[i]) :
            \/ /\ hosts[i] # d
               /\ client' = [client EXCEPT ![c] = cl]
               /\ outcome' = [outcome EXCEPT ![c] = "301"]
               /\ Fire(<<>>)
            \/ /\ hosts[i] = d
               /\ client' = [client EXCEPT ![c] =
                                [cl EXCEPT !.domain = d, !.host = IF i = 1 THEN @ ELSE d]]
               /\ Fire(<<Event("routing_success", c)>>)
               /\ UNCHANGED outcome

OnRouting(c) ==
    /\ \E cl \in {HttpOneZero(Proxied(client[c]))} :
       \E hosts \in {<<cl.host>> \o cl.x_forwarded_host} :
       \E i \in {Known(hosts)} : Route(c, cl, hosts, i)
    /\ UNCHANGED <<domains, children, routes>>

OnRoutingSuccess_Ends(c) ==
    /\ Fire(<<>>)
    /\ UNCHANGED <<domains, children, routes, client, outcome>>

\* DomainRouter._route_into_domain
OnRoutingSuccess(c) ==
    /\ Fire(<<Event("domain.routing", c)>>)
    /\ UNCHANGED <<domains, children, routes, client, outcome>>

-----------------------------------------------------------------------------
(* Router: the events on the channel of the domain *)

\* Nobody listens on the channel of a domain that is gone, so that the event
\* has no effect, nor has the one that says it succeeded.
Lost(c) ==
    /\ outcome' = [outcome EXCEPT ![c] = "lost"]
    /\ Fire(<<>>)
    /\ UNCHANGED client

Found_Anywhere(d, path) ==
    UNION {{<<route.resource, values>> : values \in Match(route.pattern, path)} :
              route \in UNION {routes[x] : x \in Domains}}

\* RegexPathRouter.match
Found(d, path) ==
    UNION {{<<route.resource, values>> : values \in Match(route.pattern, path)} :
              route \in routes[d]}

\* _find_resource asks each resource that matches to identify the request, and
\* takes the last one of a set that does; then _on_resource_routing answers if
\* there was none.
OnDomainRouting(c) ==
    /\ \/ ~InTree[client[c].domain] /\ Lost(c)
       \/ /\ InTree[client[c].domain]
          /\ \E found \in {Found(client[c].domain, client[c].path)} :
               \/ /\ \A match \in found : match[1] \in Choosy
                  /\ client' = [client EXCEPT ![c].declined = {match[1] : match \in found}]
                  /\ outcome' = [outcome EXCEPT ![c] =
                                    IF client[c].method \in {"PUT", "POST"} THEN "403" ELSE "404"]
                  /\ Fire(<<>>)
               \/ \E match \in found :
                  /\ client' = [client EXCEPT ![c].resource = match[1],
                                              ![c].path_segments = match[2]]
                  /\ Fire(<<Event("domain.routing_success", c)>>)
                  /\ UNCHANGED outcome
    /\ UNCHANGED <<domains, children, routes>>

OnDomainRoutingSuccess(c) ==
    /\ \/ ~InTree[client[c].domain] /\ Lost(c)
       \/ /\ InTree[client[c].domain]
          /\ Fire(<<Event("request", c)>>)
          /\ UNCHANGED <<client, outcome>>
    /\ UNCHANGED <<domains, children, routes>>

\* The event goes to the channels of the domain and of the resource.  If the
\* resource is gone it succeeds all the same, and the router of the domain
\* fires the response.
OnRequest(c) ==
    /\ \/ /\ InTree[client[c].resource]
          /\ outcome' = [outcome EXCEPT ![c] = "called"]
          /\ Fire(<<>>) /\ UNCHANGED client
       \/ /\ ~InTree[client[c].resource]
          /\ InTree[client[c].domain]
          /\ outcome' = [outcome EXCEPT ![c] = "empty"]
          /\ Fire(<<>>) /\ UNCHANGED client
       \/ ~InTree[client[c].resource] /\ ~InTree[client[c].domain] /\ Lost(c)
    /\ UNCHANGED <<domains, children, routes>>

-----------------------------------------------------------------------------

\* The handlers of the first event of the queue
Dispatch ==
    /\ queue # <<>>
    /\ LET e == Head(queue)
       IN \/ e.name = "registered" /\ OnRegistered(e.of) /\ Fire(<<>>)
          \/ e.name = "unregistered" /\ OnUnregistered(e.of) /\ Fire(<<>>)
          \/ e.name = "routes.create" /\ OnRoutesCreate(e.of) /\ Fire(<<>>)
          \/ e.name = "routing" /\ OnRouting(e.of)
          \/ e.name = "routing_success" /\ OnRoutingSuccess(e.of)
          \/ e.name = "domain.routing" /\ OnDomainRouting(e.of)
          \/ e.name = "domain.routing_success" /\ OnDomainRoutingSuccess(e.of)
          \/ e.name = "request" /\ OnRequest(e.of)
    /\ UNCHANGED treeVars

Arrive(c) ==
    /\ outcome[c] = "none"
    /\ outcome' = [outcome EXCEPT ![c] = "routing"]
    /\ \E r \in Requests :
         client' = [client EXCEPT ![c] = [f \in RequestFields \cup DOMAIN Unrouted |->
                                             IF f \in RequestFields THEN r[f] ELSE Unrouted[f]]]
    /\ queue' = Append(queue, Event("routing", c))
    /\ UNCHANGED <<treeVars, domains, children, routes>>

\* What an application does between events.  A component is a new object: it is
\* registered once.
Change == changes < MaxChanges /\ changes' = changes + 1

Register(x) ==
    /\ Change
    /\ x \notin added
    /\ (x \in Resources) => InTree[tree.parent[x]]
    /\ attached' = attached \cup {x} /\ added' = added \cup {x}
    /\ queue' = Append(queue, Event("registered", x))
    /\ UNCHANGED <<tree, domains, children, routes, client, outcome>>

Unregister(x) ==
    /\ Change
    /\ InTree[x]
    /\ attached' = attached \ {x}
    /\ queue' = Append(queue, Event("unregistered", x))
    /\ UNCHANGED <<tree, added, domains, children, routes, client, outcome>>

RecreateRoutes(d) ==
    /\ Change
    /\ InTree[d]
    /\ queue' = Append(queue, Event("routes.create", d))
    /\ UNCHANGED <<tree, attached, added, domains, children, routes, client, outcome>>

Next ==
    \/ Dispatch
    \/ \E c \in Clients : Arrive(c)
    \/ \E x \in Components : Register(x) \/ Unregister(x)
    \/ \E d \in Domains : RecreateRoutes(d)

Spec == Init /\ [][Next]_vars

\* Dispatch, seen from the queue
Take ==
    /\ queue # <<>>
    /\ \E name \in {"routing_success", "domain.routing", "domain.routing_success", "request"},
          c \in Clients :
         queue' \in {Tail(queue), Tail(queue) \o <<Event(name, c)>>}

\* The event loop goes on as long as there are events.
FairSpec == Spec /\ WF_queue(Take)

-----------------------------------------------------------------------------

ClientEvents == {"routing", "routing_success", "domain.routing", "domain.routing_success", "request"}

EventType ==
    [name: {"registered", "unregistered"}, of: Components]
    \cup [name: {"routes.create"}, of: Domains]
    \cup [name: ClientEvents, of: Clients]

TypeOK ==
    /\ tree \in Trees
    /\ attached \subseteq added /\ added \subseteq Components
    /\ domains \subseteq Domains
    /\ children \in [Components -> SUBSET Resources]
    /\ DOMAIN routes = Domains /\ DOMAIN client = Clients
    /\ queue \in Seq(EventType)
    /\ outcome \in [Clients -> Outcomes]
    /\ changes \in 0..MaxChanges

\* The routes of a domain lead to resources below it, events behind `routing'
\* are about clients that have a domain, and the resource of a client belongs
\* to it.
RoutingInvariant ==
    /\ TypeOK
    /\ \A d \in Domains : \A route \in routes[d] :
          route.resource \in Resources /\ DomainOf[route.resource] = d
    /\ \A i \in DOMAIN queue : queue[i].name \in ClientEvents =>
          /\ outcome[queue[i].of] # "none"
          /\ queue[i].name # "routing" => client[queue[i].of].domain \in Domains
    /\ \A c \in Clients : client[c].resource # NoResource =>
          /\ client[c].resource \in Resources
          /\ DomainOf[client[c].resource] = client[c].domain

\* The path of a request that reaches a resource is the template of the
\* resource with the values it is given (tokenize, _append, _build_tree_path,
\* match and _find_resource agree, and no route made while the tree changed
\* leads anybody astray), or one of the resource's own patterns gives these.
CalledAsAsked ==
    \A c \in Clients : outcome[c] = "called" =>
        \/ client[c].path_segments \in OwnMatches(client[c].resource, client[c].path)
        \/ Instance(client[c].resource, client[c].path_segments) = client[c].path

\* Nobody is refused what has been there all the time, a component registered
\* when the server started and not unregistered since: neither a host (400) nor
\* a path (403, 404) of a resource, unless the resource was asked and has
\* declined, and is one that may.
RefusedMeansAbsent ==
    \A c \in Clients :
        /\ outcome[c] = "400" =>
              \A d \in Domains \intersect Initially : InTree[d] =>
                  ({d} \cup Aliases[d]) \intersect
                      ({client[c].host} \cup Range(client[c].x_forwarded_host)) = {}
        /\ outcome[c] \in {"403", "404"} =>
              \A r \in Resources \intersect Initially :
                  /\ InTree[r] /\ DomainOf[r] = client[c].domain
                  /\ IsPathOf(r, client[c].path) \/ OwnMatches(r, client[c].path) # {}
                  => r \in Choosy \intersect client[c].declined

\* When every event has been handled, the sets the routers work on are the
\* tree again, whatever was registered and unregistered in between.
RegistryFollowsTree ==
    queue = <<>> =>
        /\ domains = Domains \intersect attached
        /\ \A x \in Components : InTree[x] =>
              children[x] = {r \in Resources \intersect attached : tree.parent[r] = x}

\* Every request is answered or called, unless its domain or its resource is
\* unregistered on the way: nobody answers then.
EveryRequestRouted ==
    \A c \in Clients :
        outcome[c] = "routing" ~>
            \/ outcome[c] \in {"301", "400", "403", "404", "called"}
            \/ client[c].domain \in added \ attached
            \/ client[c].resource \in Resources /\ ~InTree[client[c].resource]
=============================================================================
