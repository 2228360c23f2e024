# Verification of circuits.http

TLA+ models of circuits.http, an asynchronous HTTP server and client built on
the event framework circuits and the message parser httoop. TLC checks the
models on small instances; TLAPS proves the core invariants for every value of
the constants. `src/` below is the repository, paths are relative to
`src/circuits/http/`.

## The system

| component | state | operations | talks to |
|---|---|---|---|
| HTTP server core: `server/server.py`, `server/_state.py`, `wrapper/client.py`, `events/` | `_buffers`: per socket a `State` with the parser, the pipeline `requests`, the sets `responses` and `response_started`, `composed`, the idle `timeout`, `tunnel`; per request a `Client` with `done`, `handled`, `response` | 15 event handlers: read, timeout.check, response, response.start/body/complete, httperror (+ success, failure), request_failure, response_failure, exception, disconnect/close, error | TCPServer (read, write, close, disconnect), everything below by events |
| error decorators: `utils.py` | the `request` event of a client (`events.request`) | `httperror`, `httphandler`, `sets_header`, `if_header_set` | wraps every handler below |
| routing: `server/routing/` | `routes`, `domains`; `client.domain`, `client.resource`, `client.remote` | reverse proxy, domain router, path router, success hops | core -> resources |
| resources: `server/resource/` | `methods`, `children`; `client.method`, `client.data` | look up, check and execute the method, at once or as a coroutine | routing -> core |
| caching, content, i18n: `server/caching/`, `server/content/`, `server/i18n/` | headers of the response | handlers of `request` in the order of their priorities: headers, preconditions, negotiation, decoding | features of a resource |
| upgrades: `server/connection/` | `_codecs` of the websockets | Expect, TLS upgrade, websocket handshake | core, TCPServer |
| client: `client/client.py` | per socket the parser and the clients that wait (`requests`), `_socket_map` | connect, request, read, response | TCPClient |
| cookies: `client/cookie.py` | `cookies` | store, replace, match, purge | client |
| WSGI: `server/wsgi.py` | `requests`, `responses` of a run | application, gateway | core |
| SAML: `server/saml/` | `outstanding_queries`, `relay_states` | sign on, logout, bindings | pysaml2 |
| logger, wrappers, command line | none | formatting, name resolution, start | |

Hard behaviour and what makes the components correct:

* Everything runs in one thread, but as chains of events: every handler fires
  the next event, and the chains of pipelined requests interleave event by
  event with reads, timers, coroutines and the end of the connection. The core
  is correct if each connection sends the responses of its requests one at a
  time, in order and complete, whatever interleaves and fails, if none is
  forgotten, and if the state of a connection goes with it.
* A request event passes some thirty handlers sorted by priority; any of them
  may stop it with a status. That is correct if a method is executed only when
  every check has passed and if each request ends with one outcome.
* A method that is a coroutine runs when the handlers of its event are long done
  and the state they have checked may be another.
* The HTTP client shares connections between concurrent requests and matches
  responses to them by order alone.

* A connection may end, and foreign code (resources, codecs, body generators,
  filters) may raise, between any two of these steps.

## The modules

| module | what it is |
|---|---|
| `HTTP` | the server core, routing and requests by their outcome |
| `Pipeline` | what a peer that pipelines requests is promised; `HTTP` implements it |
| `HTTPProofs`, `HTTPOrderProofs` | proofs about `HTTP`: types, one response at a time, order, no stall, no close within a response, done means written, and the refinement |
| `HTTPClient`, `HTTPClientProofs` | the client and proofs about it |
| `RequestChain`, `RequestChainProofs` | the handlers of `request` and proofs about them |
| `Routing`, `RoutingProofs` | proxy, domains and path routers, while the tree of components changes, and proofs |
| `RegexPath` | the language of templates: tokenizer and matching; `Routing` extends it |
| `Templates` | the templates of a tree of resources and what they are to mean, without a state; `Routing` instantiates it with its tree |
| `StaticResource`, `StaticResourceProofs` | a file that changes while it is served, negotiation of types, and proofs |
| `Cookies`, `CookiesProofs` | the cookies of the client and proofs |
| `ServiceProvider`, `ServiceProviderProofs` | SAML sign-on and logout and proofs |
| `MCHTTP`, `MCHTTPClient`, `MCRequestChain`, `MCRouting`, `MCStaticResource`, `MCCookies`, `MCServiceProvider` | values of constants for TLC |

Every module separates its event loop and environment (circuits, the sockets,
httoop, the peers: none of it is in this repository) from the handlers of the
source, which keep their names: `OnResponse` is `HTTP._on_response`, `NoneMatch`
is `ETag._none_match`. Operators ending in `_<Word>` above a definition state a
bug it might have had (`AfterComplete_Forgets`, ...): they are used to see that
a property notices.

### HTTP and Pipeline

`queue` is the event queue of circuits, of records `[name, socket or client,
...]`. A step of `Dispatch` takes the first event and calls the handler of its
name with all it does: it updates the `State` of a connection (`requests`,
`responses`, `started`, `composed`, ... for `_buffers[socket]`), the `Client`
(`done`, `handled`, its response) and fires events in the order of the code.
`_add_client`, `_premature_client_disconnect` and `_handle_exception` are part
of the handlers that call them. A generator is a task of the loop:
`TaskEnds`/`TimerExpires` happen between any two events. `Raises` lists the places
at which foreign code may raise, `MaxFaults` bounds how often. `Peer` lists what
a peer may do.

`written` is what a peer is sent. A write is an event, and TCPServer buffers its
data: while a connection is open all of it will arrive, and what the peer has taken
so far is left open. Whoever closes the connection, the server itself
(`OnClose`, which closes the socket at once) or its peer (`OnEOF`), any end of it
is lost (`Lose`).

A body is a number of chunks, the text of heads and messages is left out.
`routing` and `request` are followed by one handler each, with every outcome
their chains have: a next hop, a response, a status, an unexpected exception, a
coroutine.

`Pipeline` knows only the requests of a connection in the order of their
arrival and what the peer is sent, of which the end of the connection may take the
last. It lets `HTTP` do what the code does
outside that order, the alert for a peer that speaks the wrong protocol and the
error response of last resort, and nothing else. `KeepsPromise` is the refinement
(`INSTANCE Pipeline WITH ...` at the end of `HTTP`).

### HTTPClient

The handlers of `client.py`; `_on_request` is a coroutine and is split where it
waits for `connect` and `connected`, the loop of `_on_read` where it fires. A
server of the model answers in order, whatever a network does in between: it
may refuse, drop, close, and cut responses at any place into reads; `MaxExtra`
responses come unasked. A response carries the request it answers: the client
never looks at it, `OwnResponse` does.

### RequestChain

A step is one handler of one `request` event, taken by its priority; those with
equal priorities are called in any order. A `Raises` is what `httperror` does. A
version stands for the state of the resource, its entity tag and its date; a
request holds the conditions it makes and whether what it asks for is there
(representation, translation, permission), for negotiation and conditions are
pure functions of the request. `_execute_method_async` always leaves a task,
which does something only if the method is a coroutine. The nine handlers of
`Security` and those of `Cache-Control`, `Expires`, `Pragma` and `Vary` are one step
each: they set headers no other handler reads.

There are two references. `Preconditions` says what the handlers ask for:
all that is given must hold. `Due` says which refusals RFC 7232 has, to which
the README of the repository refers: a tag goes before a date, a date that is none
does not count. `Departs` names the three cases in which the code refuses
otherwise (see Findings). `RefusedForAReason` holds every refusal against
both, status by status; `PassedMeetsTheRFC` says that nothing passes which the RFC
refuses, unless a resource tells no tag.

### Routing and RegexPath

`HTTP` knows routing by its outcome, `Routing` is the chain itself: `routing` on the
channel of the server (`Proxied`, `HttpOneZero`, `Route`), `domain.routing` and
`request` on that of a domain. The tree of components is `tree` and `attached`, as
circuits has it; `domains`, `children` and `routes` are what the routers believe of it,
and follow by the events `registered`, `unregistered` and `routes.create` in the
same queue. A component in a subtree that is gone hears nothing (`InTree`).
A resource may bring patterns of its own (`Resource.routes`, `tree.own`), which are
routes beside that of its template. `identify` may decline a request whose path
matches, as that of `StaticResource` does if there is no file: the resources in
`Choosy` have one and choose freely, and `declined` remembers who did when a request is
refused.

`RegexPath` translates `tokenize` branch by branch: `Token` is an iteration of its loop,
`TokenStart` its variables, a template a sequence of characters. `Match` is what the
regular expression it builds matches, with lazy quantifiers (`LazyCuts`). The
reference both are held against is in `Templates`: a template as elements,
texts and variables, and `Instance`, the path they give with some values. `FullPath` is
the template a resource has while it belongs to the tree, `CutPaths` what
`_build_tree_path` may make of it while something above it does not. Three facts about
the language are named: all of these compile (`TemplatesCompile`), what matches is the template with
its values (`TemplatesLead`), and what is meant to match does (`PathsMatch`).
`MCRouting` assumes them of each of its trees (`LanguageAssumption`), and TLC evaluates
that before the run.

### StaticResource

The handlers of `routing` and `request` that look at the file, one step each, while
other processes replace, overwrite and remove it: between any two of them the name
may stand for another inode. `cached` is what a peer keeps. Its copy is *firm* if its
date is that of the file that was opened, and of a second that was over: the code
gives no guarantee for others, as HTTP dates count seconds and `os.stat` asks for
the name again. `ContentType` and `Negotiate` translate the negotiation of `static.py`
and `method.py`; `Accepted` is the reference, by the most specific range. Whether the
extension of the name tells the type (`extension`) or libmagic does matters: only in the
first case `static.py` looks for the type and its wildcard in `Accept` (`Looked`).

### Cookies

`OnResponse` stores one cookie of a `Set-Cookie`, `OnRequest` sends what matches and purges
what it finds expired. A response with several cookies is several steps without a
`Tick`. What the order of a Python set decides is a choice (`GetCookie`). `latest` and
`value` are history: what was set last of a name, of a domain or else a host, and of
a path. `get_cookie` takes the first that fits what a new cookie gives, so that one
without domain or path may be taken for any of several; `mistaken` are the names
of which a cookie has replaced one it is not. What is claimed of cookies that lack
either is claimed until then (`Certain`).

### ServiceProvider

The operations that an application calls, in any order and around restarts.
`outstanding_queries` and `relay_states` are those of the code, `users` is what
pysaml2 keeps, `config` what is on disk and `sp` what was loaded. Restart and reload
both make a new `Saml2Client`, only the restart empties the dictionaries. Foreign
calls may raise where they are made (`SAMLError`), so that a state may be kept for a
query that is never sent.

## What TLC checks

| run | instance | shows |
|---|---|---|
| `http_faultless` | 1 connection, 2 requests, chunks 0..1, upgrades, malformed data, TLS, hangups | the invariant, no stall, the server closes between responses only, `done` means written, the promise of `Pipeline` |
| `http_faults` | the same, and one exception at nine places, SSL errors | both invariants, order and completeness of responses, the promise of `Pipeline` |
| `http_two_connections` | 2 connections, 2 requests | connections leave each other alone |
| `http_liveness` | 1 connection, fairness | every request is answered or its connection is over; no `State` outlives its connection |
| `http_client` | 2 clients, 1 origin, 3 requests, 1 unasked response, fairness | every client gets its own response; every request is answered or its connection has failed |
| `request_chain` | 244 requests against 4 updates, 1 exception, fairness | methods are executed as checked, every refusal is due by RFC 7232 or one of three departures from it, every request has its outcome |
| `routing` | 2 domains, one with an alias, 3 resources in 4 trees, two of these with patterns of their own, one resource that may decline, one request out of those that tell hosts and paths apart, 2 changes, fairness | who is called was asked for, with the right values; who is refused is not there or has declined; the registries follow the tree; no request is lost but with its domain or resource |
| `static` | 3 files, 3 contents, 2 seconds, 5 `Accept` headers, a name with and without extension | a firm copy is never confirmed wrongly; a 406 is deserved, but for a type libmagic tells |
| `cookies` | 3 hosts, 1 domain of two of them, 2 paths, 3 cookies set, 3 seconds | values that are certainly replaced, and expired ones, are not sent |
| `saml` | 2 IdPs (SOAP and redirect), 3 configurations, 2 queries, 1 restart or reload, 1 change | a sign-on leads back to where it began; missing IdPs are told once; the best endpoint; complete logout |
| `finding_*` | | see Findings |

Bounds. Two requests are the least with an order, and a pipeline acts on its
head and on one behind it; one chunk separates the head of a response from its
end; reads bring none, one or two messages (one or two with liveness and with
faults, one where two connections interleave). One fault is one failure at every
point of every behaviour, which includes a failure of error handling, since
malformed data and statuses need no fault. In the client two requests share a
connection and the third comes to one that was used or has failed; a client keeps
its socket, so as many sockets as clients suffice. In the chain three states of the
resource are one before the check, one between check and coroutine, one after;
two clients are the least for that. Requests do not share what routing writes, so one
is enough; two changes of a tree are one that takes a component away and one that
puts another in its place or makes routes of what is left. Its templates have every
kind of variable, and leading slashes, of which all are stripped; none has a
`:name-`, whose `-` the tokenizer swallows, so that nothing is shown of these. A file needs one inode for the copy, one for the race and one for
the question. Three cookies are one to be replaced, one that replaces it and one
beside them. Two queries are the least that can be confused.

Fairness. circuits' loop takes event after event and asks each task in each
tick: weak fairness of dispatch and tick. `SF` for a coroutine and for the
idle timer of `HTTP`: both are enabled again and again, not always, and are over at
some tick. Peers owe nothing in `HTTP`. In `HTTPClient` servers answer and
connections that are asked for are established or fail, and data on a connection
is read; without that a client waits for ever, as the code has no timeout. In
`RequestChain` the coroutines of the resource end. `Routing` needs dispatch only.
`StaticResource`, `Cookies` and `ServiceProvider` have no liveness: what ends a request
there is `RequestChain`'s, and users may never come back. `CHECK_DEADLOCK` is off
because the models stop when all clients have been used.

What liveness excludes: `EveryRequestAnswered` of `HTTP` has no faults: an
exception that is no status in a routing handler, or in the preparation of the
head, leaves a request unanswered (hazards at `router.py:14`, `server.py:158`).

## What is proved

For every value of the constants, with only the assumption named in the module:

* `PipelineIsSound`, `OneResponseAtATime`, `ResponseOfTheFirst` (HTTPProofs). Two
  responses never mix because a response is started only for the head of a
  pipeline. That alone is not inductive: an event of the old response could be
  queued still. `PipelineInvariant` adds that all events in the queue are about
  clients of their connection (`QueueOwned`), that pipelines hold their own
  clients (`ClientsOwned`), that a disconnect comes only for a connection that is
  over (`DisconnectsAreReal`), that a queued event of a response is the one event
  of a response under way, whose client is the head of the pipeline (`StreamState`),
  and that there is one for each connection (`OneStream`). Handlers that touch neither
  responses nor pipelines are dealt with by one lemma (`QuietStep`), those of the
  response's chain by another (`StreamStep`); then there is one lemma for each
  handler. `TypesHold` is proved first.
* `OrderIsKept`, `InOrder`, `NoneSkipped` (HTTPOrderProofs). The order of what is written
  follows from what waits: requests wait as they were parsed (`RequestsAscend`) and leave
  only when they are done and answered (`LeftIsDone`), so that the earlier ones are done
  when one is the first. A head is written once, for `State.responses` remembers a
  response that has begun (`StartedIsAccepted`, `StreamSoFar`), and what has been
  written belongs to no request behind the first (`WrittenSoFar`). Most handlers move
  no response on and write at most an alert or an error: `Chatter` and `QuietOrder`.
* `NothingStalls` (HTTPOrderProofs): `NoStall`, assuming `prepare()` does not raise (if it
  does, the response never goes on: see the hazards). Whoever has its turn is driven by an
  event that is queued (`Drives`); the step that dispatches this event fires another,
  closes the connection or ends the turn (`Passed`). It rests on two facts `NoStall` does
  not say: only the first request has begun (`StartedIsFirst`), so that
  `_on_response_complete` finds the next one startable, and what is read has not been
  answered before (`responses` holds clients that exist).
* `PromiseIsKept` (HTTPOrderProofs): `HTTP` implements `Pipeline`, step by step. There is one
  lemma for each step of `Pipeline` (`PromiseBegins`, `PromiseFinishes`, ...), then one for
  each handler that takes it. It rests on `OrderInvariant`: that a response begins is a
  step of `Pipeline` only because its head had not been written, and the last resort
  only because its request waits and has not begun.
* `ServerClosesBetweenResponses` (HTTPOrderProofs): that what was written arrives is not claimed,
  as a close loses it (`Lose`). A close is harmless when it is queued and must still
  be when it is dispatched, with requests read in between. `CutInvariant` says of
  each queued `close` that its connection is over, or that every request it has had is done
  or has no response yet and is behind that close: whatever is read later
  has its events behind it (`Fresh`, `Justified`). The alert to a TLS handshake closes
  only what has made no request (`NoRequestYet`). Assumed: bodies, error bodies and
  their encoding do not raise and the TLS layer does not fail. Each of these five fails
  in TLC when it is allowed alone, so none can be dropped.
* `DoneIsSent` (HTTPOrderProofs). `DoneMeansSent` rests on each request being in one place
  at a time (`Token`): in one event or in the coroutine of its handler, and once its
  response is accepted in nothing but the events that send it. Then nobody can set
  `Client.done` (`server.py:289`) or replace the response behind its back. Handlers are of
  two kinds, and so are the lemmas: one acts for a client and fires at most one event
  about it (`ActsForOne`), or for none (`ActsForNobody`). Assumed: no foreign handler
  answers a request again ("later handler", "coroutine", "filter", "observer"). Here
  too TLC finds each of the four alone to break the property.
* `ClientIsSound`, `EachItsOwnResponse` (HTTPClientProofs). Responses are matched by
  order alone, which works because client and server agree on the order of all
  that is unanswered: the responses on their way are those of the first clients
  that wait, and the server has the requests of the others before it
  (`PipelineMirrored`).
  `ParsedForTheRightRequest` needs of that only that the parser is
  at the first client that waits (`ParserInvariant`), between reads.
* `ChainIsSound`, `MethodIsChecked`, `RefusalsHaveReasons`, `PassedMeetsTheRFC`, `OneAnswerEach`
  (RequestChainProofs). While an
  event runs and its method has not been executed, all the handlers called so far
  have passed on the state the resource has (`PassedSoFar`); since a check has
  a greater priority than the method, all have passed when it is executed, and
  the validators are set when a precondition is checked. A coroutine that waits has
  been checked on a state no newer than the one there is (`TasksChecked`). Outcomes are
  counted by phase (`OutcomesCounted`): none while the handlers are called, unless
  foreign code has stopped the event, and a coroutine waits only when they have been.
* `StaticIsSound`, `NotModifiedHolds` (StaticResourceProofs). A date that is over cannot be
  given to other content, unless somebody puts an older file back (`restored`):
  `CachedIsDated` says so of a firm copy, `OpenedIsDated` of a request under way whose
  file is the one that was dated, `ToldIsCached` of one that has been told the date
  already, when the file may change again before it is compared.
* `NegotiationHolds` (StaticResourceProofs). What is negotiated is the first of the best
  (`First`), which exists by the least number principle (`LeastNumber`): the library's
  theorem that the natural numbers are well founded, for sets instead of operators.
  The property names what it excepts: a GET of a file whose type libmagic tells may be
  refused if it does not accept `*/*`, and a quality of 0 may be passed over
  where the code asks for none (`Ignored`).
* `RegistryIsTheTree`, `RoutedWithinTheDomain` (RoutingProofs).
  Nothing can be said of the routers' sets while events are queued but what they will be:
  a component that is not in the set it belongs to is told of by an event, and one that
  has left is told so behind all that it has come (`Told`, `Follows`). This is
  inductive with the order of the tree, in which nothing hangs on what has not been
  registered (`InTreeGrows`). A request is awaited by one event at a time (`Awaited`), so
  that nobody routes it again once it has a resource.
  `RoutingAssumption` says of the trees that parents have no cycle and that paths are text.
* `CalledByTheTemplate`, `CalledAsTheTemplateSays` (RoutingProofs). Routes are made while
  resources come and go, and are not made again when one leaves. `LedInvariant` says that
  a route has the template of its resource *or* that one has left the tree, which it
  never enters again (`NothingComesBack`); or it is a pattern of the resource's own. What a client was given is right under the same condition,
  and `request` calls nobody outside the tree. A resource that is
  attached while its parent is not gets a cut path, which nobody is called by for that reason.
  The second theorem adds the meaning of templates under the hypothesis `TemplatesLead`.
* `NoKnownHostRefused`, `NothingMatchingRefused`, `NothingStandingRefused` (RoutingProofs):
  the halves of `RefusedMeansAbsent` and the whole. A resource in `Choosy` that has been asked
  and has declined is the one exception; that it has been asked means its route was there. A domain that has never been told to leave is in
  `domains` (`StillKnown`). The routes of what stands from the start are there
  (`Ready`), or `routes.create` comes before any event of a client (`Coming`); any later
  `routes.create` finds all of them by the children (`StandingIsChild`). An invariant
  that asks for routes of all that is in the tree would be false: nothing makes them when a resource
  is registered. The hypothesis `TemplatesCompile` is needed, as one template that does not
  compile leaves all routes of its domain as they were (`regexpath.py:29`), and
  `PathsMatch` is the other half of the meaning of templates. The three
  hypotheses speak of a tree, its paths and the requests alone, and no step changes them.
* `RecursionExists` (RoutingProofs) is what these rest on: a function that is defined by
  an equation along a way up that ends exists, whatever the
  equation. TLA+ reads a recursive function as one of those that solve its equation, so
  nothing can be proved of it before. The equations of `DomainOf`,
  `JoinedPath`, `FullPath`, `CutPaths` and the set of `AllChilds` follow from it.
* `CookiesAreSound`, `CertainlyReplaced`, `NeverOver` (CookiesProofs). `AddCookieEffect`: what
  `get_cookie` takes for a cookie with domain and path is at most the one of its
  key (`OneOfAKind`), so that the new one is alone; for one that lacks either this holds
  until a cookie of its name is mistaken for another, and nothing is claimed behind that. A creation time is never later
  than the response that set the cookie, so that Max-Age counts from before it.
* `ServiceProviderIsSound`, `SignOnLeadsBack`, `ToldOnce`, `LogoutIsComplete`
  (ServiceProviderProofs). A relay state that is drawn is new (`KeepStateEffect`), so
  that nothing kept for an outstanding query is overwritten; a restart forgets queries
  and states together. Whoever is refused has reloaded.
* `BestIsSelected` (ServiceProviderProofs). What a loop over a set of services ends with is
  said without the loop (`Selected`): the first that is the request, or the last with its
  netloc and scheme, or the last with its netloc. It goes on by the last service as the loop
  does (`SelectedByLast`), so it solves the equation of the fold, and no other
  function solves it: there is no least bound of a set of services at which they differ.

Only model-checked: liveness (`EveryRequestAnswered` of three modules,
`ClosedStateRemoved`, `EveryRequestRouted`), and the three facts about the language
of templates (`TemplatesCompile`, `TemplatesLead`, `PathsMatch`) for the trees of
`MCRouting`. `ENABLED` and fairness are out of the prover's reach, and what the folds of
`RegexPath` compute for every text is an induction over data.

## Findings

* `finding_generator`: the generator of an unsafe method is not executed when its
  response waits behind another one as the connection ends (`server.py:349` says it is).
* `finding_assertion`: the assertion of `_on_response_complete` fails for a read
  dispatched after the close (`server.py:197`).

`DoneMeansSent` holds unless a foreign handler answers again (`DoneIsSent`); with one (a
handler of `response` that fails) `Client.done` is set for a response none of which was sent (`server.py:289`, against
`wrapper/client.py:29`).

The models also show, without a run of its own:

* a response that is done, which "has been send to the socket" (`wrapper/client.py:29`), is
  cut by the idle timer or `Connection: close`, as the server closes the socket and with it
  what TCPServer has buffered (`server.py:340`): `Lose` in `OnClose`;
* `If-Unmodified-Since` is looked at beside `If-Match`, and `If-Modified-Since` beside
  `If-None-Match`, which RFC 7232 has ignored (`last_modified.py:36`, `22`; line 44 of the
  README of the repository refers to it): `DateBesideTag`;
* a date that is none is refused instead of ignored (`last_modified.py:31`, `46`): `NoDate`;
* an `If-Range` that does not hold is refused with 417 instead of answered by the whole
  (`if_range.py:34`; RFC 7233, line 42 of that README): `OtherPart`. Without any one of
  these three in `Departs`, TLC finds `RefusedForAReason` violated;
* `If-Match` is not checked on a resource that tells no tag (`etag.py:44`), the
  hypothesis of `PassedMeetsTheRFC`;
* `Accept: text/html` is `# not acceptable` for an HTML file whose type libmagic tells
  (`static.py:83`), which `NegotiationIsRight` excepts;
* the error of last resort is written before responses of earlier requests
  (`server.py:306`), which `Pipeline` has to except;
* a malformed message loses the complete ones of the same read (`server.py:60`);
* a response nobody waits for is given to the client answered before (`client.py:98`);
* `If-Match` does not protect a method that is a coroutine (`resource.py:96`, against the
  README of the repository, line 44): `ExecutedAsChecked` holds for functions;
* a file that is replaced between open and stat is confirmed by 304 ever after
  (`static.py:59`): `NotModifiedIsTrue` holds for firm copies;
* which cookie one without domain or path replaces is the choice of a set's order, and a
  replaced value may be sent again (`cookie.py:79`);
* a request is never answered when its domain goes between two events of its routing
  (`domain.py:72`): `EveryRequestRouted` excepts it.

## Not modelled

* `check_maximum_payload_length` (`request_content_type.py:18`, compares the wrong way
  round), `PreconditionRequired` (`precondition_required.py:17` calls what does not
  exist), both no default features; Accept-Encoding, which only sets a header.
* The websocket, TLS, CONNECT and Expect handshakes (`server/connection/`): each turns
  headers of one request into headers of its response; what follows is a tunnel
  (`HTTP`) or circuits' own.
* TCPServer's buffer is not a state of its own: what of `written` is still in it shows only
  in what a close may lose.
* The WSGI gateway: a request goes in and a response comes out of a call of foreign
  code; concurrency is that of circuits' worker threads. `Application` (wsgi.py:52) keeps
  the requests and responses of every call, which is listed as a hazard.
* SAML metadata, the markup of its responses and the text of its errors.
* The logger, host, user and SSL wrappers, argument parsing, gettext and examples, which
  keep no state that behaviour depends on.

Next would be the composition of `Routing` with `HTTP`, whose `OnRouting` has its
outcomes.
