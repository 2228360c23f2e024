-------------------------- MODULE ServiceProvider --------------------------
(***************************************************************************)
(* The SAML service provider (circuits/http/server/saml): a user agent is  *)
(* sent to an identity provider (IdP) and comes back with its response,    *)
(* once, never or several times, in any order, before or after a restart.  *)
(* The operations are those the application calls; the Saml2Client of      *)
(* pysaml2 is external.  There is one user, signed on at any of the IdPs.  *)
(*                                                                         *)
(* `config' is the configuration on disk, `sp' the Saml2Client made of it. *)
(* The id of a query is its place in `queries'; a relay state is a number  *)
(* when rndstr() has drawn it.                                             *)
(***************************************************************************)
EXTENDS Naturals, Sequences, SequencesExt

CONSTANTS
    IdPs,
    Configs,          \* [idps, acs]: the IdPs and the assertion consumer services
    URIs,             \* [scheme, netloc, path] of requests
    States,           \* what the application keeps for a sign-on
    RelayStates,      \* relay states the application gives
    LogoutBinding,    \* of each IdP: "redirect", "post", "soap" or "artifact"
    None,
    MaxQueries,       \* bound: queries, and relay states drawn
    MaxRestarts,      \* bound: restarts, and calls of reload()
    MaxChanges        \* bound: changes of the configuration

URIType == [scheme : STRING, netloc : STRING, path : STRING]

ASSUME ServiceProviderAssumption ==
    /\ URIs \subseteq URIType
    /\ \A c \in Configs :
         /\ c.idps \subseteq IdPs
         /\ c.acs \in Seq(URIType) /\ c.acs # <<>>
    /\ LogoutBinding \in [IdPs -> {"redirect", "post", "soap", "artifact"}]
    /\ None \notin States \cup RelayStates \cup Nat
    /\ RelayStates \cap Nat = {}
    /\ IdPs \cap {None, "NoIdentityProvider", "MultipleIdentityProvider"} = {}
    /\ MaxQueries \in Nat /\ MaxRestarts \in Nat /\ MaxChanges \in Nat

VARIABLES
    config,
    sp,
    outstanding_queries,   \* the ids (its values are only handed to pysaml2)
    relay_states,          \* the state that is kept for a relay state
    users,                 \* sp.users: the IdPs that the user is signed on at
    answered,              \* the queries the user agent has a response to
    outcome,               \* what the last operation returned or raised
    \* history
    queries,               \* what each query was made with
    drawn,                 \* the relay states drawn
    refusals,              \* NoIdentityProvider raised since there are some in the configuration
    restarts, changes

clientVars == <<sp, users>>
askedVars  == <<outstanding_queries, relay_states, queries, drawn>>
boundVars  == <<restarts, changes>>
vars == <<config, clientVars, askedVars, answered, outcome, refusals, boundVars>>

QueryType ==
    [idp: IdPs, state: States \cup {None}, relay_state: RelayStates \cup Nat \cup {None}]

Outcomes ==
    {"none", "NoIdentityProvider", "MultipleIdentityProvider", "SAMLError", "sent",
     "accepted", "EmptyAuthnResponse", "SamlError",
     "logged out", "logout sent", "TypeError", "logout handled"}

OutcomeType == [kind: Outcomes, query: Nat]

Outcome(kind) == [kind |-> kind, query |-> 0]

TypeOK ==
    /\ config \in Configs /\ sp \in Configs
    /\ outstanding_queries \subseteq DOMAIN queries
    /\ DOMAIN relay_states \subseteq RelayStates \cup Nat
    /\ users \subseteq IdPs
    /\ answered \subseteq DOMAIN queries
    /\ outcome \in OutcomeType
    /\ queries \in Seq(QueryType)
    /\ drawn \in Nat /\ refusals \in Nat /\ restarts \in Nat /\ changes \in Nat

Init ==
    /\ config \in Configs /\ sp = config
    /\ outstanding_queries = {} /\ relay_states = <<>>
    /\ users = {} /\ answered = {}
    /\ outcome = Outcome("none")
    /\ queries = <<>>
    /\ drawn = 0 /\ refusals = 0 /\ restarts = 0 /\ changes = 0

-----------------------------------------------------------------------------
(* Configuration *)

\* What `self.sp = Saml2Client(config_file=self.configfile)' replaces.
NewClient ==
    /\ sp' = config
    /\ users' = {}

\* The administrator
Configure ==
    /\ changes < MaxChanges
    /\ changes' = changes + 1
    /\ config' \in Configs
    /\ refusals' = 0
    /\ outcome' = Outcome("none")
    /\ UNCHANGED <<clientVars, askedVars, answered, restarts>>

Reload ==
    /\ restarts < MaxRestarts
    /\ restarts' = restarts + 1
    /\ NewClient
    /\ outcome' = Outcome("none")
    /\ UNCHANGED <<config, askedVars, answered, refusals, changes>>

\* The process ends and init() runs: the dictionaries are not kept.
Restart ==
    /\ restarts < MaxRestarts
    /\ restarts' = restarts + 1
    /\ NewClient
    /\ outstanding_queries' = {} /\ relay_states' = <<>>
    /\ outcome' = Outcome("none")
    /\ UNCHANGED <<config, answered, queries, drawn, refusals, changes>>

-----------------------------------------------------------------------------
(* Single sign on *)

SelectServiceProvider_Netloc(acs, uri) ==
    LET Visit(found, url) ==
            CASE found.path -> found
              [] ~found.path /\ url.netloc = uri.netloc ->
                   [url |-> url, netloc |-> TRUE,
                    path |-> url.scheme = uri.scheme /\ url.path = uri.path]
              [] OTHER -> found
    IN FoldLeft(Visit, [url |-> acs[1], netloc |-> FALSE, path |-> FALSE], acs).url

\* select_service_provider: `netloc' and `break' of the loop are fields
SelectServiceProvider(acs, uri) ==
    LET Near(url) == url.netloc = uri.netloc
        Same(url) == Near(url) /\ url.scheme = uri.scheme
        Visit(found, url) ==
            CASE ~found.path /\ Same(url) ->
                   [url |-> url, netloc |-> TRUE, path |-> url.path = uri.path]
              [] ~found.path /\ ~Same(url) /\ ~found.netloc /\ Near(url) ->
                   [found EXCEPT !.url = url]
              [] OTHER -> found
    IN FoldLeft(Visit, [url |-> acs[1], netloc |-> FALSE, path |-> FALSE], acs).url

\* What select_identity_provider returns or raises for `idps'
SelectIdentityProvider(idps, preferred) ==
    IF preferred \in idps THEN preferred
    ELSE IF \E i \in idps : idps = {i} THEN CHOOSE i \in idps : idps = {i}
    ELSE IF idps = {} THEN "NoIdentityProvider"
    ELSE "MultipleIdentityProvider"

ReloadIfNone_Never == UNCHANGED clientVars

\* reload() returns nothing, so that `idps' stays what it was before; the new
\* Saml2Client is there for the next call.
ReloadIfNone ==
    IF sp.idps = {} THEN NewClient ELSE UNCHANGED clientVars

Refuse(raised) ==
    /\ outcome' = Outcome(raised)
    /\ refusals' = IF raised = "NoIdentityProvider" /\ config.idps # {}
                   THEN refusals + 1 ELSE refusals
    /\ UNCHANGED askedVars

\* The relay state a query is sent with, and the draws of rndstr()
RelayState_Fixed(state, relay_state) ==
    IF state # None /\ relay_state = None THEN 1 ELSE relay_state

RelayState(state, relay_state) ==
    IF state # None /\ relay_state = None THEN drawn + 1 ELSE relay_state

KeepState(state, relay_state) ==
    LET relay == RelayState(state, relay_state)
    IN /\ drawn' = IF state # None /\ relay_state = None THEN drawn + 1 ELSE drawn
       /\ relay_states' = IF relay = None THEN relay_states
                          ELSE [r \in DOMAIN relay_states \cup {relay} |->
                                  IF r = relay THEN state ELSE relay_states[r]]

\* pick_binding, create_authn_request and apply_binding of pysaml2 may raise;
\* the last does when the state is kept already.
DoSingleSignOn ==
    /\ Len(queries) < MaxQueries /\ drawn < MaxQueries
    /\ ReloadIfNone
    /\ \E preferred \in IdPs \cup {None}, state \in States \cup {None},
          relay_state \in RelayStates \cup {None} :
         LET idp == SelectIdentityProvider(sp.idps, preferred)
         IN \/ idp \notin IdPs /\ Refuse(idp)
            \/ idp \in IdPs /\ Refuse("SAMLError")
            \/ /\ idp \in IdPs
               /\ KeepState(state, relay_state)
               /\ UNCHANGED refusals
               /\ \/ /\ outcome' = Outcome("SAMLError")
                     /\ UNCHANGED <<outstanding_queries, queries>>
                  \/ /\ queries' = Append(queries,
                            [idp |-> idp, state |-> state,
                             relay_state |-> RelayState(state, relay_state)])
                     /\ outstanding_queries' = outstanding_queries \cup {Len(queries) + 1}
                     /\ outcome' = [kind |-> "sent", query |-> Len(queries) + 1]
    /\ UNCHANGED <<config, answered, boundVars>>

\* The IdP authenticates the user (external).
Answer ==
    /\ \E query \in DOMAIN queries \ answered : answered' = answered \cup {query}
    /\ outcome' = Outcome("none")
    /\ UNCHANGED <<config, clientVars, askedVars, refusals, boundVars>>

\* parse_authn_respone, for what the user agent may post: a response to a
\* query, whatever else pysaml2 finds wrong with it, and something that is no
\* message, or an empty one.
ParseAuthnRespone ==
    /\ \/ /\ outcome' \in {Outcome("none"), Outcome("EmptyAuthnResponse")}
          /\ UNCHANGED users
       \/ \E query \in answered :
            \/ /\ query \in outstanding_queries /\ queries[query].idp \in sp.idps
               /\ outcome' = [kind |-> "accepted", query |-> query]
               /\ users' = users \cup {queries[query].idp}
            \/ /\ outcome' = Outcome("SamlError")
               /\ UNCHANGED users
    /\ UNCHANGED <<config, sp, askedVars, answered, refusals, boundVars>>

-----------------------------------------------------------------------------
(* Logout *)

\* What global_logout has for an IdP when the user agent has to go there; over
\* SOAP it is logged out of already.
ByUserAgent == {i \in users : LogoutBinding[i] # "soap"}

FirstLogout_Only ==
    \E i \in users :
        \/ LogoutBinding[i] = "soap" /\ outcome' = Outcome("logged out")
        \/ LogoutBinding[i] \in {"post", "redirect"} /\ outcome' = Outcome("logout sent")
        \/ LogoutBinding[i] = "artifact" /\ outcome' = Outcome("TypeError")

\* The loop over `data': the first that needs the user agent is where it goes,
\* in the order of a dictionary.  unknown_logout_binding returns a string, and
\* raising one is a TypeError.
FirstLogout ==
    \/ /\ ByUserAgent = {}
       /\ outcome' = Outcome("logged out")
    \/ \E i \in ByUserAgent :
         outcome' = Outcome(IF LogoutBinding[i] \in {"post", "redirect"}
                            THEN "logout sent" ELSE "TypeError")

\* Nobody is known by that name: the KeyError of entities() is an answer.
Logout ==
    /\ IF users = {} THEN outcome' = Outcome("logged out") ELSE FirstLogout
    /\ users' = ByUserAgent
    /\ UNCHANGED <<config, sp, askedVars, answered, refusals, boundVars>>

\* A message of an IdP about a logout.  It is taken for a request if it can be
\* inflated, which is what the redirect binding does to messages; a request
\* that is posted is handled as a response, in which pysaml2 finds nothing.
ParseSamlLogout ==
    /\ \E idp \in users, request \in BOOLEAN, binding \in {"redirect", "post"} :
         LET is_logout_request == request /\ binding = "redirect"
         IN IF is_logout_request
            THEN users' = {} /\ outcome' = Outcome("logout handled")
            ELSE /\ users' = IF request THEN users ELSE users \ {idp}
                 /\ outcome' = Outcome("none")
    /\ UNCHANGED <<config, sp, askedVars, answered, refusals, boundVars>>

Next ==
    \/ Configure \/ Reload \/ Restart
    \/ DoSingleSignOn \/ Answer \/ ParseAuthnRespone
    \/ Logout \/ ParseSamlLogout

Spec == Init /\ [][Next]_vars

-----------------------------------------------------------------------------

\* What is kept for a relay state that was drawn is kept for as long as the
\* queries sent with it are outstanding.
Kept(query) ==
    LET relay == queries[query].relay_state
    IN relay \in Nat => /\ relay \in DOMAIN relay_states
                        /\ relay_states[relay] = queries[query].state

ServiceProviderInvariant ==
    /\ TypeOK
    /\ \A r \in DOMAIN relay_states : r \in Nat => r <= drawn
    /\ \A q \in outstanding_queries : Kept(q)
    /\ outcome.kind = "accepted" => outcome.query \in outstanding_queries
    /\ sp.idps = {} => refusals = 0 \/ config.idps = {}
    /\ refusals <= 1

\* A sign-on that succeeds leads back to where its user came from: the relay
\* state that was drawn for it still stands for the state it was begun with,
\* whatever signed on meanwhile and whatever was reloaded or restarted
\* (do_single_sign_on, parse_authn_respone).
RelayLeadsBack == outcome.kind = "accepted" => Kept(outcome.query)

\* "No identity provider are set up" is said at most once after some are: the
\* call that says so has reloaded the configuration (select_identity_provider).
RefusedOnce == refusals <= 1

\* How well an assertion consumer service suits the request: the netloc, then
\* the scheme, then the path as well.
Fit(url, uri) ==
    CASE url = uri -> 3
      [] url # uri /\ url.netloc = uri.netloc /\ url.scheme = uri.scheme -> 2
      [] url.netloc = uri.netloc /\ url.scheme # uri.scheme -> 1
      [] OTHER -> 0

BestSelected(acs) ==
    \A uri \in URIs : \A i \in DOMAIN acs :
        Fit(acs[i], uri) <= Fit(SelectServiceProvider(acs, uri), uri)

\* Of the services of the configuration no other suits a request better than
\* the one that is selected, in whatever order they are (select_service_provider);
\* looked at when a Saml2Client is made of another configuration.
BestServiceSelected == [][sp' # sp => BestSelected(sp'.acs)]_sp

\* A logout that sends the user agent nowhere has logged the user out at every
\* IdP that is known, in whatever order the IdPs are asked (logout).
LoggedOutEverywhere == outcome.kind = "logged out" => users = {}
=============================================================================
