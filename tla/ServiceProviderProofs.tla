----------------------- MODULE ServiceProviderProofs -----------------------
(***************************************************************************)
(* ServiceProviderInvariant is an invariant of ServiceProvider: what was   *)
(* kept for an outstanding query is what it was made with, and nobody is   *)
(* refused twice for want of an IdP. The last section is about the loop    *)
(* that selects a service: a function that is given without recursion      *)
(* solves the equation of the fold, and two solutions agree, since there   *)
(* is no least bound of a set of services at which they differ.            *)
(***************************************************************************)
EXTENDS ServiceProvider, TLAPS, WellFoundedInduction

\* The clauses of the invariant behind its types.
RelaysDrawn == \A r \in DOMAIN relay_states : r \in Nat => r <= drawn

OutstandingKept == \A q \in outstanding_queries : Kept(q)

AcceptedOutstanding == outcome.kind = "accepted" => outcome.query \in outstanding_queries

RefusedReloaded == sp.idps = {} => refusals = 0 \/ config.idps = {}

\* What a selection returns or raises.
LEMMA Selection ==
    ASSUME ServiceProviderAssumption, NEW idps \in SUBSET IdPs, NEW preferred
    PROVE  LET idp == SelectIdentityProvider(idps, preferred)
           IN /\ idp \in idps \cup {"NoIdentityProvider", "MultipleIdentityProvider"}
              /\ idp = "NoIdentityProvider" => idps = {}
BY DEF ServiceProviderAssumption, SelectIdentityProvider

\* A configuration has a set of IdPs.
LEMMA ConfigIdPs ==
    ASSUME ServiceProviderAssumption, NEW c \in Configs
    PROVE  c.idps \in SUBSET IdPs
BY DEF ServiceProviderAssumption

\* What an operation that returns no query leaves.
LEMMA OutcomeFields ==
    ASSUME NEW kind
    PROVE  Outcome(kind).kind = kind
BY DEF Outcome

LEMMA OutcomeTyped ==
    ASSUME NEW kind \in Outcomes
    PROVE  Outcome(kind) \in OutcomeType
BY DEF Outcome, OutcomeType

LEMMA InitInvariant == Init => ServiceProviderInvariant
<1> SUFFICES ASSUME Init PROVE ServiceProviderInvariant
  OBVIOUS
<1>1. TypeOK
  <2>1. outcome \in OutcomeType
    BY DEF Init, OutcomeType, Outcomes, Outcome
  <2>2. queries \in Seq(QueryType) /\ DOMAIN relay_states = {}
    BY DEF Init
  <2> QED
    BY <2>1, <2>2 DEF Init, TypeOK
<1>2. DOMAIN relay_states = {}
  BY DEF Init
<1> QED
  BY <1>1, <1>2 DEF Init, ServiceProviderInvariant, Outcome

\* Steps that leave alone what has been asked and refused.
LEMMA QuietStep ==
    ASSUME ServiceProviderInvariant, UNCHANGED <<askedVars, refusals>>,
           sp' \in Configs, config' = config,
           sp' = sp \/ sp'.idps = config.idps,
           users' \subseteq IdPs, answered' \subseteq DOMAIN queries,
           outcome' \in OutcomeType,
           outcome'.kind = "accepted" => outcome'.query \in outstanding_queries,
           restarts' \in Nat, changes' \in Nat
    PROVE  ServiceProviderInvariant'
<1>1. TypeOK
  BY DEF ServiceProviderInvariant
<1>2. TypeOK'
  BY <1>1 DEF TypeOK, askedVars
<1>3. RelaysDrawn' /\ OutstandingKept'
  BY DEF ServiceProviderInvariant, RelaysDrawn, OutstandingKept, Kept, askedVars
<1>4. RefusedReloaded' /\ AcceptedOutstanding'
  BY DEF ServiceProviderInvariant, RefusedReloaded, AcceptedOutstanding, askedVars
<1>5. (refusals <= 1)'
  BY DEF ServiceProviderInvariant
<1> QED
  BY <1>2, <1>3, <1>4, <1>5
     DEF ServiceProviderInvariant, RelaysDrawn, OutstandingKept, RefusedReloaded, AcceptedOutstanding

LEMMA ConfigureInvariant ==
    ASSUME ServiceProviderInvariant, Configure
    PROVE  ServiceProviderInvariant'
<1>1. TypeOK
  BY DEF ServiceProviderInvariant
<1>2. outcome' = Outcome("none") /\ Outcome("none") \in OutcomeType
  BY DEF Configure, Outcome, OutcomeType, Outcomes
<1>3. TypeOK'
  BY <1>1, <1>2 DEF TypeOK, Configure, clientVars, askedVars
<1>4. RelaysDrawn' /\ OutstandingKept'
  BY DEF ServiceProviderInvariant, Configure, RelaysDrawn, OutstandingKept, Kept, askedVars
<1>5. AcceptedOutstanding'
  BY <1>2 DEF Outcome, AcceptedOutstanding
<1>6. refusals' = 0
  BY DEF Configure
<1> QED
  BY <1>3, <1>4, <1>5, <1>6
     DEF ServiceProviderInvariant, RelaysDrawn, OutstandingKept, AcceptedOutstanding

LEMMA ReloadInvariant ==
    ASSUME ServiceProviderInvariant, Reload
    PROVE  ServiceProviderInvariant'
<1>1. TypeOK
  BY DEF ServiceProviderInvariant
<1>2. outcome' \in OutcomeType /\ outcome'.kind # "accepted"
  BY DEF Reload, Outcome, OutcomeType, Outcomes
<1>3. sp' = config /\ users' = {} /\ restarts' = restarts + 1
      /\ UNCHANGED <<config, askedVars, answered, refusals, changes>>
  BY DEF Reload, NewClient
<1> QED
  BY <1>1, <1>2, <1>3, QuietStep DEF TypeOK

LEMMA RestartInvariant ==
    ASSUME ServiceProviderInvariant, Restart
    PROVE  ServiceProviderInvariant'
<1>1. TypeOK
  BY DEF ServiceProviderInvariant
<1>2. outcome' \in OutcomeType /\ outcome'.kind # "accepted"
  BY DEF Restart, Outcome, OutcomeType, Outcomes
<1>3. sp' = config /\ users' = {} /\ restarts' = restarts + 1
      /\ outstanding_queries' = {} /\ DOMAIN relay_states' = {}
      /\ UNCHANGED <<config, answered, queries, drawn, refusals, changes>>
  BY DEF Restart, NewClient
<1>4. TypeOK'
  BY <1>1, <1>2, <1>3 DEF TypeOK
<1>5. RelaysDrawn' /\ OutstandingKept' /\ AcceptedOutstanding' /\ RefusedReloaded' /\ refusals' <= 1
  BY <1>2, <1>3 DEF ServiceProviderInvariant, RelaysDrawn, OutstandingKept, AcceptedOutstanding, RefusedReloaded
<1> QED
  BY <1>4, <1>5
     DEF ServiceProviderInvariant, RelaysDrawn, OutstandingKept, RefusedReloaded, AcceptedOutstanding

LEMMA AnswerInvariant ==
    ASSUME ServiceProviderInvariant, Answer
    PROVE  ServiceProviderInvariant'
<1>1. TypeOK
  BY DEF ServiceProviderInvariant
<1>2. outcome' \in OutcomeType /\ outcome'.kind # "accepted"
  BY DEF Answer, Outcome, OutcomeType, Outcomes
<1>3. answered' \subseteq DOMAIN queries
  BY <1>1 DEF Answer, TypeOK
<1>4. UNCHANGED <<config, sp, users, askedVars, refusals, restarts, changes>>
  BY DEF Answer, clientVars, boundVars
<1> QED
  BY <1>1, <1>2, <1>3, <1>4, QuietStep DEF TypeOK

LEMMA ParseAuthnResponeInvariant ==
    ASSUME ServiceProviderInvariant, ParseAuthnRespone
    PROVE  ServiceProviderInvariant'
<1>1. TypeOK
  BY DEF ServiceProviderInvariant
<1>2. UNCHANGED <<config, sp, askedVars, answered, refusals, restarts, changes>>
  BY DEF ParseAuthnRespone, boundVars
<1>3. CASE \E query \in answered :
             /\ query \in outstanding_queries /\ queries[query].idp \in sp.idps
             /\ outcome' = [kind |-> "accepted", query |-> query]
             /\ users' = users \cup {queries[query].idp}
  <2>1. PICK query \in outstanding_queries :
             /\ queries[query].idp \in sp.idps
             /\ outcome' = [kind |-> "accepted", query |-> query]
             /\ users' = users \cup {queries[query].idp}
    BY <1>3
  <2>2. query \in Nat
    BY <1>1, <2>1 DEF TypeOK
  <2>3. outcome' \in OutcomeType /\ outcome'.query = query
    BY <2>1, <2>2 DEF OutcomeType, Outcomes
  <2>4. users' \subseteq IdPs
    BY <1>1, <2>1, ConfigIdPs, ServiceProviderAssumption DEF TypeOK
  <2> QED
    BY <1>1, <1>2, <2>1, <2>3, <2>4, QuietStep DEF TypeOK
<1>4. CASE users' = users /\ outcome' \in {Outcome("none"), Outcome("EmptyAuthnResponse"), Outcome("SamlError")}
  <2>1. outcome' \in OutcomeType /\ outcome'.kind # "accepted"
    <3>1. PICK k \in {"none", "EmptyAuthnResponse", "SamlError"} : outcome' = Outcome(k)
      BY <1>4
    <3>2. k \in Outcomes /\ k # "accepted"
      BY DEF Outcomes
    <3> QED
      BY <3>1, <3>2, OutcomeFields, OutcomeTyped
  <2> QED
    BY <1>1, <1>2, <1>4, <2>1, QuietStep DEF TypeOK
<1> QED
  BY <1>3, <1>4 DEF ParseAuthnRespone

LEMMA LogoutInvariant ==
    ASSUME ServiceProviderInvariant, Logout
    PROVE  ServiceProviderInvariant'
<1>1. TypeOK
  BY DEF ServiceProviderInvariant
<1>2. UNCHANGED <<config, sp, askedVars, answered, refusals, restarts, changes>>
  BY DEF Logout, boundVars
<1>3. users' \subseteq IdPs
  BY <1>1 DEF Logout, ByUserAgent, TypeOK
<1>5. outcome' \in OutcomeType /\ outcome'.kind # "accepted"
  <2>1. PICK k \in {"logged out", "logout sent", "TypeError"} : outcome' = Outcome(k)
    BY DEF Logout, FirstLogout
  <2>2. k \in Outcomes /\ k # "accepted"
    BY DEF Outcomes
  <2> QED
    BY <2>1, <2>2, OutcomeFields, OutcomeTyped
<1> QED
  BY <1>1, <1>2, <1>3, <1>5, QuietStep DEF TypeOK

LEMMA ParseSamlLogoutInvariant ==
    ASSUME ServiceProviderInvariant, ParseSamlLogout
    PROVE  ServiceProviderInvariant'
<1>1. TypeOK
  BY DEF ServiceProviderInvariant
<1>2. UNCHANGED <<config, sp, askedVars, answered, refusals, restarts, changes>>
  BY DEF ParseSamlLogout, boundVars
<1>3. users' \subseteq IdPs
  BY <1>1 DEF ParseSamlLogout, TypeOK
<1>5. outcome' \in OutcomeType /\ outcome'.kind # "accepted"
  <2>1. PICK k \in {"logout handled", "none"} : outcome' = Outcome(k)
    BY DEF ParseSamlLogout
  <2>2. k \in Outcomes /\ k # "accepted"
    BY DEF Outcomes
  <2> QED
    BY <2>1, <2>2, OutcomeFields, OutcomeTyped
<1> QED
  BY <1>1, <1>2, <1>3, <1>5, QuietStep DEF TypeOK

-----------------------------------------------------------------------------
(* do_single_sign_on *)

\* A refusal for want of an IdP comes with the configuration there is, so that
\* the next one has its IdPs.
LEMMA RefuseStep ==
    ASSUME ServiceProviderInvariant, ReloadIfNone, NEW raised, Refuse(raised),
           raised = "NoIdentityProvider" => sp.idps = {},
           raised \in Outcomes, raised # "accepted",
           UNCHANGED <<config, answered, boundVars>>
    PROVE  ServiceProviderInvariant'
<1>1. TypeOK /\ sp' \in Configs /\ users' \subseteq IdPs
      /\ (sp' = sp \/ sp' = config) /\ (sp.idps = {} => sp' = config)
  BY DEF ServiceProviderInvariant, TypeOK, ReloadIfNone, NewClient, clientVars
<1>2. outcome' \in OutcomeType /\ outcome'.kind # "accepted"
  BY DEF Refuse, Outcome, OutcomeType, Outcomes
<1>3. CASE refusals' = refusals
  BY <1>1, <1>2, <1>3, QuietStep DEF Refuse, TypeOK, boundVars
<1>4. CASE raised = "NoIdentityProvider" /\ config.idps # {} /\ refusals' = refusals + 1
  <2>1. sp' = config /\ refusals' = 1 /\ config' = config
    BY <1>1, <1>4 DEF ServiceProviderInvariant
  <2>2. TypeOK'
    BY <1>1, <1>2, <2>1 DEF TypeOK, Refuse, askedVars, boundVars
  <2>3. RelaysDrawn' /\ OutstandingKept' /\ AcceptedOutstanding'
    BY <1>2 DEF ServiceProviderInvariant, RelaysDrawn, OutstandingKept, AcceptedOutstanding, Kept, Refuse, askedVars
  <2>4. RefusedReloaded' /\ refusals' <= 1
    BY <1>4, <2>1 DEF RefusedReloaded
  <2> QED
    BY <2>2, <2>3, <2>4
       DEF ServiceProviderInvariant, RelaysDrawn, OutstandingKept, RefusedReloaded, AcceptedOutstanding
<1> QED
  BY <1>3, <1>4 DEF Refuse

\* The state is kept for the relay state of the query; what was kept for those
\* that have been drawn is kept.
LEMMA KeepStateEffect ==
    ASSUME ServiceProviderInvariant,
           NEW state \in States \cup {None}, NEW relay_state \in RelayStates \cup {None},
           KeepState(state, relay_state)
    PROVE  LET relay == RelayState(state, relay_state)
           IN /\ relay \in RelayStates \cup Nat \cup {None}
              /\ drawn' \in Nat
              /\ RelaysDrawn'
              /\ DOMAIN relay_states' \subseteq RelayStates \cup Nat
              /\ \A r \in DOMAIN relay_states : r \in Nat =>
                    r \in DOMAIN relay_states' /\ relay_states'[r] = relay_states[r]
              /\ relay \in Nat => relay \in DOMAIN relay_states' /\ relay_states'[relay] = state
<1> DEFINE relay == RelayState(state, relay_state)
<1>1. /\ drawn \in Nat /\ DOMAIN relay_states \subseteq RelayStates \cup Nat
      /\ \A r \in DOMAIN relay_states : r \in Nat => r <= drawn
  BY DEF ServiceProviderInvariant, TypeOK
<1>2. None \notin RelayStates \cup Nat /\ RelayStates \cap Nat = {}
  BY ServiceProviderAssumption DEF ServiceProviderAssumption
<1>3. CASE state # None /\ relay_state = None
  <2>1. relay = drawn + 1 /\ drawn' = drawn + 1
        /\ relay_states' = [r \in DOMAIN relay_states \cup {relay} |->
                               IF r = relay THEN state ELSE relay_states[r]]
    BY <1>1, <1>2, <1>3 DEF RelayState, KeepState
  <2> QED
    BY <1>1, <1>2, <2>1 DEF RelaysDrawn
<1>4. CASE ~(state # None /\ relay_state = None)
  <2>1. relay = relay_state /\ drawn' = drawn
    BY <1>4 DEF RelayState, KeepState
  <2>2. CASE relay = None
    BY <1>1, <1>2, <2>1, <2>2 DEF KeepState, RelaysDrawn
  <2>3. CASE relay # None
    <3>1. relay \in RelayStates /\ relay \notin Nat
      BY <1>2, <2>1, <2>3
    <3>2. relay_states' = [r \in DOMAIN relay_states \cup {relay} |->
                               IF r = relay THEN state ELSE relay_states[r]]
      BY <2>3 DEF KeepState
    <3> HIDE DEF relay
    <3>3. \A r \in DOMAIN relay_states : r \in Nat => r # relay
      BY <3>1
    <3>4. DOMAIN relay_states' = DOMAIN relay_states \cup {relay}
      BY <3>2
    <3>5. RelaysDrawn'
      BY <1>1, <2>1, <3>1, <3>4 DEF RelaysDrawn
    <3>6. \A r \in DOMAIN relay_states : r \in Nat =>
                    r \in DOMAIN relay_states' /\ relay_states'[r] = relay_states[r]
      BY <3>2, <3>3
    <3> QED
      BY <1>1, <2>1, <3>1, <3>4, <3>5, <3>6 DEF relay
  <2> QED
    BY <2>2, <2>3
<1> QED
  BY <1>3, <1>4

\* A sign-on that is sent, or fails when its state is kept.
LEMMA SentStep ==
    ASSUME ServiceProviderInvariant, ReloadIfNone,
           NEW state \in States \cup {None}, NEW relay_state \in RelayStates \cup {None},
           NEW idp \in IdPs,
           KeepState(state, relay_state),
           UNCHANGED <<config, answered, refusals, boundVars>>,
           \/ /\ outcome' = Outcome("SAMLError")
              /\ UNCHANGED <<outstanding_queries, queries>>
           \/ /\ queries' = Append(queries,
                     [idp |-> idp, state |-> state, relay_state |-> RelayState(state, relay_state)])
              /\ outstanding_queries' = outstanding_queries \cup {Len(queries) + 1}
              /\ outcome' = [kind |-> "sent", query |-> Len(queries) + 1]
    PROVE  ServiceProviderInvariant'
<1> DEFINE query == [idp |-> idp, state |-> state, relay_state |-> RelayState(state, relay_state)]
<1>1. TypeOK /\ OutstandingKept /\ sp' \in Configs /\ users' \subseteq IdPs
      /\ (sp' = sp \/ sp' = config)
  BY DEF ServiceProviderInvariant, TypeOK, OutstandingKept, ReloadIfNone, NewClient, clientVars
<1>2. queries \in Seq(QueryType) /\ outstanding_queries \subseteq DOMAIN queries
      /\ DOMAIN queries = 1..Len(queries) /\ Len(queries) \in Nat
  BY <1>1 DEF TypeOK
<1>3. /\ RelayState(state, relay_state) \in RelayStates \cup Nat \cup {None}
      /\ drawn' \in Nat /\ RelaysDrawn'
      /\ DOMAIN relay_states' \subseteq RelayStates \cup Nat
      /\ \A r \in DOMAIN relay_states : r \in Nat =>
            r \in DOMAIN relay_states' /\ relay_states'[r] = relay_states[r]
      /\ RelayState(state, relay_state) \in Nat =>
            /\ RelayState(state, relay_state) \in DOMAIN relay_states'
            /\ relay_states'[RelayState(state, relay_state)] = state
  BY KeepStateEffect
<1>4. query \in QueryType /\ query.state = state /\ query.relay_state = RelayState(state, relay_state)
  BY <1>3 DEF QueryType
<1> HIDE DEF query
<1>5. CASE /\ outcome' = Outcome("SAMLError")
           /\ UNCHANGED <<outstanding_queries, queries>>
  <2>1. outcome' \in OutcomeType /\ outcome'.kind # "accepted"
    BY <1>5 DEF Outcome, OutcomeType, Outcomes
  <2>2. TypeOK'
    BY <1>1, <1>3, <1>5, <2>1 DEF TypeOK, boundVars
  <2>3. OutstandingKept'
    BY <1>1, <1>3, <1>5 DEF OutstandingKept, Kept
  <2>4. AcceptedOutstanding' /\ RefusedReloaded' /\ refusals' <= 1
    BY <1>1, <2>1 DEF ServiceProviderInvariant, AcceptedOutstanding, RefusedReloaded
  <2> QED
    BY <1>3, <2>2, <2>3, <2>4
       DEF ServiceProviderInvariant, RelaysDrawn, OutstandingKept, RefusedReloaded, AcceptedOutstanding
<1>6. CASE /\ queries' = Append(queries, query)
           /\ outstanding_queries' = outstanding_queries \cup {Len(queries) + 1}
           /\ outcome' = [kind |-> "sent", query |-> Len(queries) + 1]
  <2>1. outcome' \in OutcomeType /\ outcome'.kind # "accepted"
    <3>1. Len(queries) + 1 \in Nat
      BY <1>2
    <3>2. outcome' = [kind |-> "sent", query |-> Len(queries) + 1]
      BY <1>6
    <3> HIDE <1>6
    <3> QED
      BY <3>1, <3>2 DEF OutcomeType, Outcomes
  <2>2. /\ queries' \in Seq(QueryType) /\ DOMAIN queries' = 1..(Len(queries) + 1)
        /\ \A i \in 1..Len(queries) : queries'[i] = queries[i]
        /\ queries'[Len(queries) + 1] = query
    <3>1. queries' = Append(queries, query)
      BY <1>6
    <3>2. Len(queries) \in Nat /\ query \in QueryType /\ queries \in Seq(QueryType)
      BY <1>2, <1>4
    <3>3. queries' \in Seq(QueryType) /\ Len(queries') = Len(queries) + 1
      BY <3>1, <3>2
    <3>4. \A i \in 1..Len(queries) : queries'[i] = queries[i]
      BY <3>1, <3>2
    <3>5. queries'[Len(queries) + 1] = query
      BY <3>1, <3>2
    <3> QED
      BY <3>3, <3>4, <3>5
  <2>3. outstanding_queries' \subseteq DOMAIN queries' /\ answered' \subseteq DOMAIN queries'
    <3>1. outstanding_queries' = outstanding_queries \cup {Len(queries) + 1}
      BY <1>6
    <3>2. answered' = answered /\ answered \subseteq 1..Len(queries)
      BY <1>1, <1>2 DEF TypeOK
    <3> QED
      BY <1>2, <2>2, <3>1, <3>2
  <2>4. TypeOK'
    BY <1>1, <1>3, <2>1, <2>2, <2>3 DEF TypeOK, boundVars
  <2>5. OutstandingKept'
    <3> SUFFICES ASSUME NEW q \in outstanding_queries', queries'[q].relay_state \in Nat
                 PROVE  /\ queries'[q].relay_state \in DOMAIN relay_states'
                        /\ relay_states'[queries'[q].relay_state] = queries'[q].state
      BY DEF OutstandingKept, Kept
    <3>1. CASE q = Len(queries) + 1
      BY <1>3, <1>4, <2>2, <3>1
    <3>2. CASE q \in outstanding_queries
      <4>1. queries'[q] = queries[q]
        BY <1>2, <2>2, <3>2
      <4>2. Kept(q)
        BY <1>1, <3>2 DEF OutstandingKept
      <4> QED
        BY <1>3, <4>1, <4>2 DEF Kept
    <3> QED
      BY <1>6, <3>1, <3>2
  <2>6. AcceptedOutstanding' /\ RefusedReloaded' /\ refusals' <= 1
    BY <1>1, <2>1 DEF ServiceProviderInvariant, AcceptedOutstanding, RefusedReloaded
  <2> QED
    BY <1>3, <2>4, <2>5, <2>6
       DEF ServiceProviderInvariant, RelaysDrawn, OutstandingKept, RefusedReloaded, AcceptedOutstanding
<1> QED
  BY <1>5, <1>6 DEF query

LEMMA DoSingleSignOnInvariant ==
    ASSUME ServiceProviderInvariant, DoSingleSignOn
    PROVE  ServiceProviderInvariant'
<1>1. ReloadIfNone /\ UNCHANGED <<config, answered, boundVars>>
  BY DEF DoSingleSignOn
<1>2. PICK preferred \in IdPs \cup {None}, state \in States \cup {None},
           relay_state \in RelayStates \cup {None} :
         LET idp == SelectIdentityProvider(sp.idps, preferred)
         IN \/ idp \notin IdPs /\ Refuse(idp)
            \/ idp \in IdPs /\ Refuse("SAMLError")
            \/ /\ idp \in IdPs
               /\ KeepState(state, relay_state)
               /\ UNCHANGED refusals
               /\ \/ /\ outcome' = Outcome("SAMLError")
                     /\ UNCHANGED <<outstanding_queries, queries>>
                  \/ /\ queries' = Append(queries,
                            [idp |-> idp, state |-> state,
                             relay_state |-> RelayState(state, relay_state)])
                     /\ outstanding_queries' = outstanding_queries \cup {Len(queries) + 1}
                     /\ outcome' = [kind |-> "sent", query |-> Len(queries) + 1]
  BY DEF DoSingleSignOn
<1> DEFINE idp == SelectIdentityProvider(sp.idps, preferred)
<1>3. sp.idps \in SUBSET IdPs
  BY ConfigIdPs, ServiceProviderAssumption DEF ServiceProviderInvariant, TypeOK
<1>4. /\ idp \in sp.idps \cup {"NoIdentityProvider", "MultipleIdentityProvider"}
      /\ idp = "NoIdentityProvider" => sp.idps = {}
  BY <1>3, Selection, ServiceProviderAssumption
<1> HIDE DEF idp
<1>5. CASE idp \notin IdPs /\ Refuse(idp)
  <2>1. idp \in {"NoIdentityProvider", "MultipleIdentityProvider"}
    BY <1>3, <1>4, <1>5
  <2>2. idp \in Outcomes /\ idp # "accepted"
    BY <2>1 DEF Outcomes
  <2> QED
    BY <1>1, <1>4, <1>5, <2>2, RefuseStep
<1>6. CASE Refuse("SAMLError")
  <2>1. "SAMLError" \in Outcomes
    BY DEF Outcomes
  <2> QED
    BY <1>1, <1>6, <2>1, RefuseStep
<1>7. CASE /\ idp \in IdPs
           /\ KeepState(state, relay_state)
           /\ UNCHANGED refusals
           /\ \/ /\ outcome' = Outcome("SAMLError")
                 /\ UNCHANGED <<outstanding_queries, queries>>
              \/ /\ queries' = Append(queries,
                        [idp |-> idp, state |-> state,
                         relay_state |-> RelayState(state, relay_state)])
                 /\ outstanding_queries' = outstanding_queries \cup {Len(queries) + 1}
                 /\ outcome' = [kind |-> "sent", query |-> Len(queries) + 1]
  <2>1. UNCHANGED <<config, answered, refusals, boundVars>>
    BY <1>1, <1>7
  <2> QED
    BY <1>1, <1>7, <2>1, SentStep
<1> QED
  BY <1>2, <1>5, <1>6, <1>7 DEF idp

-----------------------------------------------------------------------------

\* The inductive invariant of the service provider.
THEOREM ServiceProviderIsSound == Spec => []ServiceProviderInvariant
<1>1. ASSUME ServiceProviderInvariant, [Next]_vars PROVE ServiceProviderInvariant'
  <2>1. CASE UNCHANGED vars
    <3>1. TypeOK /\ TypeOK'
      BY <1>1, <2>1 DEF ServiceProviderInvariant, TypeOK, vars, clientVars, askedVars, boundVars
    <3> QED
      BY <1>1, <2>1, <3>1 DEF ServiceProviderInvariant, Kept, vars, clientVars, askedVars
  <2> QED
    BY <1>1, <2>1, ConfigureInvariant, ReloadInvariant, RestartInvariant, DoSingleSignOnInvariant,
       AnswerInvariant, ParseAuthnResponeInvariant, LogoutInvariant, ParseSamlLogoutInvariant DEF Next
<1> QED
  BY <1>1, InitInvariant, PTL DEF Spec

\* A sign-on that is accepted leads back to where it began (RelayLeadsBack).
THEOREM SignOnLeadsBack == Spec => []RelayLeadsBack
<1>1. ServiceProviderInvariant => RelayLeadsBack
  BY DEF ServiceProviderInvariant, RelayLeadsBack
<1> QED
  BY <1>1, ServiceProviderIsSound, PTL

\* The lack of IdPs is told once after there are some (RefusedOnce).
THEOREM ToldOnce == Spec => []RefusedOnce
<1>1. ServiceProviderInvariant => RefusedOnce
  BY DEF ServiceProviderInvariant, RefusedOnce
<1> QED
  BY <1>1, ServiceProviderIsSound, PTL

\* Who is not sent anywhere is logged out everywhere (LoggedOutEverywhere).
THEOREM LogoutIsComplete == Spec => []LoggedOutEverywhere
<1>1. Init => LoggedOutEverywhere
  BY DEF Init, LoggedOutEverywhere, Outcome
<1>2. ASSUME LoggedOutEverywhere, ServiceProviderInvariant, [Next]_vars PROVE LoggedOutEverywhere'
  <2>1. CASE UNCHANGED vars
    BY <1>2, <2>1 DEF LoggedOutEverywhere, vars, clientVars
  <2>2. CASE Configure \/ Reload \/ Restart \/ Answer
    <3>1. outcome'.kind = "none"
      BY <2>2 DEF Configure, Reload, Restart, Answer, Outcome
    <3> QED
      BY <3>1 DEF LoggedOutEverywhere
  <2>3. CASE DoSingleSignOn
    <3>1. sp.idps \in SUBSET IdPs
      BY <1>2, ConfigIdPs, ServiceProviderAssumption DEF ServiceProviderInvariant, TypeOK
    <3>2. PICK preferred \in IdPs \cup {None} :
             \/ /\ SelectIdentityProvider(sp.idps, preferred) \notin IdPs
                /\ outcome' = Outcome(SelectIdentityProvider(sp.idps, preferred))
             \/ outcome' = Outcome("SAMLError")
             \/ outcome'.kind = "sent"
      BY <2>3 DEF DoSingleSignOn, Refuse
    <3>3. SelectIdentityProvider(sp.idps, preferred) \in
             sp.idps \cup {"NoIdentityProvider", "MultipleIdentityProvider"}
      BY <3>1, Selection, ServiceProviderAssumption
    <3>4. outcome'.kind # "logged out"
      BY <3>1, <3>2, <3>3, OutcomeFields
    <3> QED
      BY <3>4 DEF LoggedOutEverywhere
  <2>4. CASE ParseAuthnRespone
    <3>1. outcome'.kind \in {"none", "EmptyAuthnResponse", "accepted", "SamlError"}
      BY <2>4 DEF ParseAuthnRespone, Outcome
    <3> QED
      BY <3>1 DEF LoggedOutEverywhere
  <2>5. CASE Logout
    <3>1. CASE ByUserAgent = {}
      BY <2>5, <3>1 DEF Logout, LoggedOutEverywhere
    <3>2. CASE ByUserAgent # {}
      <4>1. users # {} /\ FirstLogout
        BY <2>5, <3>2 DEF Logout, ByUserAgent
      <4>2. outcome'.kind \in {"logout sent", "TypeError"}
        BY <3>2, <4>1, OutcomeFields DEF FirstLogout
      <4> QED
        BY <4>2 DEF LoggedOutEverywhere
    <3> QED
      BY <3>1, <3>2
  <2>6. CASE ParseSamlLogout
    <3>1. PICK k \in {"logout handled", "none"} : outcome' = Outcome(k)
      BY <2>6 DEF ParseSamlLogout
    <3> QED
      BY <3>1, OutcomeFields DEF LoggedOutEverywhere
  <2> QED
    BY <1>2, <2>1, <2>2, <2>3, <2>4, <2>5, <2>6 DEF Next
<1> QED
  BY <1>1, <1>2, ServiceProviderIsSound, PTL DEF Spec

-----------------------------------------------------------------------------
(* The service that is selected *)

NatLess == {ss \in Nat \X Nat : ss[1] < ss[2]}

\* A set of numbers has a least one.
LEMMA LeastNumber ==
    ASSUME NEW S \in SUBSET Nat, S # {}
    PROVE  Min(S) \in S /\ \A j \in S : Min(S) <= j
<1>1. IsWellFoundedOn(NatLess, Nat)
  BY NatLessThanWellFounded DEF OpToRel, NatLess
<1>2. PICK i \in S : \A j \in S : ~(<<j, i>> \in NatLess)
  BY <1>1, WFMin
<1>3. ASSUME NEW j \in S PROVE i <= j
  <2>1. i \in Nat /\ j \in Nat
    OBVIOUS
  <2>2. j < i => <<j, i>> \in NatLess
    BY <2>1 DEF NatLess
  <2> QED
    BY <1>2, <2>1, <2>2
<1> QED
  BY <1>3 DEF Min

\* A bounded one has a greatest: the least bound.
LEMMA GreatestNumber ==
    ASSUME NEW n \in Nat, NEW S \in SUBSET (1..n), S # {}
    PROVE  Max(S) \in S /\ \A j \in S : Max(S) >= j
<1> DEFINE Bounds == {b \in Nat : \A j \in S : b >= j}
<1>1. PICK b \in Bounds : \A c \in Bounds : b <= c
  <2>1. n \in Bounds /\ Bounds \in SUBSET Nat
    OBVIOUS
  <2> HIDE DEF Bounds
  <2> QED
    BY <2>1, LeastNumber
<1>2. b \in S
  <2>1. SUFFICES ASSUME b \notin S PROVE FALSE
    OBVIOUS
  <2>2. b \in Nat /\ \A j \in S : b >= j /\ j \in Nat /\ j >= 1 /\ j # b
    BY <1>1, <2>1
  <2>6. ASSUME NEW j \in S PROVE b - 1 \in Nat /\ b - 1 >= j
    BY <2>2
  <2>3. b - 1 \in Nat /\ \A j \in S : b - 1 >= j
    BY <2>6
  <2>4. b - 1 \in Bounds
    BY <2>3
  <2>5. b <= b - 1
    BY <1>1, <2>4
  <2> QED
    BY <2>2, <2>5
<1> QED
  BY <1>1, <1>2 DEF Max

\* Which of these services have the netloc of the request, its scheme too, and
\* its path
Near(acs, uri, s)  == {i \in s : acs[i].netloc = uri.netloc}
Same(acs, uri, s)  == {i \in Near(acs, uri, s) : acs[i].scheme = uri.scheme}
Exact(acs, uri, s) == {i \in Same(acs, uri, s) : acs[i].path = uri.path}

\* A loop over these services ends with the first that is the request, or the
\* last that has its netloc and scheme, or the last that has its netloc.
Selected(acs, uri, s) ==
    IF Exact(acs, uri, s) # {}
    THEN [url |-> acs[Min(Exact(acs, uri, s))], netloc |-> TRUE, path |-> TRUE]
    ELSE IF Same(acs, uri, s) # {}
    THEN [url |-> acs[Max(Same(acs, uri, s))], netloc |-> TRUE, path |-> FALSE]
    ELSE [url |-> IF Near(acs, uri, s) # {} THEN acs[Max(Near(acs, uri, s))] ELSE acs[1],
          netloc |-> FALSE, path |-> FALSE]

\* The body of the loop of select_service_provider
Visited(uri, found, url) ==
    CASE ~found.path /\ url.netloc = uri.netloc /\ url.scheme = uri.scheme ->
           [url |-> url, netloc |-> TRUE, path |-> url.path = uri.path]
      [] ~found.path /\ ~(url.netloc = uri.netloc /\ url.scheme = uri.scheme)
         /\ ~found.netloc /\ url.netloc = uri.netloc ->
           [found EXCEPT !.url = url]
      [] OTHER -> found

\* What found.url is set to
LEMMA FoundUrl ==
    ASSUME NEW u, NEW v, NEW a, NEW b
    PROVE  [[url |-> u, netloc |-> a, path |-> b] EXCEPT !.url = v]
             = [url |-> v, netloc |-> a, path |-> b]
OBVIOUS

\* The loop goes on by its last service.
LEMMA SelectedByLast ==
    ASSUME NEW acs, NEW uri, NEW n \in Nat, NEW s \in SUBSET (1..n), s # {}
    PROVE  Selected(acs, uri, s) =
             Visited(uri, Selected(acs, uri, s \ {Max(s)}), acs[Max(s)])
<1> DEFINE x == Max(s)
           t == s \ {x}
<1>1. x \in s /\ \A j \in s : x >= j /\ j \in Nat
  BY GreatestNumber
<1> HIDE DEF x
<1>2. /\ \A i \in t : i < x
      /\ Near(acs, uri, t) \subseteq t /\ Near(acs, uri, s) \subseteq s
      /\ Same(acs, uri, t) \subseteq Near(acs, uri, t) /\ Same(acs, uri, s) \subseteq Near(acs, uri, s)
      /\ Exact(acs, uri, t) \subseteq Same(acs, uri, t) /\ Exact(acs, uri, s) \subseteq Same(acs, uri, s)
  BY <1>1 DEF Near, Same, Exact
<1>3. /\ Near(acs, uri, s) = Near(acs, uri, t) \cup (IF acs[x].netloc = uri.netloc THEN {x} ELSE {})
      /\ Same(acs, uri, s) = Same(acs, uri, t) \cup
            (IF acs[x].netloc = uri.netloc /\ acs[x].scheme = uri.scheme THEN {x} ELSE {})
      /\ Exact(acs, uri, s) = Exact(acs, uri, t) \cup
            (IF acs[x].netloc = uri.netloc /\ acs[x].scheme = uri.scheme /\ acs[x].path = uri.path
             THEN {x} ELSE {})
  BY <1>1 DEF Near, Same, Exact
<1>4. ASSUME NEW S \in SUBSET s, x \in S PROVE Max(S) = x
  <2>1. Max(S) \in S /\ \A j \in S : Max(S) >= j
    <3>1. S \in SUBSET (1..n) /\ S # {}
      BY <1>4
    <3> QED
      BY <3>1, GreatestNumber
  <2>2. Max(S) >= x /\ x >= Max(S) /\ x \in Nat /\ Max(S) \in Nat
    BY <1>1, <1>4, <2>1
  <2> QED
    BY <2>2
<1>5. CASE Exact(acs, uri, t) # {}
  <2>1. Min(Exact(acs, uri, s)) = Min(Exact(acs, uri, t))
    <3> DEFINE S == Exact(acs, uri, s)
               T == Exact(acs, uri, t)
    <3>1. /\ T \subseteq S /\ S \subseteq T \cup {x} /\ T \subseteq t /\ T # {}
          /\ S \in SUBSET Nat /\ T \in SUBSET Nat
      <4>1. T \subseteq t /\ S \subseteq s /\ s \subseteq Nat
        BY <1>1, <1>2
      <4> QED
        BY <1>3, <1>5, <4>1
    <3> HIDE DEF S, T
    <3>2. /\ Min(S) \in S /\ \A j \in S : Min(S) <= j
          /\ Min(T) \in T /\ \A j \in T : Min(T) <= j
      BY <3>1, LeastNumber
    <3>3. Min(S) <= Min(T) /\ Min(T) < x
      BY <1>2, <3>1, <3>2
    <3>4. Min(S) \in Nat /\ Min(T) \in Nat /\ x \in Nat
      BY <1>1, <3>1, <3>2
    <3>7. Min(S) # x
      BY <3>3, <3>4
    <3>8. Min(S) \in T
      BY <3>1, <3>2, <3>7
    <3>5. Min(T) <= Min(S)
      BY <3>2, <3>8
    <3>6. Min(S) = Min(T)
      BY <3>3, <3>4, <3>5
    <3> QED
      BY <3>6 DEF S, T
  <2>2. Exact(acs, uri, s) # {}
    BY <1>3, <1>5
  <2>3. Selected(acs, uri, s) = Selected(acs, uri, t) /\ Selected(acs, uri, t).path = TRUE
    BY <1>5, <2>1, <2>2 DEF Selected
  <2> QED
    BY <2>3 DEF Visited, x
<1>6. CASE Exact(acs, uri, t) = {} /\ Exact(acs, uri, s) # {}
  <2>1. /\ Exact(acs, uri, s) = {x}
        /\ acs[x].netloc = uri.netloc /\ acs[x].scheme = uri.scheme /\ acs[x].path = uri.path
    BY <1>3, <1>6
  <2>2. Min({x}) = x
    BY <1>1 DEF Min
  <2>3. Selected(acs, uri, s) = [url |-> acs[x], netloc |-> TRUE, path |-> TRUE]
    BY <2>1, <2>2 DEF Selected
  <2>4. Selected(acs, uri, t).path = FALSE
    BY <1>6 DEF Selected
  <2>5. Visited(uri, Selected(acs, uri, t), acs[x]) = [url |-> acs[x], netloc |-> TRUE, path |-> TRUE]
    BY <2>1, <2>4 DEF Visited
  <2> QED
    BY <2>3, <2>5 DEF x
<1>7. CASE Exact(acs, uri, s) = {} /\ x \in Same(acs, uri, s)
  <2>1. /\ Exact(acs, uri, t) = {}
        /\ acs[x].netloc = uri.netloc /\ acs[x].scheme = uri.scheme /\ acs[x].path # uri.path
    BY <1>3, <1>7 DEF Near, Same, Exact
  <2>2. Max(Same(acs, uri, s)) = x
    BY <1>2, <1>4, <1>7
  <2>3. Selected(acs, uri, s) = [url |-> acs[x], netloc |-> TRUE, path |-> FALSE]
    BY <1>7, <2>2 DEF Selected
  <2>4. Selected(acs, uri, t).path = FALSE
    BY <2>1 DEF Selected
  <2>5. Visited(uri, Selected(acs, uri, t), acs[x]) = [url |-> acs[x], netloc |-> TRUE, path |-> FALSE]
    BY <2>1, <2>4 DEF Visited
  <2> QED
    BY <2>3, <2>5 DEF x
<1>8. CASE Exact(acs, uri, s) = {} /\ x \notin Same(acs, uri, s)
  <2>1. /\ Exact(acs, uri, t) = {} /\ Same(acs, uri, s) = Same(acs, uri, t)
        /\ ~(acs[x].netloc = uri.netloc /\ acs[x].scheme = uri.scheme)
    BY <1>1, <1>3, <1>8 DEF Near, Same
  <2>2. CASE Same(acs, uri, s) # {}
    <3>1. /\ Selected(acs, uri, s) = Selected(acs, uri, t)
          /\ Selected(acs, uri, t).path = FALSE /\ Selected(acs, uri, t).netloc = TRUE
      BY <1>8, <2>1, <2>2 DEF Selected
    <3> QED
      BY <2>1, <3>1 DEF Visited, x
  <2>3. CASE Same(acs, uri, s) = {} /\ acs[x].netloc = uri.netloc
    <3>1. Max(Near(acs, uri, s)) = x /\ Near(acs, uri, s) # {}
      BY <1>2, <1>3, <1>4, <2>3
    <3>7. PICK no : no = FALSE
      OBVIOUS
    <3>2. Selected(acs, uri, s) = [url |-> acs[x], netloc |-> no, path |-> no]
      BY <1>8, <2>3, <3>1, <3>7 DEF Selected
    <3>3. PICK url : Selected(acs, uri, t) = [url |-> url, netloc |-> no, path |-> no]
      BY <2>1, <2>3, <3>7 DEF Selected
    <3>4. Visited(uri, Selected(acs, uri, t), acs[x]) = [Selected(acs, uri, t) EXCEPT !.url = acs[x]]
      BY <2>1, <2>3, <3>3, <3>7 DEF Visited
    <3>5. [Selected(acs, uri, t) EXCEPT !.url = acs[x]]
             = [url |-> acs[x], netloc |-> no, path |-> no]
      BY <3>3, FoundUrl
    <3>6. Selected(acs, uri, s) = Visited(uri, Selected(acs, uri, t), acs[x])
      BY <3>2, <3>4, <3>5
    <3> QED
      BY <3>6 DEF x
  <2>4. CASE Same(acs, uri, s) = {} /\ acs[x].netloc # uri.netloc
    <3>1. Near(acs, uri, s) = Near(acs, uri, t)
      BY <1>3, <2>4
    <3>2. Selected(acs, uri, s) = Selected(acs, uri, t)
      BY <1>8, <2>1, <2>4, <3>1 DEF Selected
    <3> QED
      BY <2>1, <2>4, <3>2 DEF Visited, x
  <2> QED
    BY <2>2, <2>3, <2>4
<1> QED
  BY <1>5, <1>6, <1>7, <1>8

\* The fold of select_service_provider is that loop.
LEMMA SelectsByLoop ==
    ASSUME NEW acs \in Seq(URIType), acs # <<>>, NEW uri
    PROVE  SelectServiceProvider(acs, uri) = Selected(acs, uri, DOMAIN acs).url
<1> DEFINE n == Len(acs)
           first == [url |-> acs[1], netloc |-> FALSE, path |-> FALSE]
           Is(f) == f = [s \in SUBSET DOMAIN acs |->
                           IF s = {} THEN first
                           ELSE LET x == Max(s) IN Visited(uri, f[s \ {x}], acs[x])]
           g == [s \in SUBSET DOMAIN acs |-> Selected(acs, uri, s)]
<1>1. n \in Nat /\ DOMAIN acs = 1..n
  OBVIOUS
<1>2. Selected(acs, uri, {}) = first
  BY DEF Selected, Near, Same, Exact
<1>3. Is(g)
  <2>1. ASSUME NEW s \in SUBSET DOMAIN acs, s # {}
        PROVE  g[s] = Visited(uri, g[s \ {Max(s)}], acs[Max(s)])
    BY <1>1, <2>1, SelectedByLast
  <2>2. g[{}] = first
    BY <1>2
  <2>3. \A s \in SUBSET DOMAIN acs :
           g[s] = IF s = {} THEN first
                  ELSE LET x == Max(s) IN Visited(uri, g[s \ {x}], acs[x])
    <3> HIDE DEF g, first
    <3> QED
      BY <2>1, <2>2
  <2>4. g = [s \in SUBSET DOMAIN acs |-> g[s]]
    OBVIOUS
  <2> HIDE DEF g, first
  <2> QED
    BY <2>3, <2>4
<1>4. SelectServiceProvider(acs, uri) = (CHOOSE f : Is(f))[DOMAIN acs].url
  BY DEF SelectServiceProvider, FoldLeft, MapThenFoldSet, Visited
<1>5. ASSUME NEW f, Is(f) PROVE f[DOMAIN acs] = Selected(acs, uri, DOMAIN acs)
  <2> DEFINE Wrong == {j \in 0..n : \E r \in SUBSET (1..j) : f[r] # Selected(acs, uri, r)}
  <2>1. SUFFICES ASSUME f[DOMAIN acs] # Selected(acs, uri, DOMAIN acs) PROVE FALSE
    OBVIOUS
  <2>2. PICK k \in Wrong : \A j \in Wrong : k <= j
    <3>1. n \in Wrong
      BY <1>1, <2>1
    <3>2. Wrong \in SUBSET Nat
      OBVIOUS
    <3> HIDE DEF Wrong
    <3> QED
      BY <3>1, <3>2, LeastNumber
  <2>3. PICK s \in SUBSET (1..k) : f[s] # Selected(acs, uri, s)
    BY <2>2
  <2>4. k \in Nat /\ s \in SUBSET DOMAIN acs
    BY <1>1, <2>2
  <2>5. s # {}
    <3>1. f[{}] = first
      BY <1>5
    <3> QED
      BY <1>2, <2>3, <3>1
  <2>6. Max(s) \in s /\ \A j \in s : Max(s) >= j
    BY <2>4, <2>5, GreatestNumber
  <2>7. f[s \ {Max(s)}] = Selected(acs, uri, s \ {Max(s)})
    <3>6. PICK x : x = Max(s)
      OBVIOUS
    <3>4. /\ x \in s /\ x \in Nat /\ k \in 0..n
          /\ \A j \in s : x >= j /\ j \in Nat /\ 1 <= j /\ j <= k
      <4>1. k \in 0..n /\ \A j \in s : j \in 1..k
        BY <2>2, <2>3
      <4>2. x \in s /\ \A j \in s : x >= j
        BY <2>6, <3>6
      <4> HIDE DEF n, Wrong
      <4> QED
        BY <1>1, <4>1, <4>2
    <3> HIDE DEF n, Wrong
    <3>1. k - 1 \in 0..n /\ k - 1 < k
      BY <1>1, <3>4
    <3>5. ASSUME NEW j \in s \ {x} PROVE j \in 1..(k - 1)
      <4>1. j \in Nat /\ k \in Nat /\ x >= j /\ x <= k /\ j # x /\ 1 <= j
        BY <1>1, <3>4
      <4> QED
        BY <3>4, <4>1
    <3>2. s \ {Max(s)} \in SUBSET (1..(k - 1))
      BY <3>5, <3>6
    <3>3. k - 1 \notin Wrong
      <4>1. k \in Nat /\ ~(k <= k - 1)
        BY <2>4
      <4> QED
        BY <2>2, <4>1
    <3>7. \A r \in SUBSET (1..(k - 1)) : f[r] = Selected(acs, uri, r)
      <4>1. SUFFICES ASSUME NEW r \in SUBSET (1..(k - 1)), f[r] # Selected(acs, uri, r)
                     PROVE  k - 1 \in Wrong
        BY <3>3
      <4> QED
        BY <3>1, <4>1, Zenon DEF Wrong
    <3> QED
      BY <3>2, <3>7
  <2>8. f[s] = Visited(uri, f[s \ {Max(s)}], acs[Max(s)])
    BY <1>5, <2>4, <2>5
  <2>9. f[s] = Selected(acs, uri, s)
    BY <2>4, <2>5, <2>7, <2>8, SelectedByLast
  <2> QED
    BY <2>3, <2>9
<1> HIDE DEF Is, g
<1>6. Is(CHOOSE f : Is(f))
  BY <1>3
<1> QED
  BY <1>4, <1>5, <1>6

\* No service suits a request better than the one that is selected.
LEMMA SelectsBest ==
    ASSUME NEW acs \in Seq(URIType), acs # <<>>, URIs \subseteq URIType
    PROVE  BestSelected(acs)
<1>1. SUFFICES ASSUME NEW uri \in URIs, NEW i \in DOMAIN acs
               PROVE  Fit(acs[i], uri) <= Fit(SelectServiceProvider(acs, uri), uri)
  BY DEF BestSelected
<1> DEFINE D == DOMAIN acs
           N == Near(acs, uri, D)
           S == Same(acs, uri, D)
           E == Exact(acs, uri, D)
           url == Selected(acs, uri, D).url
<1>2. SelectServiceProvider(acs, uri) = url
  BY SelectsByLoop
<1>3. D = 1..Len(acs) /\ Len(acs) \in Nat /\ uri \in URIType /\ \A j \in D : acs[j] \in URIType
  BY <1>1
<1>4. \A j \in D : /\ j \in E <=> acs[j] = uri
                   /\ j \in S <=> acs[j].netloc = uri.netloc /\ acs[j].scheme = uri.scheme
                   /\ j \in N <=> acs[j].netloc = uri.netloc
  BY <1>3 DEF Near, Same, Exact, URIType
<1>5. E \subseteq S /\ S \subseteq N /\ N \subseteq D
  BY DEF Near, Same, Exact
<1>6. /\ E # {} => url = acs[Min(E)]
      /\ E = {} /\ S # {} => url = acs[Max(S)]
      /\ E = {} /\ S = {} /\ N # {} => url = acs[Max(N)]
  BY DEF Selected
<1> HIDE DEF D, N, S, E, url
<1>7. /\ E # {} => Min(E) \in E
      /\ S # {} => Max(S) \in S
      /\ N # {} => Max(N) \in N
  <2>1. E \in SUBSET Nat /\ S \in SUBSET (1..Len(acs)) /\ N \in SUBSET (1..Len(acs))
    BY <1>3, <1>5
  <2> QED
    BY <1>3, <2>1, LeastNumber, GreatestNumber
<1>8. i \in D
  BY <1>1 DEF D
<1>9. Fit(acs[i], uri) \in 0..3
  BY DEF Fit
<1>10. CASE E # {}
  <2>1. url = uri
    BY <1>4, <1>5, <1>6, <1>7, <1>10
  <2>2. Fit(url, uri) = 3
    BY <2>1 DEF Fit
  <2> QED
    BY <1>2, <1>9, <2>2
<1>11. CASE E = {} /\ S # {}
  <2>1. url # uri /\ url.netloc = uri.netloc /\ url.scheme = uri.scheme
    BY <1>4, <1>5, <1>6, <1>7, <1>11
  <2>2. Fit(url, uri) = 2
    BY <2>1 DEF Fit
  <2>3. Fit(acs[i], uri) # 3
    BY <1>4, <1>8, <1>11 DEF Fit
  <2> QED
    BY <1>2, <1>9, <2>2, <2>3
<1>12. CASE E = {} /\ S = {}
  <2>1. acs[i] # uri /\ ~(acs[i].netloc = uri.netloc /\ acs[i].scheme = uri.scheme)
    BY <1>4, <1>8, <1>12
  <2>2. CASE N # {}
    <3>1. url.netloc = uri.netloc
      BY <1>4, <1>5, <1>6, <1>7, <1>12, <2>2
    <3>2. url # uri /\ url.scheme # uri.scheme
      BY <1>4, <1>5, <1>6, <1>7, <1>12, <2>2
    <3>3. Fit(url, uri) = 1
      BY <3>1, <3>2 DEF Fit
    <3>4. Fit(acs[i], uri) \in {0, 1}
      BY <2>1 DEF Fit
    <3> QED
      BY <1>2, <3>3, <3>4
  <2>3. CASE N = {}
    <3>1. acs[i].netloc # uri.netloc
      BY <1>4, <1>8, <2>3
    <3>2. Fit(acs[i], uri) = 0
      BY <2>1, <3>1 DEF Fit
    <3>3. Fit(url, uri) \in 0..3
      BY DEF Fit
    <3> QED
      BY <1>2, <3>2, <3>3
  <2> QED
    BY <2>2, <2>3
<1> QED
  BY <1>10, <1>11, <1>12

\* Whatever services a configuration has, in whatever order, the best is
\* selected whenever a Saml2Client is made of it.
THEOREM BestIsSelected == Spec => BestServiceSelected
<1>1. ServiceProviderInvariant' => [sp' # sp => BestSelected(sp'.acs)]_sp
  <2>1. SUFFICES ASSUME ServiceProviderInvariant' PROVE BestSelected(sp'.acs)
    OBVIOUS
  <2>2. sp' \in Configs
    BY <2>1 DEF ServiceProviderInvariant, TypeOK
  <2>3. sp'.acs \in Seq(URIType) /\ sp'.acs # <<>> /\ URIs \subseteq URIType
    BY <2>2, ServiceProviderAssumption DEF ServiceProviderAssumption
  <2> QED
    BY <2>3, SelectsBest
<1> QED
  BY <1>1, ServiceProviderIsSound, PTL DEF BestServiceSelected
=============================================================================
