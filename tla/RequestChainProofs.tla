------------------------- MODULE RequestChainProofs -------------------------
(***************************************************************************)
(* That ChainInvariant is inductive, for any number of clients, requests,  *)
(* methods and states of the resource.                                     *)
(***************************************************************************)
EXTENDS RequestChain, TLAPS

(* What a step of one handler leaves as it is: the resource and the clients' *)
(* requests and tasks.                                                       *)
StillThere == UNCHANGED <<version, phase, request, tasks, executed>>

FaultsBounded == faults' \in 0..MaxFaults

(* An outcome more leaves histories of outcomes. *)
LEMMA AppendOutcome ==
    ASSUME NEW f \in [Clients -> Seq(Outcomes)], NEW c \in Clients, NEW o \in Outcomes
    PROVE  [f EXCEPT ![c] = Append(@, o)] \in [Clients -> Seq(Outcomes)]
OBVIOUS

(* The handlers of greater priority have been called before this one. *)
LEMMA CalledInOrder ==
    ASSUME NEW h \in Handlers, NEW g \in Handlers, Called(h),
           Priority[g] > Priority[h], Priority \in [Handlers -> Nat]
    PROVE  g \notin pending
BY DEF Called

(* Priorities are numbers. *)
LEMMA PriorityType == Priority \in [Handlers -> Nat]
BY DEF Priority, Handlers

(* Whose event it is whose handlers are called. *)
LEMMA SomebodyRuns ==
    ASSUME TypeOK, Idle, NEW h, h \in pending
    PROVE  running \in Clients /\ running # Nobody /\ running \notin stopped /\ h \in Handlers
BY DEF TypeOK, Idle

(* A handler that returns and has left what it should; only the method and   *)
(* the headers of its client may have changed.                               *)
LEMMA ReturnKeeps ==
    ASSUME ChainInvariant, NEW h \in pending, Returns(h), StillThere, TypeOK',
           \A c \in Clients : c # running => headers'[c] = headers[c] /\ method'[c] = method[c],
           Unset',
           running \in tasks \/ executed[running] # None => method' = method,
           running \notin stopped /\ executed[running] = None =>
               /\ Passed(h)'
               /\ \A g \in Handlers \ pending : Passed(g) => Passed(g)'
    PROVE  ChainInvariant'
<1>1. running \in Clients /\ running # Nobody /\ running \notin stopped /\ h \in Handlers
  BY SomebodyRuns DEF ChainInvariant
<1>2. NewIsClean'
  BY <1>1 DEF ChainInvariant, NewIsClean, StillThere, Returns
<1>3. Idle'
  BY <1>1 DEF Idle, Returns
<1>4. ExecutedLast'
  BY <1>1 DEF ChainInvariant, ExecutedLast, StillThere, Returns
<1>5. PassedSoFar'
  <2> SUFFICES ASSUME (running \notin stopped)', (executed[running] = None)',
                      NEW g \in Handlers, g \notin pending'
               PROVE  Passed(g)'
    BY DEF PassedSoFar
  <2>1. running \notin stopped /\ executed[running] = None
    BY DEF Returns, StillThere
  <2>2. CASE g = h
    BY <2>1, <2>2
  <2>3. CASE g # h
    <3>1. g \in Handlers \ pending
      BY <2>3 DEF Returns
    <3>2. Passed(g)
      BY <3>1, <2>1, <1>1 DEF ChainInvariant, PassedSoFar
    <3> QED  BY <3>1, <3>2, <2>1
  <2> QED  BY <2>2, <2>3
<1>6. method' \in [Clients -> Methods \cup {"none"}] /\ method \in [Clients -> Methods \cup {"none"}]
  BY DEF ChainInvariant, TypeOK
<1>7. TasksChecked'
  <2> SUFFICES ASSUME NEW c \in tasks', method'[c] \in Coroutines
               PROVE  executed'[c] = None /\ \E v \in 1..version' : Checked(request'[c], v)
      BY DEF TasksChecked, Checked, Decodable, Preconditions, NotKnown, Unmodified, RangeHolds,
       Matches, NoneMatches
  <2>1. c \in tasks /\ c \in Clients
    BY DEF StillThere, ChainInvariant, TypeOK
  <2>2. method'[c] = method[c]
    BY <2>1
  <2> QED  BY <2>1, <2>2 DEF ChainInvariant, TasksChecked, StillThere
<1>8. ExecutedAsChecked'
  <2> SUFFICES ASSUME NEW c \in Clients, executed'[c] # None
               PROVE  \E v \in 1..executed'[c] :
                         /\ Acceptable(request'[c], v)
                         /\ method'[c] \notin Coroutines => v = executed'[c]
    BY DEF ExecutedAsChecked, Acceptable, Checked, Decodable, Preconditions, NotKnown,
           Unmodified, RangeHolds, Matches, NoneMatches
  <2>1. method'[c] = method[c] /\ executed'[c] = executed[c] /\ request' = request
    BY DEF StillThere
  <2> QED  BY <2>1 DEF ChainInvariant, ExecutedAsChecked
<1> QED  BY <1>2, <1>3, <1>4, <1>5, <1>7, <1>8 DEF ChainInvariant

(* A handler that stops the event. *)
LEMMA RaiseKeeps ==
    ASSUME ChainInvariant, NEW o \in Outcomes, pending # {}, Raises(o), StillThere,
           UNCHANGED <<method, headers>>, FaultsBounded
    PROVE  ChainInvariant'
<1>1. running \in Clients /\ running # Nobody
  BY SomebodyRuns DEF ChainInvariant
<1>2. TypeOK'
  BY <1>1 DEF ChainInvariant, TypeOK, StillThere, Raises, FaultsBounded
<1>3. NewIsClean' /\ Idle' /\ ExecutedLast' /\ Unset' /\ PassedSoFar'
  BY <1>1 DEF ChainInvariant, NewIsClean, Idle, ExecutedLast, Unset, PassedSoFar, StillThere, Raises
<1>4. TasksChecked'
  BY DEF ChainInvariant, TasksChecked, StillThere, Checked, Decodable, Preconditions, NotKnown,
         Unmodified, RangeHolds, Matches, NoneMatches
<1>5. ExecutedAsChecked'
  BY DEF ChainInvariant, ExecutedAsChecked, StillThere, Acceptable, Checked, Decodable,
         Preconditions, NotKnown, Unmodified, RangeHolds, Matches, NoneMatches
<1> QED  BY <1>2, <1>3, <1>4, <1>5 DEF ChainInvariant

(* The handlers that only look. *)
LEMMA PassedStays ==
    ASSUME UNCHANGED <<running, request, method, headers, version>>, NEW g
    PROVE  Passed(g)' = Passed(g)
BY DEF Passed, Request, Headers, NotKnown, Unmodified, RangeHolds, Matches, NoneMatches,
       Decodable, Safe

(* Such a handler returns, having found its condition to hold. *)
LEMMA LookKeeps ==
    ASSUME ChainInvariant, NEW h \in Handlers, Looks(h), Returns(h),
           running \notin stopped /\ executed[running] = None => Passed(h)
    PROVE  ChainInvariant'
<1>1. h \in pending /\ StillThere /\ UNCHANGED <<method, headers, faults>>
  BY DEF Looks, Called, StillThere, clientVars
<1>2. TypeOK' /\ Unset'
  BY <1>1 DEF ChainInvariant, TypeOK, Unset, Headers, StillThere, Returns
<1>3. ASSUME NEW g PROVE Passed(g)' = Passed(g)
  BY <1>1, PassedStays DEF StillThere, Returns
<1> QED
  BY <1>1, <1>2, <1>3, ReturnKeeps

(* Such a handler raises a status. *)
LEMMA LookRaises ==
    ASSUME ChainInvariant, NEW h \in Handlers, Looks(h), NEW o \in Outcomes, Raises(o)
    PROVE  ChainInvariant'
<1>1. pending # {} /\ StillThere /\ UNCHANGED <<method, headers>>
  BY DEF Looks, Called, StillThere, clientVars
<1>2. FaultsBounded
  BY DEF Looks, FaultsBounded, ChainInvariant, TypeOK
<1> QED  BY <1>1, <1>2, RaiseKeeps

(* As long as a check is to come, the handlers before it have passed. *)
LEMMA CheckedSoFar ==
    ASSUME ChainInvariant, NEW h \in Handlers, Called(h),
           h \notin Behind, h # "execute_method",
           NEW g \in Handlers, Priority[g] > Priority[h]
    PROVE  /\ running \in Clients /\ executed[running] = None /\ running \notin tasks
           /\ Passed(g)
<1>1. h \in pending /\ running \in Clients /\ running # Nobody /\ running \notin stopped
  BY SomebodyRuns DEF Called, ChainInvariant
<1>2. executed[running] = None /\ running \notin tasks
  BY <1>1 DEF ChainInvariant, ExecutedLast
<1>3. g \notin pending
  BY CalledInOrder, PriorityType
<1> QED  BY <1>1, <1>2, <1>3 DEF ChainInvariant, PassedSoFar

(* The preconditions are checked on the validators of the state that is. *)
LEMMA Validated ==
    ASSUME ChainInvariant, NEW h \in {"conditional_get", "unmodified_since", "none_match",
                                      "match", "if_range"}, Called(h)
    PROVE  /\ running \in Clients /\ version \in Versions /\ Request \in RequestType
           /\ Headers.etag = IF "etag" \in Request.has THEN version ELSE None
           /\ Headers.last_modified = IF "last_modified" \in Request.has THEN version ELSE None
<1>1. /\ h \in Handlers /\ h \notin Behind /\ h # "execute_method"
      /\ "etag" \in Handlers /\ "last_modified" \in Handlers
      /\ Priority["etag"] > Priority[h] /\ Priority["last_modified"] > Priority[h]
  BY DEF Handlers, Priority, Behind
<1>2. Passed("etag") /\ Passed("last_modified") /\ running \in Clients
  BY <1>1, CheckedSoFar
<1> QED  BY <1>2 DEF Passed, ChainInvariant, TypeOK, Request

(* A refusal; what is left to be shown is the reason. *)
Refuses == \E o \in Outcomes :
    Raises(o) /\ (Due(o, Request, version) \/ Departs(o, Request, version))

(* What a check does: it lets the request pass or refuses it for a reason. *)
Decides(h) == Looks(h) /\ ((Returns(h) /\ Passed(h)) \/ Refuses)

(* One lemma for each check: it lets pass what it should, and refuses nothing else. *)
LEMMA ConditionalGetStep ==
    ASSUME ChainInvariant, ConditionalGet
    PROVE  Decides("conditional_get")
<1>1. Called("conditional_get")
  BY DEF ConditionalGet, Looks
<1>2. /\ version \in Versions /\ Request \in RequestType
      /\ Headers.etag = IF "etag" \in Request.has THEN version ELSE None
      /\ Headers.last_modified = IF "last_modified" \in Request.has THEN version ELSE None
  BY <1>1, Validated
<1> QED
  BY <1>2, ChainAssumption DEF Decides, Looks, Refuses, Outcomes, Due, Departs, DateBesideTag, NoDate,
     OtherPart, IsUnchanged,
     NotKnown, Passed, Safe, None, Invalid, Versions, RequestType, ConditionalGet

(* ... LastModified.unmodified_since *)
LEMMA UnmodifiedSinceStep ==
    ASSUME ChainInvariant, UnmodifiedSince
    PROVE  Decides("unmodified_since")
<1>1. Called("unmodified_since")
  BY DEF UnmodifiedSince, Looks
<1>2. /\ version \in Versions /\ Request \in RequestType
      /\ Headers.etag = IF "etag" \in Request.has THEN version ELSE None
      /\ Headers.last_modified = IF "last_modified" \in Request.has THEN version ELSE None
  BY <1>1, Validated
<1> QED
  BY <1>2, ChainAssumption DEF Decides, Looks, Refuses, Outcomes, Due, Departs, DateBesideTag, NoDate,
     OtherPart, IsChanged,
     Unmodified, Passed, Safe, None, Invalid, Versions, RequestType,
     UnmodifiedSince

(* ... ETag._none_match *)
LEMMA NoneMatchStep ==
    ASSUME ChainInvariant, NoneMatch
    PROVE  Decides("none_match")
<1>1. Called("none_match")
  BY DEF NoneMatch, Looks
<1>2. /\ version \in Versions /\ Request \in RequestType
      /\ Headers.etag = IF "etag" \in Request.has THEN version ELSE None
      /\ Headers.last_modified = IF "last_modified" \in Request.has THEN version ELSE None
  BY <1>1, Validated
<1> QED
  BY <1>2, ChainAssumption DEF Decides, Looks, Refuses, Outcomes, Due, Departs, FailsNoneMatch,
     NoneMatches, Passed, Safe, None, Invalid, Versions, RequestType, NoneMatch

(* ... ETag._match *)
LEMMA MatchStep ==
    ASSUME ChainInvariant, Match
    PROVE  Decides("match")
<1>1. Called("match")
  BY DEF Match, Looks
<1>2. /\ version \in Versions /\ Request \in RequestType
      /\ Headers.etag = IF "etag" \in Request.has THEN version ELSE None
      /\ Headers.last_modified = IF "last_modified" \in Request.has THEN version ELSE None
  BY <1>1, Validated
<1> QED
  BY <1>2, ChainAssumption DEF Decides, Looks, Refuses, Outcomes, Due, Departs, FailsMatch,
     Matches, Passed, Safe, None, Invalid, Versions, RequestType, Match

(* ... IfRange.if_range *)
LEMMA IfRangeStep ==
    ASSUME ChainInvariant, IfRange
    PROVE  Decides("if_range")
<1>1. Called("if_range")
  BY DEF IfRange, Looks
<1>2. /\ version \in Versions /\ Request \in RequestType
      /\ Headers.etag = IF "etag" \in Request.has THEN version ELSE None
      /\ Headers.last_modified = IF "last_modified" \in Request.has THEN version ELSE None
  BY <1>1, Validated
<1> QED
  BY <1>2, ChainAssumption DEF Decides, Looks, Refuses, Outcomes, Due, Departs, OtherPart,
     RangeHolds, Passed, Safe, None, Invalid, Versions, RequestType, IfRange

(* ... Resource._check_method_exists, on the method pre_request has looked up *)
LEMMA CheckMethodExistsStep ==
    ASSUME ChainInvariant, CheckMethodExists
    PROVE  Decides("check_method_exists")
<1>1. Called("check_method_exists")
  BY DEF CheckMethodExists, Looks
<1>2. /\ {"check_method_exists", "pre_request"} \subseteq Handlers /\ "check_method_exists" \notin Behind
      /\ Priority["pre_request"] > Priority["check_method_exists"]
  BY DEF Handlers, Priority, Behind
<1>3. Passed("pre_request")
  BY <1>1, <1>2, CheckedSoFar
<1> QED
  BY <1>3, ChainAssumption DEF CheckMethodExists, Decides, Looks, Refuses, Outcomes, Due, Departs,
     Passed

(* ... ContentType._not_acceptable, on the header set_content_type has set *)
LEMMA NotAcceptableStep ==
    ASSUME ChainInvariant, NotAcceptable
    PROVE  Decides("not_acceptable")
<1>1. Called("not_acceptable")
  BY DEF NotAcceptable, Looks
<1>2. /\ {"not_acceptable", "set_content_type"} \subseteq Handlers /\ "not_acceptable" \notin Behind
      /\ Priority["set_content_type"] > Priority["not_acceptable"]
  BY DEF Handlers, Priority, Behind
<1>3. Passed("set_content_type")
  BY <1>1, <1>2, CheckedSoFar
<1> QED
  BY <1>3, ChainAssumption DEF NotAcceptable, Decides, Looks, Refuses, Outcomes, Due, Departs,
     Passed

(* ... ContentLanguage.set_content_language *)
LEMMA SetContentLanguageStep ==
    ASSUME ChainInvariant, SetContentLanguage
    PROVE  Decides("set_content_language")
<1>1. Request \in RequestType
  BY SomebodyRuns DEF SetContentLanguage, Looks, Called, ChainInvariant, TypeOK, Request
<1> QED
    BY <1>1 DEF SetContentLanguage, Decides, Looks, Refuses, Outcomes, Due, Departs,
     Decodable, Passed,
              RequestType, Safe

(* ... RequestContentType.decode_input_representation *)
LEMMA DecodeInputStep ==
    ASSUME ChainInvariant, DecodeInput
    PROVE  Decides("decode_input")
<1>1. Request \in RequestType
  BY SomebodyRuns DEF DecodeInput, Looks, Called, ChainInvariant, TypeOK, Request
<1> QED
    BY <1>1 DEF DecodeInput, Decides, Looks, Refuses, Outcomes, Due, Departs, Decodable,
     Passed,
              RequestType, Safe

(* All checks together. *)
LEMMA ChecksKeep ==
    ASSUME ChainInvariant, Checks
    PROVE  ChainInvariant'
<1>1. \E h \in Handlers : Decides(h)
  <2> {"conditional_get", "unmodified_since", "none_match", "match", "if_range",
       "check_method_exists", "set_content_language", "decode_input", "not_acceptable"}
      \subseteq Handlers
    BY DEF Handlers, Priority
  <2> QED
    BY ConditionalGetStep, UnmodifiedSinceStep, NoneMatchStep, MatchStep, IfRangeStep,
       CheckMethodExistsStep, SetContentLanguageStep, DecodeInputStep, NotAcceptableStep
       DEF Checks
<1>2. PICK h \in Handlers : Decides(h)
  BY <1>1
<1>3. CASE Returns(h) /\ Passed(h)
  BY <1>2, <1>3, LookKeeps DEF Decides
<1>4. CASE Refuses
  BY <1>2, <1>4, LookRaises DEF Decides, Refuses
<1> QED  BY <1>2, <1>3, <1>4 DEF Decides

(* The handlers that only set a header nobody looks at.                      *)
LEMMA SetHeaderKeeps ==
    ASSUME ChainInvariant, SetHeader
    PROVE  ChainInvariant'
<1>1. PICK h \in {"security", "set_content_encoding", "caching"} : Looks(h) /\ Returns(h)
  BY DEF SetHeader
<1>2. h \in Handlers /\ Passed(h)
  BY DEF Handlers, Priority, Passed
<1> QED  BY <1>1, <1>2, LookKeeps

(* The handlers that write what others look at. *)
LEMMA PreRequestKeeps ==
    ASSUME ChainInvariant, PreRequest
    PROVE  ChainInvariant'
<1>1. /\ "pre_request" \in pending /\ running \in Clients /\ running # Nobody
      /\ executed[running] = None /\ running \notin tasks
  BY SomebodyRuns DEF PreRequest, Called, ChainInvariant, ExecutedLast, Behind
<1>2. StillThere /\ Returns("pre_request") /\ UNCHANGED <<headers, faults>>
  BY DEF PreRequest, StillThere
<1>3. TypeOK' /\ Unset'
  BY <1>1, <1>2 DEF PreRequest, ChainInvariant, TypeOK, Unset, Headers, StillThere, Returns
<1>4. method'[running] = IF Request.method \in Methods THEN Request.method ELSE "none"
  BY <1>1 DEF PreRequest, ChainInvariant, TypeOK
<1>5. Passed("pre_request")'
  BY <1>2, <1>4 DEF Passed, Request, Returns, StillThere
<1>6. ASSUME NEW g \in Handlers \ pending, Passed(g) PROVE Passed(g)'
  <2>1. g # "pre_request"
    BY <1>1
  <2> QED
    BY <1>2, <1>6, <2>1 DEF Passed, Request, Headers, NotKnown, Unmodified, RangeHolds, Matches,
       NoneMatches, Decodable, Safe, Returns, StillThere
<1>7. \A c \in Clients : c # running => headers'[c] = headers[c] /\ method'[c] = method[c]
  BY <1>2 DEF PreRequest, ChainInvariant, TypeOK
<1> QED  BY <1>1, <1>2, <1>3, <1>5, <1>6, <1>7, ReturnKeeps

(* The handlers of ETag and LastModified that set the validators. *)
LEMMA ValidatorKeeps ==
    ASSUME ChainInvariant, Validator
    PROVE  ChainInvariant'
<1>1. PICK h \in {"etag", "last_modified"} :
         /\ Called(h) /\ Returns(h)
         /\ headers' = IF h \in Request.has
                       THEN [headers EXCEPT ![running][h] = version] ELSE headers
         /\ UNCHANGED <<version, phase, request, method, tasks, executed, faults>>
  BY DEF Validator
<1>2. h \in pending /\ running \in Clients /\ running # Nobody /\ StillThere
  BY <1>1, SomebodyRuns DEF Called, ChainInvariant, StillThere
<1>3. /\ headers \in [Clients -> [etag: Versions \cup {None},
                                  last_modified: Versions \cup {None},
                                  content_type: BOOLEAN]]
      /\ version \in Versions /\ h \in {"etag", "last_modified"}
  BY <1>1 DEF ChainInvariant, TypeOK
<1>4. headers' \in [Clients -> [etag: Versions \cup {None},
                                last_modified: Versions \cup {None},
                                content_type: BOOLEAN]]
  <2>1. CASE h = "etag"
    BY <1>1, <1>2, <1>3, <2>1
  <2>2. CASE h = "last_modified"
    BY <1>1, <1>2, <1>3, <2>2
  <2> QED  BY <1>3, <2>1, <2>2
<1>5. TypeOK'
  BY <1>1, <1>2, <1>4 DEF ChainInvariant, TypeOK, StillThere, Returns
<1>6. /\ \A c \in Clients : c # running => headers'[c] = headers[c]
      /\ \A f \in {"etag", "last_modified", "content_type"} : f # h => Headers'[f] = Headers[f]
      /\ Headers'[h] = IF h \in Request.has THEN version ELSE Headers[h]
  <2>1. CASE h = "etag"
    BY <1>1, <1>2, <1>3, <2>1 DEF Headers, Returns
  <2>2. CASE h = "last_modified"
    BY <1>1, <1>2, <1>3, <2>2 DEF Headers, Returns
  <2> QED  BY <1>3, <2>1, <2>2
<1>7. Headers[h] = None
  <2>1. CASE h = "etag"
    BY <1>2, <2>1 DEF ChainInvariant, Unset
  <2>2. CASE h = "last_modified"
    BY <1>2, <2>2 DEF ChainInvariant, Unset
  <2> QED  BY <1>3, <2>1, <2>2
<1>8. Unset'
  <2>1. CASE h = "etag"
    BY <1>1, <1>2, <1>6, <2>1 DEF ChainInvariant, Unset, Returns
  <2>2. CASE h = "last_modified"
    BY <1>1, <1>2, <1>6, <2>2 DEF ChainInvariant, Unset, Returns
  <2> QED  BY <1>3, <2>1, <2>2
<1>9. Request' = Request
  BY <1>1 DEF Request, Returns
<1>10. Passed(h)'
  BY <1>1, <1>3, <1>6, <1>7, <1>9 DEF Passed
<1>11. ASSUME NEW g \in Handlers \ pending, Passed(g) PROVE Passed(g)'
  <2>1. g # h
    BY <1>2
  <2>2. /\ g = "etag" => Headers'.etag = Headers.etag
        /\ g = "last_modified" => Headers'.last_modified = Headers.last_modified
        /\ Headers'.content_type = Headers.content_type
    BY <1>3, <1>6, <2>1
  <2> QED
    BY <1>1, <1>9, <1>11, <2>2 DEF Passed, NotKnown, Unmodified, RangeHolds, Matches,
       NoneMatches, Decodable, Safe, Returns
<1> QED  BY <1>1, <1>2, <1>5, <1>6, <1>8, <1>10, <1>11, ReturnKeeps

(* ContentType.set_content_type *)
LEMMA SetContentTypeKeeps ==
    ASSUME ChainInvariant, SetContentType
    PROVE  ChainInvariant'
<1>1. /\ "set_content_type" \in pending /\ running \in Clients /\ running # Nobody
      /\ StillThere /\ Returns("set_content_type") /\ UNCHANGED <<method, faults>>
  BY SomebodyRuns DEF SetContentType, Called, ChainInvariant, StillThere
<1>2. Request \in RequestType /\ Request' = Request
  BY <1>1 DEF ChainInvariant, TypeOK, Request, StillThere, Returns
<1>3. headers' = [headers EXCEPT ![running].content_type = Request.accept]
  BY DEF SetContentType
<1>4. headers \in [Clients -> [etag: Versions \cup {None}, last_modified: Versions \cup {None},
                              content_type: BOOLEAN]]
  BY DEF ChainInvariant, TypeOK
<1>5. Request.accept \in BOOLEAN
  BY <1>2 DEF RequestType
<1>6. headers' \in [Clients -> [etag: Versions \cup {None}, last_modified: Versions \cup {None},
                               content_type: BOOLEAN]]
  BY <1>1, <1>3, <1>4, <1>5
<1>7. /\ TypeOK'
      /\ \A c \in Clients : c # running => headers'[c] = headers[c]
      /\ Headers'.etag = Headers.etag /\ Headers'.last_modified = Headers.last_modified
      /\ Headers'.content_type = Request.accept
  BY <1>1, <1>3, <1>4, <1>6 DEF ChainInvariant, TypeOK, StillThere, Returns, Headers
<1>8. Unset'
  BY <1>1, <1>7 DEF ChainInvariant, Unset, Returns
<1>9. Passed("set_content_type")'
  BY <1>2, <1>7 DEF Passed
<1>10. ASSUME NEW g \in Handlers \ pending, Passed(g) PROVE Passed(g)'
  BY <1>1, <1>2, <1>7, <1>10 DEF Passed, NotKnown, Unmodified, RangeHolds, Matches,
     NoneMatches, Decodable, Safe, Returns, StillThere
<1> QED  BY <1>1, <1>7, <1>8, <1>9, <1>10, ReturnKeeps

(* When it is the method's turn, every check has passed. *)
LEMMA AllChecked ==
    ASSUME ChainInvariant, NEW h \in {"execute_method", "execute_method_async"}, Called(h)
    PROVE  /\ running \in Clients /\ running # Nobody /\ h \in Handlers
           /\ pending \subseteq Behind \cup {"execute_method"}
           /\ executed[running] = None => Checked(Request, version)
<1>1. running \in Clients /\ running # Nobody /\ running \notin stopped /\ h \in Handlers
  BY SomebodyRuns DEF Called, ChainInvariant
<1>2. \A g \in Handlers : g \in Behind \cup {"execute_method"} \/ Priority[g] > Priority[h]
  BY DEF Handlers, Priority, Behind
<1>3. \A g \in Handlers : Priority[g] > Priority[h] => g \notin pending
  BY <1>1, CalledInOrder, PriorityType
<1>4. pending \subseteq Behind \cup {"execute_method"}
  BY <1>2, <1>3 DEF ChainInvariant, TypeOK
<1>5. ASSUME executed[running] = None PROVE Checked(Request, version)
  <2>1. \A g \in Handlers \ pending : Passed(g)
    BY <1>1, <1>5 DEF ChainInvariant, PassedSoFar
  <2>2. \A g \in {"conditional_get", "unmodified_since", "none_match", "match", "if_range",
                  "check_method_exists", "set_content_language", "decode_input",
                  "not_acceptable"} : g \in Handlers /\ Priority[g] > Priority[h]
    BY DEF Handlers, Priority
  <2>3. \A g \in {"conditional_get", "unmodified_since", "none_match", "match", "if_range",
                  "check_method_exists", "set_content_language", "decode_input",
                  "not_acceptable"} : Passed(g)
    BY <1>3, <2>1, <2>2
  <2> QED  BY <2>3 DEF Passed, Checked, Preconditions
<1> QED  BY <1>1, <1>4, <1>5

(* The method, executed on the state that has been checked.                  *)
LEMMA ExecuteKeeps ==
    ASSUME ChainInvariant, Called("execute_method"),
           method[running] \notin Coroutines, Request.permitted, Execute(running),
           UNCHANGED <<phase, clientVars, tasks>>, running' = running, FaultsBounded,
           pending' \subseteq pending \ {"execute_method"}, stopped' \subseteq Clients,
           outcome' \in [Clients -> Seq(Outcomes)],
           stopped' = stopped \/ (stopped' = stopped \cup {running} /\ pending' = {})
    PROVE  ChainInvariant'
<1>1. /\ running \in Clients /\ running # Nobody /\ running \notin stopped
      /\ "execute_method" \in pending
  BY SomebodyRuns DEF Called, ChainInvariant
<1>2. executed[running] = None
  BY <1>1 DEF ChainInvariant, ExecutedLast, Behind
<1>3. Checked(Request, version) /\ pending \subseteq Behind \cup {"execute_method"}
  BY <1>2, AllChecked
<1>4. /\ version \in Versions /\ version' \in Versions /\ version <= version'
      /\ executed' = [executed EXCEPT ![running] = version]
  BY ChainAssumption DEF Execute, ChainInvariant, TypeOK, Versions
<1>5. /\ executed'[running] = version /\ executed'[running] # None
      /\ \A c \in Clients : c # running => executed'[c] = executed[c]
  BY <1>1, <1>4 DEF ChainInvariant, TypeOK, Versions, None
<1>6. TypeOK'
  BY <1>1, <1>4 DEF ChainInvariant, TypeOK, clientVars, FaultsBounded
<1>7. NewIsClean' /\ Idle' /\ Unset'
  BY <1>1, <1>5 DEF ChainInvariant, NewIsClean, Idle, Unset, Headers, clientVars
<1>8. ExecutedLast'
  BY <1>1, <1>3 DEF ExecutedLast, clientVars
<1>9. PassedSoFar'
  BY <1>5 DEF PassedSoFar
<1>10. TasksChecked'
  <2> SUFFICES ASSUME NEW c \in tasks', method'[c] \in Coroutines
               PROVE  executed'[c] = None /\ \E v \in 1..version' : Checked(request'[c], v)
    BY DEF TasksChecked, Checked, Decodable, Preconditions, NotKnown, Unmodified, RangeHolds,
           Matches, NoneMatches
  <2>1. c \in tasks /\ c \in Clients /\ method[c] \in Coroutines /\ c # running
    BY DEF clientVars, ChainInvariant, TypeOK
  <2>2. executed[c] = None /\ \E v \in 1..version : Checked(request[c], v)
    BY <2>1 DEF ChainInvariant, TasksChecked
  <2> QED  BY <1>4, <1>5, <2>1, <2>2 DEF clientVars, Versions
<1>11. ExecutedAsChecked'
  <2> SUFFICES ASSUME NEW c \in Clients, executed'[c] # None
               PROVE  \E v \in 1..executed'[c] :
                         /\ Acceptable(request'[c], v)
                         /\ method'[c] \notin Coroutines => v = executed'[c]
    BY DEF ExecutedAsChecked, Acceptable, Checked, Decodable, Preconditions, NotKnown,
           Unmodified, RangeHolds, Matches, NoneMatches
  <2>1. CASE c = running
    <3>1. Acceptable(request'[c], version) /\ version \in 1..executed'[c]
      BY <1>3, <1>4, <1>5, <2>1 DEF Acceptable, Request, clientVars, Versions
    <3> QED  BY <1>5, <2>1, <3>1
  <2>2. CASE c # running
    BY <1>5, <2>2 DEF ChainInvariant, ExecutedAsChecked, clientVars
  <2> QED  BY <2>1, <2>2
<1> QED
  BY <1>6, <1>7, <1>8, <1>9, <1>10, <1>11 DEF ChainInvariant

(* Resource._execute_method: left to the coroutine, forbidden, or executed. *)
LEMMA ExecuteMethodKeeps ==
    ASSUME ChainInvariant, ExecuteMethod
    PROVE  ChainInvariant'
<1>1. Called("execute_method") /\ UNCHANGED <<phase, clientVars, tasks>>
  BY DEF ExecuteMethod
<1>2. running \in Clients /\ "execute_method" \in Handlers
  BY <1>1, AllChecked
<1>3. CASE Returns("execute_method") /\ UNCHANGED <<version, executed, faults>>
  <2>1. Looks("execute_method") /\ Passed("execute_method")
    BY <1>1, <1>3 DEF Looks, Passed
  <2> QED  BY <1>2, <1>3, <2>1, LookKeeps
<1>4. CASE Raises("403") /\ UNCHANGED <<version, executed, faults>>
  <2>1. Looks("execute_method") /\ "403" \in Outcomes
    BY <1>1, <1>4 DEF Looks, Outcomes
  <2> QED  BY <1>2, <1>4, <2>1, LookRaises
<1>5. CASE /\ method[running] \notin Coroutines /\ Request.permitted /\ Execute(running)
           /\ \/ Returns("execute_method") /\ UNCHANGED faults
              \/ Fault /\ Raises("failure")
  <2>1. FaultsBounded
    BY <1>5, ChainAssumption DEF FaultsBounded, Fault, ChainInvariant, TypeOK
  <2>2. outcome \in [Clients -> Seq(Outcomes)] /\ stopped \subseteq Clients
    BY DEF ChainInvariant, TypeOK
  <2>3. CASE Returns("execute_method")
    <3>1. /\ pending' \subseteq pending \ {"execute_method"} /\ running' = running
          /\ stopped' = stopped /\ outcome' = outcome
      BY <2>3 DEF Returns
    <3> QED  BY <1>1, <1>5, <2>1, <2>2, <3>1, ExecuteKeeps
  <2>4. CASE Raises("failure")
    <3>1. "failure" \in Outcomes
      BY DEF Outcomes
    <3>2. outcome' \in [Clients -> Seq(Outcomes)] /\ stopped' \subseteq Clients
      BY <1>2, <2>2, <2>4, <3>1, AppendOutcome DEF Raises
    <3>3. /\ pending' \subseteq pending \ {"execute_method"} /\ running' = running
          /\ stopped' = stopped \cup {running} /\ pending' = {}
      BY <2>4 DEF Raises
    <3> QED  BY <1>1, <1>5, <2>1, <3>2, <3>3, ExecuteKeeps
  <2> QED  BY <1>5, <2>3, <2>4
<1> QED  BY <1>3, <1>4, <1>5 DEF ExecuteMethod

(* Resource._execute_method_async: a task that has been checked. *)
LEMMA ExecuteMethodAsyncKeeps ==
    ASSUME ChainInvariant, ExecuteMethodAsync
    PROVE  ChainInvariant'
<1>1. /\ running \in Clients /\ running # Nobody /\ running \notin stopped
      /\ "execute_method_async" \in pending /\ pending' = pending \ {"execute_method_async"}
      /\ tasks' = tasks \cup {running}
      /\ UNCHANGED <<version, phase, clientVars, executed, faults, running, stopped, outcome>>
  BY SomebodyRuns DEF ExecuteMethodAsync, Called, ChainInvariant, Returns
<1>2. /\ pending \subseteq Behind \cup {"execute_method"}
      /\ executed[running] = None => Checked(Request, version)
  BY AllChecked DEF ExecuteMethodAsync
<1>3. TypeOK' /\ NewIsClean' /\ Idle' /\ Unset'
  BY <1>1 DEF ChainInvariant, TypeOK, NewIsClean, Idle, Unset, Headers, clientVars
<1>4. ExecutedLast'
  BY <1>1, <1>2 DEF ChainInvariant, ExecutedLast, clientVars
<1>5. ASSUME NEW g PROVE Passed(g)' = Passed(g)
  BY <1>1, PassedStays DEF clientVars
<1>6. PassedSoFar'
  <2>1. Passed("execute_method_async")
    BY DEF Passed
  <2> QED  BY <1>1, <1>5, <2>1 DEF ChainInvariant, PassedSoFar
<1>7. TasksChecked'
  <2> SUFFICES ASSUME NEW c \in tasks', method'[c] \in Coroutines
               PROVE  executed'[c] = None /\ \E v \in 1..version' : Checked(request'[c], v)
    BY DEF TasksChecked, Checked, Decodable, Preconditions, NotKnown, Unmodified, RangeHolds,
           Matches, NoneMatches
  <2>1. CASE c = running
    <3>1. executed[c] = None
      BY <1>1, <2>1 DEF ChainInvariant, ExecutedLast, clientVars
    <3>2. version \in 1..version
      BY DEF ChainInvariant, TypeOK, Versions
    <3> QED  BY <1>1, <1>2, <2>1, <3>1, <3>2 DEF Request, clientVars
  <2>2. CASE c # running
    BY <1>1, <2>2 DEF ChainInvariant, TasksChecked, clientVars
  <2> QED  BY <2>1, <2>2
<1>8. ExecutedAsChecked'
  BY <1>1 DEF ChainInvariant, ExecutedAsChecked, clientVars, Acceptable, Checked, Decodable,
     Preconditions, NotKnown, Unmodified, RangeHolds, Matches, NoneMatches
<1> QED  BY <1>3, <1>4, <1>6, <1>7, <1>8 DEF ChainInvariant

(* What foreign code raises stops the event. *)
LEMMA ForeignRaisesKeeps ==
    ASSUME ChainInvariant, ForeignRaises
    PROVE  ChainInvariant'
<1>1. pending # {} /\ StillThere /\ UNCHANGED <<method, headers>>
  BY DEF ForeignRaises, Called, StillThere, clientVars
<1>2. FaultsBounded
  BY ChainAssumption DEF ForeignRaises, FaultsBounded, Fault, ChainInvariant, TypeOK
<1>3. PICK o \in {"failure", "500"} : Raises(o)
  BY DEF ForeignRaises
<1>4. o \in Outcomes
  BY DEF Outcomes
<1> QED  BY <1>1, <1>2, <1>3, <1>4, RaiseKeeps

(* A new event starts with no handler called. *)
LEMMA OnRequestKeeps ==
    ASSUME ChainInvariant, NEW c \in Clients, OnRequest(c)
    PROVE  ChainInvariant'
<1>1. PICK r \in Requests[c] : request' = [request EXCEPT ![c] = r]
  BY DEF OnRequest
<1>2. /\ r \in RequestType /\ c # Nobody /\ running = Nobody /\ running' = c
      /\ c \notin tasks /\ c \notin stopped /\ executed[c] = None /\ headers[c] = NoHeaders
      /\ UNCHANGED <<version, method, headers, stopped, outcome, tasks, executed, faults>>
      /\ pending' = Handlers
  BY ChainAssumption DEF OnRequest, ChainInvariant, NewIsClean
<1>3. TypeOK'
  BY <1>1, <1>2 DEF ChainInvariant, TypeOK, OnRequest
<1>4. NewIsClean' /\ Idle' /\ ExecutedLast' /\ PassedSoFar'
  BY <1>2 DEF ChainInvariant, TypeOK, NewIsClean, Idle, ExecutedLast, PassedSoFar, OnRequest
<1>5. Unset'
  BY <1>2 DEF Unset, Headers, NoHeaders
<1>6. \A d \in Clients : d # c => request'[d] = request[d]
  BY <1>1 DEF ChainInvariant, TypeOK
<1>7. TasksChecked'
  <2> SUFFICES ASSUME NEW d \in tasks', method'[d] \in Coroutines
               PROVE  executed'[d] = None /\ \E v \in 1..version' : Checked(request'[d], v)
    BY DEF TasksChecked, Checked, Decodable, Preconditions, NotKnown, Unmodified, RangeHolds,
           Matches, NoneMatches
  <2>1. d \in Clients /\ d # c
    BY <1>2 DEF ChainInvariant, TypeOK
  <2> QED  BY <1>2, <1>6, <2>1 DEF ChainInvariant, TasksChecked
<1>8. ExecutedAsChecked'
  <2> SUFFICES ASSUME NEW d \in Clients, executed'[d] # None
               PROVE  \E v \in 1..executed'[d] :
                         /\ Acceptable(request'[d], v)
                         /\ method'[d] \notin Coroutines => v = executed'[d]
    BY DEF ExecutedAsChecked, Acceptable, Checked, Decodable, Preconditions, NotKnown,
           Unmodified, RangeHolds, Matches, NoneMatches
  <2> QED  BY <1>2, <1>6 DEF ChainInvariant, ExecutedAsChecked
<1> QED  BY <1>3, <1>4, <1>5, <1>7, <1>8 DEF ChainInvariant

(* What request_success adds is an outcome. *)
LEMMA SuccessType ==
    ASSUME TypeOK, NEW c \in Clients, Succeeds(c)
    PROVE  outcome' \in [Clients -> Seq(Outcomes)]
<1>1. "response" \in Outcomes /\ outcome \in [Clients -> Seq(Outcomes)]
  BY DEF Outcomes, TypeOK
<1> QED  BY <1>1 DEF Succeeds

(* The end of an event leaves its tasks as they are. *)
LEMMA EventDoneKeeps ==
    ASSUME ChainInvariant, EventDone
    PROVE  ChainInvariant'
<1>1. /\ running \in Clients /\ running' = Nobody
      /\ UNCHANGED <<version, clientVars, pending, stopped, tasks, executed, faults>>
      /\ pending = {}
      /\ phase' = phase \/ phase' = [phase EXCEPT ![running] = "over"]
  BY DEF EventDone, ChainInvariant, TypeOK
<1>2. outcome' \in [Clients -> Seq(Outcomes)]
  BY <1>1, SuccessType DEF EventDone, ChainInvariant, TypeOK
<1>3. TypeOK'
  BY <1>1, <1>2 DEF ChainInvariant, TypeOK, clientVars
<1>4. Nobody \notin Clients
  BY ChainAssumption
<1>5. NewIsClean' /\ Idle' /\ ExecutedLast' /\ PassedSoFar' /\ Unset'
  BY <1>1, <1>4 DEF ChainInvariant, TypeOK, NewIsClean, Idle, ExecutedLast, PassedSoFar, Unset,
     clientVars
<1>6. TasksChecked' /\ ExecutedAsChecked'
  BY <1>1 DEF ChainInvariant, TasksChecked, ExecutedAsChecked, clientVars, Acceptable, Checked,
     Decodable, Preconditions, NotKnown, Unmodified, RangeHolds, Matches, NoneMatches
<1> QED  BY <1>3, <1>5, <1>6 DEF ChainInvariant

(* A coroutine runs on a state no older than the one it was checked on. *)
LEMMA TaskEndsKeeps ==
    ASSUME ChainInvariant, NEW c \in Clients, TaskEnds(c)
    PROVE  ChainInvariant'
<1>1. /\ running = Nobody /\ c \in tasks /\ tasks' = tasks \ {c}
      /\ phase' = [phase EXCEPT ![c] = "over"]
      /\ UNCHANGED <<clientVars, running, pending, stopped>>
  BY DEF TaskEnds
<1>2. outcome \in [Clients -> Seq(Outcomes)] /\ {"failure", "403"} \subseteq Outcomes
  BY DEF ChainInvariant, TypeOK, Outcomes
<1>3. \/ Succeeds(c)
      \/ outcome' = [outcome EXCEPT ![c] = Append(@, "failure")]
      \/ outcome' = [outcome EXCEPT ![c] = Append(@, "403")]
  BY DEF TaskEnds
<1>4. outcome' \in [Clients -> Seq(Outcomes)]
  <2>1. CASE Succeeds(c)
    BY <2>1, SuccessType DEF ChainInvariant
  <2>2. CASE outcome' = [outcome EXCEPT ![c] = Append(@, "failure")]
    BY <1>2, <2>2, AppendOutcome
  <2>3. CASE outcome' = [outcome EXCEPT ![c] = Append(@, "403")]
    BY <1>2, <2>3, AppendOutcome
  <2> QED  BY <1>3, <2>1, <2>2, <2>3
<1>5. FaultsBounded
  BY ChainAssumption DEF FaultsBounded, TaskEnds, Fault, ChainInvariant, TypeOK
<1>6. \/ UNCHANGED <<version, executed>>
      \/ Execute(c) /\ method[c] \in Coroutines /\ request[c].permitted
  BY DEF TaskEnds
<1>7. /\ version \in Versions /\ version' \in Versions /\ version <= version'
      /\ executed' = executed \/ executed' = [executed EXCEPT ![c] = version]
  BY <1>6, ChainAssumption DEF Execute, ChainInvariant, TypeOK, Versions
<1>8. TypeOK'
  BY <1>1, <1>4, <1>5, <1>7 DEF ChainInvariant, TypeOK, clientVars, FaultsBounded
<1>9. NewIsClean' /\ Idle' /\ ExecutedLast' /\ PassedSoFar' /\ Unset'
  BY <1>1, <1>7 DEF ChainInvariant, TypeOK, NewIsClean, Idle, ExecutedLast, PassedSoFar, Unset,
     clientVars
<1>10. \A d \in Clients : d # c => executed'[d] = executed[d]
  BY <1>7 DEF ChainInvariant, TypeOK
<1>11. TasksChecked'
  <2> SUFFICES ASSUME NEW d \in tasks', method'[d] \in Coroutines
               PROVE  executed'[d] = None /\ \E v \in 1..version' : Checked(request'[d], v)
    BY DEF TasksChecked, Checked, Decodable, Preconditions, NotKnown, Unmodified, RangeHolds,
           Matches, NoneMatches
  <2>1. d \in Clients /\ d # c /\ d \in tasks /\ method[d] \in Coroutines
    BY <1>1 DEF ChainInvariant, TypeOK, clientVars
  <2>2. executed[d] = None /\ \E v \in 1..version : Checked(request[d], v)
    BY <2>1 DEF ChainInvariant, TasksChecked
  <2> QED  BY <1>1, <1>7, <1>10, <2>1, <2>2 DEF clientVars, Versions
<1>12. ExecutedAsChecked'
  <2> SUFFICES ASSUME NEW d \in Clients, executed'[d] # None
               PROVE  \E v \in 1..executed'[d] :
                         /\ Acceptable(request'[d], v)
                         /\ method'[d] \notin Coroutines => v = executed'[d]
    BY DEF ExecutedAsChecked, Acceptable, Checked, Decodable, Preconditions, NotKnown,
           Unmodified, RangeHolds, Matches, NoneMatches
  <2>1. CASE executed'[d] = executed[d]
    BY <1>1, <2>1 DEF ChainInvariant, ExecutedAsChecked, clientVars
  <2>2. CASE executed'[d] # executed[d]
    <3>1. d = c /\ method[c] \in Coroutines /\ request[c].permitted /\ executed'[c] = version
      BY <1>6, <1>10, <2>2 DEF Execute, ChainInvariant, TypeOK
    <3>2. \E v \in 1..version : Checked(request[c], v)
      BY <1>1, <3>1 DEF ChainInvariant, TasksChecked
    <3> QED  BY <1>1, <3>1, <3>2 DEF Acceptable, clientVars
  <2> QED  BY <2>1, <2>2
<1> QED  BY <1>8, <1>9, <1>11, <1>12 DEF ChainInvariant

-----------------------------------------------------------------------------
(* Initially nothing has been asked. *)
LEMMA StartsAsItShould == Init => ChainInvariant
<1> SUFFICES ASSUME Init PROVE ChainInvariant
  OBVIOUS
<1>1. NoRequest \in RequestType
  BY ChainAssumption DEF NoRequest, RequestType, Versions, None
<1>2. TypeOK
  BY <1>1, ChainAssumption DEF Init, TypeOK, Versions, NoHeaders
<1>3. NewIsClean /\ Idle /\ ExecutedLast /\ Unset /\ PassedSoFar /\ TasksChecked
      /\ ExecutedAsChecked
  BY ChainAssumption DEF Init, NewIsClean, Idle, ExecutedLast, Unset, PassedSoFar, TasksChecked,
     ExecutedAsChecked
<1> QED  BY <1>2, <1>3 DEF ChainInvariant

(* A step that changes nothing. *)
LEMMA StutterKeeps == ChainInvariant /\ UNCHANGED vars => ChainInvariant'
<1> SUFFICES ASSUME ChainInvariant, UNCHANGED vars PROVE ChainInvariant'
  OBVIOUS
<1>1. TypeOK' /\ NewIsClean' /\ Idle' /\ ExecutedLast' /\ Unset'
  BY DEF ChainInvariant, vars, clientVars, eventVars, TypeOK, NewIsClean, Idle, ExecutedLast,
     Unset, Headers
<1>2. ASSUME NEW g PROVE Passed(g)' = Passed(g)
  BY PassedStays DEF vars, clientVars, eventVars
<1>3. PassedSoFar'
  BY <1>2 DEF ChainInvariant, PassedSoFar, vars, clientVars, eventVars
<1>4. TasksChecked' /\ ExecutedAsChecked'
  BY DEF ChainInvariant, TasksChecked, ExecutedAsChecked, vars, clientVars, eventVars, Acceptable,
     Checked, Decodable, Preconditions, NotKnown, Unmodified, RangeHolds, Matches, NoneMatches
<1> QED  BY <1>1, <1>3, <1>4 DEF ChainInvariant

(* In whatever order the handlers of equal priority are called, whatever fails *)
(* and however many requests wait for their coroutines: the chain is sound.    *)
THEOREM ChainIsSound == Spec => []ChainInvariant
<1>1. ChainInvariant /\ [Next]_vars => ChainInvariant'
  <2> SUFFICES ASSUME ChainInvariant, [Next]_vars PROVE ChainInvariant'
    OBVIOUS
  <2>1. CASE PreRequest          BY <2>1, PreRequestKeeps
  <2>2. CASE SetHeader           BY <2>2, SetHeaderKeeps
  <2>3. CASE Validator           BY <2>3, ValidatorKeeps
  <2>4. CASE SetContentType      BY <2>4, SetContentTypeKeeps
  <2>5. CASE Checks              BY <2>5, ChecksKeep
  <2>6. CASE ExecuteMethod       BY <2>6, ExecuteMethodKeeps
  <2>7. CASE ExecuteMethodAsync  BY <2>7, ExecuteMethodAsyncKeeps
  <2>8. CASE EventDone           BY <2>8, EventDoneKeeps
  <2>9. CASE \E c \in Clients : TaskEnds(c)
    BY <2>9, TaskEndsKeeps
  <2>10. CASE ForeignRaises      BY <2>10, ForeignRaisesKeeps
  <2>11. CASE \E c \in Clients : OnRequest(c)
    BY <2>11, OnRequestKeeps
  <2>12. CASE UNCHANGED vars     BY <2>12, StutterKeeps
  <2> QED
    BY <2>1, <2>2, <2>3, <2>4, <2>5, <2>6, <2>7, <2>8, <2>9, <2>10, <2>11, <2>12
       DEF Next, System
<1> QED  BY StartsAsItShould, <1>1, PTL DEF Spec

(* A method is only executed on a request that has passed every check, and    *)
(* unless it is a coroutine on the state of the resource they passed on.      *)
THEOREM MethodIsChecked == Spec => []ExecutedAsChecked
<1>1. ChainInvariant => ExecutedAsChecked
  BY DEF ChainInvariant
<1> QED  BY <1>1, ChainIsSound, PTL

-----------------------------------------------------------------------------
(* One outcome more, for one client, that has its reason. *)
LEMMA OnlyOneOutcome ==
    ASSUME TypeOK, NEW d \in Clients, NEW o, outcome' = [outcome EXCEPT ![d] = Append(@, o)],
           o \in Outcomes,
           \/ o = "response"
           \/ Due(o, request[d], version) \/ Departs(o, request[d], version)
    PROVE  Reasoned
<1> SUFFICES ASSUME NEW c \in Clients, Refused(c)
             PROVE  \/ Due(Status(c), request[c], version)
                    \/ Departs(Status(c), request[c], version)
  BY DEF Reasoned
<1>1. c = d /\ outcome'[d] = Append(outcome[d], o) /\ outcome[d] \in Seq(Outcomes)
  BY DEF TypeOK, Refused
<1>2. Status(c) = o
  BY <1>1 DEF Status
<1> QED  BY <1>1, <1>2 DEF Refused

(* Foreign code that raises needs no reason. *)
LEMMA FaultIsCounted ==
    ASSUME TypeOK, Fault
    PROVE  Reasoned
BY ChainAssumption DEF TypeOK, Fault, Reasoned, Refused

(* Whoever is refused gets a status that RFC 7232 has for its request and the   *)
(* state of the resource that is, or one for what is wrong with the request     *)
(* itself, or is one of the three cases in which the code departs from that.    *)
THEOREM RefusalsHaveReasons == Spec => RefusedForAReason
<1>1. ChainInvariant /\ [Next]_vars => [Reasoned]_vars
  <2> SUFFICES ASSUME ChainInvariant, Next PROVE Reasoned
    BY DEF vars
  <2>1. CASE outcome' = outcome
    BY <2>1 DEF Reasoned, Refused
  <2>2. PreRequest \/ SetHeader \/ Validator \/ SetContentType \/ ExecuteMethodAsync
        \/ (\E c \in Clients : OnRequest(c)) => outcome' = outcome
    BY DEF PreRequest, SetHeader, Validator, SetContentType, ExecuteMethodAsync, OnRequest, Returns
  <2>3. CASE Checks
    <3>1. outcome' = outcome \/ Refuses
      BY <2>3, ConditionalGetStep, UnmodifiedSinceStep, NoneMatchStep, MatchStep, IfRangeStep,
         CheckMethodExistsStep, SetContentLanguageStep, DecodeInputStep, NotAcceptableStep
         DEF Checks, Decides, Returns
    <3>2. \E h : h \in pending
      BY <2>3 DEF Checks, ConditionalGet, UnmodifiedSince, NoneMatch, Match, IfRange,
         CheckMethodExists, SetContentLanguage, DecodeInput, NotAcceptable, Looks, Called
    <3>3. running \in Clients /\ TypeOK
      BY <3>2, SomebodyRuns DEF ChainInvariant
    <3> QED  BY <2>1, <3>1, <3>3, OnlyOneOutcome DEF Refuses, Raises, Request
  <2>4. CASE ExecuteMethod
    <3>1. running \in Clients /\ TypeOK
      BY <2>4, AllChecked DEF ExecuteMethod, ChainInvariant
    <3>2. \/ outcome' = outcome \/ Fault
          \/ (~Request.permitted /\ outcome' = [outcome EXCEPT ![running] = Append(@, "403")])
      BY <2>4 DEF ExecuteMethod, Returns, Raises
    <3> QED  BY <2>1, <3>1, <3>2, FaultIsCounted, OnlyOneOutcome DEF Due, Outcomes, Request
  <2>5. CASE ForeignRaises
    BY <2>5, FaultIsCounted DEF ForeignRaises, ChainInvariant
  <2>6. CASE EventDone
    <3>1. running \in Clients /\ TypeOK
      BY <2>6 DEF EventDone, ChainInvariant, TypeOK
    <3> QED  BY <2>1, <2>6, <3>1, OnlyOneOutcome DEF EventDone, Succeeds, Outcomes
  <2>7. ASSUME NEW c \in Clients, TaskEnds(c) PROVE Reasoned
    <3>1. \/ outcome' = outcome \/ Fault
          \/ outcome' = [outcome EXCEPT ![c] = Append(@, "response")]
          \/ (~request[c].permitted /\ outcome' = [outcome EXCEPT ![c] = Append(@, "403")])
      BY <2>7 DEF TaskEnds, Succeeds
    <3> QED
      BY <2>1, <3>1, FaultIsCounted, OnlyOneOutcome DEF Due, Outcomes, ChainInvariant
  <2> QED
    BY <2>1, <2>2, <2>3, <2>4, <2>5, <2>6, <2>7 DEF Next, System
<1> QED  BY <1>1, ChainIsSound, PTL DEF Spec, RefusedForAReason
(* The other direction: what passes the handlers meets the RFC as well, if the  *)
(* resource has a tag whenever the request names one.                           *)
THEOREM PassedMeetsTheRFC ==
    ASSUME NEW r \in RequestType, NEW v \in Versions, Preconditions(r, v),
           r.match = None \/ "etag" \in r.has
    PROVE  ~FailsMatch(r, v) /\ ~IsChanged(r, v) /\ ~FailsNoneMatch(r, v) /\ ~IsUnchanged(r, v)
BY ChainAssumption DEF RequestType, Versions, None, Invalid, Preconditions, Matches, NoneMatches,
   NotKnown, Unmodified, FailsMatch, IsChanged, FailsNoneMatch, IsUnchanged

-----------------------------------------------------------------------------
(* While an event is under way its client has no outcome before the event is *)
(* stopped, and one behind that; what can stop an event whose coroutine       *)
(* already waits is foreign code only.                                        *)
Counted(c) ==
    /\ phase[c] # "called" => c \notin tasks /\ c # running
    /\ phase[c] = "new" => Len(outcome[c]) = 0
    /\ phase[c] = "called" => Len(outcome[c]) = IF c \in stopped THEN 1 ELSE 0
    /\ c \in tasks \intersect stopped /\ method[c] \in Coroutines => faults > 0

OutcomesCounted == OneOutcome /\ \A c \in Clients : Counted(c)

(* A history that is appended to is longer by one. *)
LEMMA AppendLength ==
    ASSUME TypeOK, NEW d \in Clients, NEW o \in Outcomes,
           outcome' = [outcome EXCEPT ![d] = Append(@, o)]
    PROVE  /\ Len(outcome'[d]) = Len(outcome[d]) + 1
           /\ \A c \in Clients \ {d} : outcome'[c] = outcome[c]
<1>1. outcome[d] \in Seq(Outcomes)
  BY DEF TypeOK
<1>2. outcome'[d] = Append(outcome[d], o) /\ \A c \in Clients \ {d} : outcome'[c] = outcome[c]
  BY DEF TypeOK
<1> QED  BY <1>1, <1>2

(* A handler that returns. *)
LEMMA ReturnCounts ==
    ASSUME ChainInvariant, OutcomesCounted, running \notin stopped,
           UNCHANGED <<phase, running, stopped, outcome, faults>>,
           tasks' \subseteq tasks \cup {running},
           \A c \in Clients : c # running => method'[c] = method[c]
    PROVE  OutcomesCounted'
<1> SUFFICES ASSUME NEW c \in Clients
             PROVE  /\ Counted(c)'
                    /\ Len(outcome'[c]) <=
                          IF c \in stopped' /\ method'[c] \in Coroutines /\ faults' > 0 THEN 2 ELSE 1
  BY DEF OutcomesCounted, OneOutcome
<1>1. Counted(c)
  BY DEF OutcomesCounted
<1>2. Len(outcome[c]) <= IF c \in stopped /\ method[c] \in Coroutines /\ faults > 0 THEN 2 ELSE 1
  BY DEF OutcomesCounted, OneOutcome
<1>3. c = running => phase[c] = "called" /\ c \notin stopped /\ Len(outcome[c]) = 0
  BY <1>1 DEF Counted
<1> QED
  BY <1>1, <1>2, <1>3 DEF Counted

(* A handler that stops the event. *)
LEMMA RaiseCounts ==
    ASSUME ChainInvariant, OutcomesCounted, NEW o \in Outcomes, Raises(o), pending # {},
           UNCHANGED <<phase, tasks, method>>, faults' \in {faults, faults + 1},
           running \in tasks /\ method[running] \in Coroutines => faults' > 0
    PROVE  OutcomesCounted'
<1>1. running \in Clients /\ running \notin stopped /\ TypeOK /\ faults \in Nat
  BY SomebodyRuns DEF ChainInvariant, TypeOK
<1> SUFFICES ASSUME NEW c \in Clients
             PROVE  /\ Counted(c)'
                    /\ Len(outcome'[c]) <=
                          IF c \in stopped' /\ method'[c] \in Coroutines /\ faults' > 0 THEN 2 ELSE 1
  BY DEF OutcomesCounted, OneOutcome
<1>2. Counted(c)
  BY DEF OutcomesCounted
<1>3. Len(outcome[c]) <= IF c \in stopped /\ method[c] \in Coroutines /\ faults > 0 THEN 2 ELSE 1
  BY DEF OutcomesCounted, OneOutcome
<1>4. /\ Len(outcome'[running]) = Len(outcome[running]) + 1
      /\ \A d \in Clients \ {running} : outcome'[d] = outcome[d]
  BY <1>1, AppendLength DEF Raises
<1>5. CASE c = running
  BY <1>1, <1>2, <1>4, <1>5 DEF Counted, Raises
<1>6. CASE c # running
  BY <1>1, <1>2, <1>3, <1>4, <1>6 DEF Counted, Raises
<1> QED  BY <1>5, <1>6

(* A check comes before the method, so that no coroutine waits yet. *)
LEMMA CheckCounts ==
    ASSUME ChainInvariant, OutcomesCounted, Checks
    PROVE  OutcomesCounted'
<1>1. PICK h \in {"conditional_get", "unmodified_since", "none_match", "match", "if_range",
                  "check_method_exists", "set_content_language", "decode_input",
                  "not_acceptable"} : Looks(h) /\ (Returns(h) \/ \E o \in Outcomes : Raises(o))
  <2>1. CASE ConditionalGet        BY <2>1 DEF ConditionalGet, Looks, Outcomes
  <2>2. CASE UnmodifiedSince       BY <2>2 DEF UnmodifiedSince, Looks, Outcomes
  <2>3. CASE NoneMatch             BY <2>3 DEF NoneMatch, Looks, Outcomes
  <2>4. CASE Match                 BY <2>4 DEF Match, Looks, Outcomes
  <2>5. CASE IfRange               BY <2>5 DEF IfRange, Looks, Outcomes
  <2>6. CASE CheckMethodExists     BY <2>6 DEF CheckMethodExists, Looks, Outcomes
  <2>7. CASE SetContentLanguage    BY <2>7 DEF SetContentLanguage, Looks, Outcomes
  <2>8. CASE DecodeInput           BY <2>8 DEF DecodeInput, Looks, Outcomes
  <2>9. CASE NotAcceptable         BY <2>9 DEF NotAcceptable, Looks, Outcomes
  <2> QED  BY <2>1, <2>2, <2>3, <2>4, <2>5, <2>6, <2>7, <2>8, <2>9 DEF Checks
<1>2. h \in pending /\ running \in Clients /\ running # Nobody /\ running \notin stopped
  BY <1>1, SomebodyRuns DEF Looks, Called, ChainInvariant
<1>3. running \notin tasks
  BY <1>1, <1>2 DEF ChainInvariant, ExecutedLast, Behind
<1>4. UNCHANGED <<phase, tasks, method, faults>>
  BY <1>1 DEF Looks, clientVars
<1>5. CASE Returns(h)
  BY <1>2, <1>4, <1>5, ReturnCounts DEF Returns
<1>6. ASSUME NEW o \in Outcomes, Raises(o) PROVE OutcomesCounted'
  BY <1>2, <1>3, <1>4, <1>6, RaiseCounts
<1> QED  BY <1>1, <1>5, <1>6

(* The method is executed, or becomes a task. *)
LEMMA ExecuteCounts ==
    ASSUME ChainInvariant, OutcomesCounted, ExecuteMethod
    PROVE  OutcomesCounted'
<1>1. /\ "execute_method" \in pending /\ running \notin stopped
      /\ faults \in Nat
  BY SomebodyRuns DEF ExecuteMethod, Called, ChainInvariant, TypeOK
<1>2. UNCHANGED <<phase, tasks, method>>
  BY DEF ExecuteMethod, clientVars
<1>3. CASE Returns("execute_method") /\ UNCHANGED faults
  BY <1>1, <1>2, <1>3, ReturnCounts DEF Returns
<1>4. ASSUME NEW o \in Outcomes, Raises(o), method[running] \notin Coroutines,
             faults' \in {faults, faults + 1}
      PROVE  OutcomesCounted'
  BY <1>1, <1>2, <1>4, RaiseCounts
<1>5. \/ Returns("execute_method") /\ UNCHANGED faults
      \/ \E o \in Outcomes : /\ Raises(o) /\ method[running] \notin Coroutines
                             /\ faults' \in {faults, faults + 1}
  BY DEF ExecuteMethod, Fault, Outcomes
<1> QED  BY <1>3, <1>4, <1>5

(* Foreign code raises, which is counted. *)
LEMMA ForeignCounts ==
    ASSUME ChainInvariant, OutcomesCounted, ForeignRaises
    PROVE  OutcomesCounted'
<1>1. PICK o \in Outcomes : Raises(o)
  BY DEF ForeignRaises, Outcomes
<1>2. pending # {} /\ UNCHANGED <<phase, tasks, method>>
  BY DEF ForeignRaises, Called, clientVars
<1>3. faults \in Nat /\ faults' = faults + 1
  BY DEF ForeignRaises, Fault, ChainInvariant, TypeOK
<1> QED  BY <1>1, <1>2, <1>3, RaiseCounts

(* An event that ends: with a response, unless it was stopped before. *)
LEMMA DoneCounts ==
    ASSUME ChainInvariant, OutcomesCounted, EventDone
    PROVE  OutcomesCounted'
<1>1. running \in Clients /\ TypeOK /\ running \notin {Nobody} /\ running' = Nobody
      /\ Nobody \notin Clients
  BY ChainAssumption DEF EventDone, ChainInvariant, TypeOK
<1> SUFFICES ASSUME NEW c \in Clients
             PROVE  /\ Counted(c)'
                    /\ Len(outcome'[c]) <=
                          IF c \in stopped' /\ method'[c] \in Coroutines /\ faults' > 0 THEN 2 ELSE 1
  BY DEF OutcomesCounted, OneOutcome
<1>2. Counted(c) /\ Counted(running)
  BY <1>1 DEF OutcomesCounted
<1>3. Len(outcome[c]) <= IF c \in stopped /\ method[c] \in Coroutines /\ faults > 0 THEN 2 ELSE 1
  BY DEF OutcomesCounted, OneOutcome
<1>4. UNCHANGED <<method, stopped, tasks, faults>>
  BY DEF EventDone, clientVars
<1>5. CASE running \in tasks
  BY <1>1, <1>2, <1>3, <1>4, <1>5 DEF EventDone, Counted
<1>6. CASE running \notin tasks
  <2>1. phase' = [phase EXCEPT ![running] = "over"] /\ Succeeds(running)
    BY <1>6 DEF EventDone
  <2>2. phase'[running] = "over" /\ \A d \in Clients \ {running} : phase'[d] = phase[d]
    BY <2>1, <1>1 DEF TypeOK
  <2>3. phase[running] = "called"
    BY <1>2 DEF Counted
  <2>4. /\ Len(outcome'[running]) = 1
        /\ \A d \in Clients \ {running} : outcome'[d] = outcome[d]
    <3>1. CASE running \in stopped
      BY <1>2, <2>1, <2>3, <3>1 DEF Succeeds, Counted
    <3>2. CASE running \notin stopped
      <4>1. outcome' = [outcome EXCEPT ![running] = Append(@, "response")] /\ "response" \in Outcomes
        BY <2>1, <3>2 DEF Succeeds, Outcomes
      <4>2. /\ Len(outcome'[running]) = Len(outcome[running]) + 1
            /\ \A d \in Clients \ {running} : outcome'[d] = outcome[d]
        BY <1>1, <4>1, AppendLength
      <4>3. Len(outcome[running]) = 0
        BY <1>2, <2>3, <3>2 DEF Counted
      <4> QED  BY <4>2, <4>3
    <3> QED  BY <3>1, <3>2
  <2>5. CASE c = running
    <3>1. phase'[c] = "over" /\ c \notin tasks' /\ c # running' /\ Len(outcome'[c]) = 1
      BY <1>1, <1>4, <1>6, <2>2, <2>4, <2>5
    <3> QED  BY <3>1 DEF Counted
  <2>6. CASE c # running
    BY <1>1, <1>2, <1>3, <1>4, <2>2, <2>4, <2>6 DEF Counted
  <2> QED  BY <2>5, <2>6
<1> QED  BY <1>5, <1>6

(* A task that ends: a coroutine whose event was stopped may fail, too. *)
LEMMA TaskCounts ==
    ASSUME ChainInvariant, OutcomesCounted, NEW d \in Clients, TaskEnds(d)
    PROVE  OutcomesCounted'
<1>1. TypeOK /\ d \in tasks /\ running = Nobody /\ Nobody \notin Clients
      /\ faults \in Nat /\ faults' \in {faults, faults + 1}
  BY ChainAssumption DEF TaskEnds, ChainInvariant, TypeOK, Fault
<1> SUFFICES ASSUME NEW c \in Clients
             PROVE  /\ Counted(c)'
                    /\ Len(outcome'[c]) <=
                          IF c \in stopped' /\ method'[c] \in Coroutines /\ faults' > 0 THEN 2 ELSE 1
  BY DEF OutcomesCounted, OneOutcome
<1>2. Counted(c) /\ Counted(d)
  BY DEF OutcomesCounted
<1>3. Len(outcome[c]) <= IF c \in stopped /\ method[c] \in Coroutines /\ faults > 0 THEN 2 ELSE 1
  BY DEF OutcomesCounted, OneOutcome
<1>4. UNCHANGED <<method, stopped, running>> /\ tasks' = tasks \ {d}
  BY DEF TaskEnds, clientVars
<1>5. phase[d] = "called"
  BY <1>1, <1>2 DEF Counted
<1>6. phase'[d] = "over" /\ \A e \in Clients \ {d} : phase'[e] = phase[e]
  BY <1>1 DEF TaskEnds, TypeOK
<1>7. \/ outcome' = outcome /\ d \in stopped
      \/ \E o \in Outcomes : /\ outcome' = [outcome EXCEPT ![d] = Append(@, o)]
                             /\ d \in stopped => method[d] \in Coroutines
  BY DEF TaskEnds, Succeeds, Outcomes
<1>8. \/ outcome' = outcome /\ d \in stopped
      \/ /\ Len(outcome'[d]) = Len(outcome[d]) + 1
         /\ \A e \in Clients \ {d} : outcome'[e] = outcome[e]
         /\ d \in stopped => method[d] \in Coroutines
  BY <1>1, <1>7, AppendLength
<1>9. CASE c = d
  BY <1>1, <1>2, <1>4, <1>5, <1>6, <1>8, <1>9 DEF Counted
<1>10. CASE c # d
  BY <1>1, <1>2, <1>3, <1>4, <1>6, <1>8, <1>10 DEF Counted
<1> QED  BY <1>9, <1>10

(* The event of a new request. *)
LEMMA RequestCounts ==
    ASSUME ChainInvariant, OutcomesCounted, NEW d \in Clients, OnRequest(d)
    PROVE  OutcomesCounted'
<1>1. TypeOK /\ phase[d] = "new" /\ d \notin stopped /\ running = Nobody /\ running' = d
  BY DEF OnRequest, ChainInvariant, NewIsClean
<1>2. UNCHANGED <<method, stopped, outcome, tasks, faults>>
  BY DEF OnRequest
<1>3. phase'[d] = "called" /\ \A e \in Clients \ {d} : phase'[e] = phase[e]
  BY <1>1 DEF OnRequest, TypeOK
<1> QED  BY <1>1, <1>2, <1>3 DEF OutcomesCounted, OneOutcome, Counted

(* A request has one outcome, whichever handlers raise and however long its    *)
(* coroutine waits: nobody is answered twice, but for a coroutine that fails   *)
(* in an event that foreign code has stopped.                                  *)
THEOREM OneAnswerEach == Spec => []OneOutcome
<1>1. Init => OutcomesCounted
  BY ChainAssumption DEF Init, OutcomesCounted, OneOutcome, Counted
<1>2. ChainInvariant /\ OutcomesCounted /\ [Next]_vars => OutcomesCounted'
  <2> SUFFICES ASSUME ChainInvariant, OutcomesCounted, [Next]_vars PROVE OutcomesCounted'
    OBVIOUS
  <2>1. CASE PreRequest \/ SetHeader \/ Validator \/ SetContentType \/ ExecuteMethodAsync
    <3>1. \E h \in pending : Returns(h)
      BY <2>1 DEF PreRequest, SetHeader, Validator, SetContentType, ExecuteMethodAsync, Called, Looks
    <3>2. running \notin stopped
      BY <3>1, SomebodyRuns DEF ChainInvariant
    <3>3. UNCHANGED <<phase, faults>> /\ tasks' \subseteq tasks \cup {running}
          /\ \A c \in Clients : c # running => method'[c] = method[c]
      BY <2>1 DEF PreRequest, SetHeader, Validator, SetContentType, ExecuteMethodAsync, Looks,
                  clientVars, ChainInvariant, TypeOK
    <3> QED  BY <3>1, <3>2, <3>3, ReturnCounts DEF Returns
  <2>2. CASE Checks              BY <2>2, CheckCounts
  <2>3. CASE ExecuteMethod       BY <2>3, ExecuteCounts
  <2>4. CASE EventDone           BY <2>4, DoneCounts
  <2>5. CASE \E c \in Clients : TaskEnds(c)
    BY <2>5, TaskCounts
  <2>6. CASE ForeignRaises       BY <2>6, ForeignCounts
  <2>7. CASE \E c \in Clients : OnRequest(c)
    BY <2>7, RequestCounts
  <2>8. CASE UNCHANGED vars
    BY <2>8 DEF vars, clientVars, eventVars, OutcomesCounted, OneOutcome, Counted
  <2> QED  BY <2>1, <2>2, <2>3, <2>4, <2>5, <2>6, <2>7, <2>8 DEF Next, System
<1>3. OutcomesCounted => OneOutcome
  BY DEF OutcomesCounted
<1> QED  BY <1>1, <1>2, <1>3, ChainIsSound, PTL DEF Spec
=============================================================================
