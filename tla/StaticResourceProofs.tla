------------------------ MODULE StaticResourceProofs ------------------------
(***************************************************************************)
(* A firm copy of a file is never confirmed wrongly: StaticInvariant is an *)
(* invariant of StaticResource.  And what is negotiated is acceptable.     *)
(***************************************************************************)
EXTENDS StaticResource, SequenceTheorems, WellFoundedInduction, TLAPS

\* What is offered for a request has a type of the file or of the method.
LEMMA OffersTypes ==
    ASSUME NEW method, NEW accept, NEW named
    PROVE  ContentType(method, accept, named) \subseteq Types
BY DEF ContentType, Negotiate, Wildcards, First, Types, Range

LEMMA InitInvariant == Init => StaticInvariant
<1> SUFFICES ASSUME Init PROVE StaticInvariant
  OBVIOUS
<1>1. FileTypeOK
  <2>1. kind \in [Inodes -> {"file", "unreadable", "directory"}]
    BY DEF Init
  <2>2. content \in [Inodes -> Nat]
    BY DEF Init
  <2>3. mtime \in [Inodes -> 0..now]
    <3>1. 0 \in 0..now
      BY DEF Init
    <3> QED
      BY <3>1 DEF Init
  <2>4. now \in Nat /\ inodes \in Inodes /\ writes \in Nat /\ file \in 1..inodes
    BY StaticAssumption DEF StaticAssumption, Init, Inodes
  <2>5. restored \in BOOLEAN /\ extension \in BOOLEAN
    BY DEF Init
  <2> QED
    BY <2>1, <2>2, <2>3, <2>4, <2>5 DEF FileTypeOK
<1>2. request \in [method: {"GET", "HEAD"}, accept: Accepts \cup {<<>>}, since: Times]
  BY DEF Init, NoRequest, Times
<1>3. headers \in [last_modified: Times, content_type: Types \cup {None}]
  BY DEF Init, NoHeaders, Times
<1>4. cached \in [content: Nat \cup {None}, last_modified: Times, firm: BOOLEAN]
  BY DEF Init, Nothing, Times
<1>5. told \in [inode: (1..inodes) \cup {None}, content: Nat \cup {None}, over: BOOLEAN]
  BY DEF Init, NotTold
<1>6. RequestTypeOK
  BY <1>2, <1>3, <1>4, <1>5 DEF RequestTypeOK, Init
<1>7. ~cached.firm
  BY DEF Init, Nothing
<1> QED
  BY <1>1, <1>6, <1>7 DEF Init, StaticInvariant, CachedIsDated, OpenedIsDated, ToldIsCached, NotModifiedIsTrue

LEMMA ReplaceInvariant ==
    ASSUME StaticInvariant, Replace
    PROVE  StaticInvariant'
<1>1. FileTypeOK /\ RequestTypeOK
  BY DEF StaticInvariant
<1>2. FileTypeOK'
  BY <1>1, StaticAssumption DEF StaticAssumption, FileTypeOK, Inodes, Replace, requestVars
<1>3. RequestTypeOK'
  <2>1. handler' \in {"routing", "open", "last_modified", "conditional_get", "content_type", "body"}
    BY <1>1, <1>2, StaticAssumption DEF StaticAssumption, RequestTypeOK, FileTypeOK, Inodes, Replace, requestVars
  <2>2. request' \in [method: {"GET", "HEAD"}, accept: Accepts \cup {<<>>}, since: Times']
    BY <1>1, <1>2, StaticAssumption DEF StaticAssumption, RequestTypeOK, FileTypeOK, Inodes, Replace, requestVars, Times
  <2>3. opened' \in (1..inodes') \cup {None}
    BY <1>1, <1>2, StaticAssumption DEF StaticAssumption, RequestTypeOK, FileTypeOK, Inodes, Replace, requestVars
  <2>4. headers' \in [last_modified: Times', content_type: Types \cup {None}]
    BY <1>1, <1>2, StaticAssumption DEF StaticAssumption, RequestTypeOK, FileTypeOK, Inodes, Replace, requestVars, Times
  <2>5. outcome' \in {"none", "200", "304", "403", "404", "406", "failure"}
    BY <1>1, <1>2, StaticAssumption DEF StaticAssumption, RequestTypeOK, FileTypeOK, Inodes, Replace, requestVars
  <2>6. cached' \in [content: Nat \cup {None}, last_modified: Times', firm: BOOLEAN]
    BY <1>1, <1>2, StaticAssumption DEF StaticAssumption, RequestTypeOK, FileTypeOK, Inodes, Replace, requestVars, Times
  <2>7. told' \in [inode: (1..inodes') \cup {None}, content: Nat \cup {None}, over: BOOLEAN]
    BY <1>1, <1>2, StaticAssumption DEF StaticAssumption, RequestTypeOK, FileTypeOK, Inodes, Replace, requestVars
  <2> QED
    BY <2>1, <2>2, <2>3, <2>4, <2>5, <2>6, <2>7 DEF RequestTypeOK
<1>4. (handler \in {"last_modified", "conditional_get", "content_type", "body"} => opened # None)'
  BY <1>1, StaticAssumption DEF StaticAssumption, StaticInvariant, FileTypeOK, RequestTypeOK, Replace, requestVars
<1>5. (handler # "routing" => outcome = "none" /\ request.since \in {cached.last_modified, None})'
  BY <1>1 DEF StaticInvariant, RequestTypeOK, Replace, requestVars
<1>6. (~restored => CachedIsDated)'
  BY <1>1, <1>2, <1>3, StaticAssumption
     DEF StaticAssumption, StaticInvariant, CachedIsDated, OpenedIsDated, ToldIsCached, Dates, FileTypeOK, RequestTypeOK, Times, Inodes, Replace, requestVars
<1>7. (~restored => OpenedIsDated)'
  BY <1>1, <1>2, <1>3, StaticAssumption
     DEF StaticAssumption, StaticInvariant, CachedIsDated, OpenedIsDated, ToldIsCached, Dates, FileTypeOK, RequestTypeOK, Times, Inodes, Replace, requestVars
<1>8. (~restored => ToldIsCached)'
  BY <1>1, <1>2, <1>3, StaticAssumption
     DEF StaticAssumption, StaticInvariant, CachedIsDated, OpenedIsDated, ToldIsCached, Dates, FileTypeOK, RequestTypeOK, Times, Inodes, Replace, requestVars
<1>9. NotModifiedIsTrue'
  BY <1>1, <1>2, <1>3, StaticAssumption DEF StaticAssumption, StaticInvariant, NotModifiedIsTrue, ToldIsCached, FileTypeOK, RequestTypeOK, Times, Replace, requestVars
<1> QED
  BY <1>2, <1>3, <1>4, <1>5, <1>6, <1>7, <1>8, <1>9 DEF StaticInvariant

LEMMA OverwriteInvariant ==
    ASSUME StaticInvariant, Overwrite
    PROVE  StaticInvariant'
<1>1. FileTypeOK /\ RequestTypeOK
  BY DEF StaticInvariant
<1>2. FileTypeOK'
  BY <1>1, StaticAssumption DEF StaticAssumption, FileTypeOK, Inodes, Overwrite, requestVars
<1>3. RequestTypeOK'
  <2>1. handler' \in {"routing", "open", "last_modified", "conditional_get", "content_type", "body"}
    BY <1>1, <1>2, StaticAssumption DEF StaticAssumption, RequestTypeOK, FileTypeOK, Inodes, Overwrite, requestVars
  <2>2. request' \in [method: {"GET", "HEAD"}, accept: Accepts \cup {<<>>}, since: Times']
    BY <1>1, <1>2, StaticAssumption DEF StaticAssumption, RequestTypeOK, FileTypeOK, Inodes, Overwrite, requestVars, Times
  <2>3. opened' \in (1..inodes') \cup {None}
    BY <1>1, <1>2, StaticAssumption DEF StaticAssumption, RequestTypeOK, FileTypeOK, Inodes, Overwrite, requestVars
  <2>4. headers' \in [last_modified: Times', content_type: Types \cup {None}]
    BY <1>1, <1>2, StaticAssumption DEF StaticAssumption, RequestTypeOK, FileTypeOK, Inodes, Overwrite, requestVars, Times
  <2>5. outcome' \in {"none", "200", "304", "403", "404", "406", "failure"}
    BY <1>1, <1>2, StaticAssumption DEF StaticAssumption, RequestTypeOK, FileTypeOK, Inodes, Overwrite, requestVars
  <2>6. cached' \in [content: Nat \cup {None}, last_modified: Times', firm: BOOLEAN]
    BY <1>1, <1>2, StaticAssumption DEF StaticAssumption, RequestTypeOK, FileTypeOK, Inodes, Overwrite, requestVars, Times
  <2>7. told' \in [inode: (1..inodes') \cup {None}, content: Nat \cup {None}, over: BOOLEAN]
    BY <1>1, <1>2, StaticAssumption DEF StaticAssumption, RequestTypeOK, FileTypeOK, Inodes, Overwrite, requestVars
  <2> QED
    BY <2>1, <2>2, <2>3, <2>4, <2>5, <2>6, <2>7 DEF RequestTypeOK
<1>4. (handler \in {"last_modified", "conditional_get", "content_type", "body"} => opened # None)'
  BY <1>1, StaticAssumption DEF StaticAssumption, StaticInvariant, FileTypeOK, RequestTypeOK, Overwrite, requestVars
<1>5. (handler # "routing" => outcome = "none" /\ request.since \in {cached.last_modified, None})'
  BY <1>1 DEF StaticInvariant, RequestTypeOK, Overwrite, requestVars
<1>6. (~restored => CachedIsDated)'
  BY <1>1, <1>2, <1>3, StaticAssumption
     DEF StaticAssumption, StaticInvariant, CachedIsDated, OpenedIsDated, ToldIsCached, Dates, FileTypeOK, RequestTypeOK, Times, Inodes, Overwrite, requestVars
<1>7. (~restored => OpenedIsDated)'
  BY <1>1, <1>2, <1>3, StaticAssumption
     DEF StaticAssumption, StaticInvariant, CachedIsDated, OpenedIsDated, ToldIsCached, Dates, FileTypeOK, RequestTypeOK, Times, Inodes, Overwrite, requestVars
<1>8. (~restored => ToldIsCached)'
  BY <1>1, <1>2, <1>3, StaticAssumption
     DEF StaticAssumption, StaticInvariant, CachedIsDated, OpenedIsDated, ToldIsCached, Dates, FileTypeOK, RequestTypeOK, Times, Inodes, Overwrite, requestVars
<1>9. NotModifiedIsTrue'
  BY <1>1, <1>2, <1>3, StaticAssumption DEF StaticAssumption, StaticInvariant, NotModifiedIsTrue, ToldIsCached, FileTypeOK, RequestTypeOK, Times, Overwrite, requestVars
<1> QED
  BY <1>2, <1>3, <1>4, <1>5, <1>6, <1>7, <1>8, <1>9 DEF StaticInvariant

LEMMA RemoveInvariant ==
    ASSUME StaticInvariant, Remove
    PROVE  StaticInvariant'
<1>1. FileTypeOK /\ RequestTypeOK
  BY DEF StaticInvariant
<1>2. FileTypeOK'
  BY <1>1, StaticAssumption DEF StaticAssumption, FileTypeOK, Inodes, Remove, requestVars
<1>3. RequestTypeOK'
  <2>1. handler' \in {"routing", "open", "last_modified", "conditional_get", "content_type", "body"}
    BY <1>1, <1>2, StaticAssumption DEF StaticAssumption, RequestTypeOK, FileTypeOK, Inodes, Remove, requestVars
  <2>2. request' \in [method: {"GET", "HEAD"}, accept: Accepts \cup {<<>>}, since: Times']
    BY <1>1, <1>2, StaticAssumption DEF StaticAssumption, RequestTypeOK, FileTypeOK, Inodes, Remove, requestVars, Times
  <2>3. opened' \in (1..inodes') \cup {None}
    BY <1>1, <1>2, StaticAssumption DEF StaticAssumption, RequestTypeOK, FileTypeOK, Inodes, Remove, requestVars
  <2>4. headers' \in [last_modified: Times', content_type: Types \cup {None}]
    BY <1>1, <1>2, StaticAssumption DEF StaticAssumption, RequestTypeOK, FileTypeOK, Inodes, Remove, requestVars, Times
  <2>5. outcome' \in {"none", "200", "304", "403", "404", "406", "failure"}
    BY <1>1, <1>2, StaticAssumption DEF StaticAssumption, RequestTypeOK, FileTypeOK, Inodes, Remove, requestVars
  <2>6. cached' \in [content: Nat \cup {None}, last_modified: Times', firm: BOOLEAN]
    BY <1>1, <1>2, StaticAssumption DEF StaticAssumption, RequestTypeOK, FileTypeOK, Inodes, Remove, requestVars, Times
  <2>7. told' \in [inode: (1..inodes') \cup {None}, content: Nat \cup {None}, over: BOOLEAN]
    BY <1>1, <1>2, StaticAssumption DEF StaticAssumption, RequestTypeOK, FileTypeOK, Inodes, Remove, requestVars
  <2> QED
    BY <2>1, <2>2, <2>3, <2>4, <2>5, <2>6, <2>7 DEF RequestTypeOK
<1>4. (handler \in {"last_modified", "conditional_get", "content_type", "body"} => opened # None)'
  BY <1>1, StaticAssumption DEF StaticAssumption, StaticInvariant, FileTypeOK, RequestTypeOK, Remove, requestVars
<1>5. (handler # "routing" => outcome = "none" /\ request.since \in {cached.last_modified, None})'
  BY <1>1 DEF StaticInvariant, RequestTypeOK, Remove, requestVars
<1>6. (~restored => CachedIsDated)'
  BY <1>1, <1>2, <1>3, StaticAssumption
     DEF StaticAssumption, StaticInvariant, CachedIsDated, OpenedIsDated, ToldIsCached, Dates, FileTypeOK, RequestTypeOK, Times, Inodes, Remove, requestVars
<1>7. (~restored => OpenedIsDated)'
  BY <1>1, <1>2, <1>3, StaticAssumption
     DEF StaticAssumption, StaticInvariant, CachedIsDated, OpenedIsDated, ToldIsCached, Dates, FileTypeOK, RequestTypeOK, Times, Inodes, Remove, requestVars
<1>8. (~restored => ToldIsCached)'
  BY <1>1, <1>2, <1>3, StaticAssumption
     DEF StaticAssumption, StaticInvariant, CachedIsDated, OpenedIsDated, ToldIsCached, Dates, FileTypeOK, RequestTypeOK, Times, Inodes, Remove, requestVars
<1>9. NotModifiedIsTrue'
  BY <1>1, <1>2, <1>3, StaticAssumption DEF StaticAssumption, StaticInvariant, NotModifiedIsTrue, ToldIsCached, FileTypeOK, RequestTypeOK, Times, Remove, requestVars
<1> QED
  BY <1>2, <1>3, <1>4, <1>5, <1>6, <1>7, <1>8, <1>9 DEF StaticInvariant

LEMMA TickInvariant ==
    ASSUME StaticInvariant, Tick
    PROVE  StaticInvariant'
<1>1. FileTypeOK /\ RequestTypeOK
  BY DEF StaticInvariant
<1>2. FileTypeOK'
  BY <1>1, StaticAssumption DEF StaticAssumption, FileTypeOK, Inodes, Tick, requestVars
<1>3. RequestTypeOK'
  <2>1. handler' \in {"routing", "open", "last_modified", "conditional_get", "content_type", "body"}
    BY <1>1, <1>2, StaticAssumption DEF StaticAssumption, RequestTypeOK, FileTypeOK, Inodes, Tick, requestVars
  <2>2. request' \in [method: {"GET", "HEAD"}, accept: Accepts \cup {<<>>}, since: Times']
    BY <1>1, <1>2, StaticAssumption DEF StaticAssumption, RequestTypeOK, FileTypeOK, Inodes, Tick, requestVars, Times
  <2>3. opened' \in (1..inodes') \cup {None}
    BY <1>1, <1>2, StaticAssumption DEF StaticAssumption, RequestTypeOK, FileTypeOK, Inodes, Tick, requestVars
  <2>4. headers' \in [last_modified: Times', content_type: Types \cup {None}]
    BY <1>1, <1>2, StaticAssumption DEF StaticAssumption, RequestTypeOK, FileTypeOK, Inodes, Tick, requestVars, Times
  <2>5. outcome' \in {"none", "200", "304", "403", "404", "406", "failure"}
    BY <1>1, <1>2, StaticAssumption DEF StaticAssumption, RequestTypeOK, FileTypeOK, Inodes, Tick, requestVars
  <2>6. cached' \in [content: Nat \cup {None}, last_modified: Times', firm: BOOLEAN]
    BY <1>1, <1>2, StaticAssumption DEF StaticAssumption, RequestTypeOK, FileTypeOK, Inodes, Tick, requestVars, Times
  <2>7. told' \in [inode: (1..inodes') \cup {None}, content: Nat \cup {None}, over: BOOLEAN]
    BY <1>1, <1>2, StaticAssumption DEF StaticAssumption, RequestTypeOK, FileTypeOK, Inodes, Tick, requestVars
  <2> QED
    BY <2>1, <2>2, <2>3, <2>4, <2>5, <2>6, <2>7 DEF RequestTypeOK
<1>4. (handler \in {"last_modified", "conditional_get", "content_type", "body"} => opened # None)'
  BY <1>1, StaticAssumption DEF StaticAssumption, StaticInvariant, FileTypeOK, RequestTypeOK, Tick, requestVars
<1>5. (handler # "routing" => outcome = "none" /\ request.since \in {cached.last_modified, None})'
  BY <1>1 DEF StaticInvariant, RequestTypeOK, Tick, requestVars
<1>6. (~restored => CachedIsDated)'
  BY <1>1, <1>2, <1>3, StaticAssumption
     DEF StaticAssumption, StaticInvariant, CachedIsDated, OpenedIsDated, ToldIsCached, Dates, FileTypeOK, RequestTypeOK, Times, Inodes, Tick, requestVars
<1>7. (~restored => OpenedIsDated)'
  BY <1>1, <1>2, <1>3, StaticAssumption
     DEF StaticAssumption, StaticInvariant, CachedIsDated, OpenedIsDated, ToldIsCached, Dates, FileTypeOK, RequestTypeOK, Times, Inodes, Tick, requestVars
<1>8. (~restored => ToldIsCached)'
  BY <1>1, <1>2, <1>3, StaticAssumption
     DEF StaticAssumption, StaticInvariant, CachedIsDated, OpenedIsDated, ToldIsCached, Dates, FileTypeOK, RequestTypeOK, Times, Inodes, Tick, requestVars
<1>9. NotModifiedIsTrue'
  BY <1>1, <1>2, <1>3, StaticAssumption DEF StaticAssumption, StaticInvariant, NotModifiedIsTrue, ToldIsCached, FileTypeOK, RequestTypeOK, Times, Tick, requestVars
<1> QED
  BY <1>2, <1>3, <1>4, <1>5, <1>6, <1>7, <1>8, <1>9 DEF StaticInvariant

LEMMA RoutingInvariant ==
    ASSUME StaticInvariant, Routing
    PROVE  StaticInvariant'
<1>1. FileTypeOK /\ RequestTypeOK
  BY DEF StaticInvariant
<1>2. FileTypeOK'
  BY <1>1, StaticAssumption DEF StaticAssumption, FileTypeOK, Inodes, Routing, Ends, NoHeaders, fileVars
<1>3. RequestTypeOK'
  <2>1. handler' \in {"routing", "open", "last_modified", "conditional_get", "content_type", "body"}
    BY <1>1, <1>2, StaticAssumption DEF StaticAssumption, RequestTypeOK, FileTypeOK, Inodes, Routing, Ends, NoHeaders, fileVars
  <2>2. request' \in [method: {"GET", "HEAD"}, accept: Accepts \cup {<<>>}, since: Times']
    BY <1>1, <1>2, StaticAssumption DEF StaticAssumption, RequestTypeOK, FileTypeOK, Inodes, Routing, Ends, NoHeaders, fileVars, Times
  <2>3. opened' \in (1..inodes') \cup {None}
    BY <1>1, <1>2, StaticAssumption DEF StaticAssumption, RequestTypeOK, FileTypeOK, Inodes, Routing, Ends, NoHeaders, fileVars
  <2>4. headers' \in [last_modified: Times', content_type: Types \cup {None}]
    BY <1>1, <1>2, StaticAssumption DEF StaticAssumption, RequestTypeOK, FileTypeOK, Inodes, Routing, Ends, NoHeaders, fileVars, Times
  <2>5. outcome' \in {"none", "200", "304", "403", "404", "406", "failure"}
    BY <1>1, <1>2, StaticAssumption DEF StaticAssumption, RequestTypeOK, FileTypeOK, Inodes, Routing, Ends, NoHeaders, fileVars
  <2>6. cached' \in [content: Nat \cup {None}, last_modified: Times', firm: BOOLEAN]
    BY <1>1, <1>2, StaticAssumption DEF StaticAssumption, RequestTypeOK, FileTypeOK, Inodes, Routing, Ends, NoHeaders, fileVars, Times
  <2>7. told' \in [inode: (1..inodes') \cup {None}, content: Nat \cup {None}, over: BOOLEAN]
    BY <1>1, <1>2, StaticAssumption DEF StaticAssumption, RequestTypeOK, FileTypeOK, Inodes, Routing, Ends, NoHeaders, fileVars
  <2> QED
    BY <2>1, <2>2, <2>3, <2>4, <2>5, <2>6, <2>7 DEF RequestTypeOK
<1>4. (handler \in {"last_modified", "conditional_get", "content_type", "body"} => opened # None)'
  BY <1>1, StaticAssumption DEF StaticAssumption, StaticInvariant, FileTypeOK, RequestTypeOK, Routing, Ends, NoHeaders, fileVars
<1>5. (handler # "routing" => outcome = "none" /\ request.since \in {cached.last_modified, None})'
  BY <1>1 DEF StaticInvariant, RequestTypeOK, Routing, Ends, NoHeaders, fileVars
<1>6. (~restored => CachedIsDated)'
  BY <1>1, <1>2, <1>3, StaticAssumption
     DEF StaticAssumption, StaticInvariant, CachedIsDated, OpenedIsDated, ToldIsCached, Dates, FileTypeOK, RequestTypeOK, Times, Inodes, Routing, Ends, NoHeaders, fileVars
<1>7. (~restored => OpenedIsDated)'
  BY <1>1, <1>2, <1>3, StaticAssumption
     DEF StaticAssumption, StaticInvariant, CachedIsDated, OpenedIsDated, ToldIsCached, Dates, FileTypeOK, RequestTypeOK, Times, Inodes, Routing, Ends, NoHeaders, fileVars
<1>8. (~restored => ToldIsCached)'
  BY <1>1, <1>2, <1>3, StaticAssumption
     DEF StaticAssumption, StaticInvariant, CachedIsDated, OpenedIsDated, ToldIsCached, Dates, FileTypeOK, RequestTypeOK, Times, Inodes, Routing, Ends, NoHeaders, fileVars
<1>9. NotModifiedIsTrue'
  BY <1>1, <1>2, <1>3, StaticAssumption DEF StaticAssumption, StaticInvariant, NotModifiedIsTrue, ToldIsCached, FileTypeOK, RequestTypeOK, Times, Routing, Ends, NoHeaders, fileVars
<1> QED
  BY <1>2, <1>3, <1>4, <1>5, <1>6, <1>7, <1>8, <1>9 DEF StaticInvariant

LEMMA OpenInvariant ==
    ASSUME StaticInvariant, Open
    PROVE  StaticInvariant'
<1>1. FileTypeOK /\ RequestTypeOK
  BY DEF StaticInvariant
<1>2. FileTypeOK'
  BY <1>1, StaticAssumption DEF StaticAssumption, FileTypeOK, Inodes, Open, Ends, fileVars
<1>3. RequestTypeOK'
  <2>1. handler' \in {"routing", "open", "last_modified", "conditional_get", "content_type", "body"}
    BY <1>1, <1>2, StaticAssumption DEF StaticAssumption, RequestTypeOK, FileTypeOK, Inodes, Open, Ends, fileVars
  <2>2. request' \in [method: {"GET", "HEAD"}, accept: Accepts \cup {<<>>}, since: Times']
    BY <1>1, <1>2, StaticAssumption DEF StaticAssumption, RequestTypeOK, FileTypeOK, Inodes, Open, Ends, fileVars, Times
  <2>3. opened' \in (1..inodes') \cup {None}
    BY <1>1, <1>2, StaticAssumption DEF StaticAssumption, RequestTypeOK, FileTypeOK, Inodes, Open, Ends, fileVars
  <2>4. headers' \in [last_modified: Times', content_type: Types \cup {None}]
    BY <1>1, <1>2, StaticAssumption DEF StaticAssumption, RequestTypeOK, FileTypeOK, Inodes, Open, Ends, fileVars, Times
  <2>5. outcome' \in {"none", "200", "304", "403", "404", "406", "failure"}
    BY <1>1, <1>2, StaticAssumption DEF StaticAssumption, RequestTypeOK, FileTypeOK, Inodes, Open, Ends, fileVars
  <2>6. cached' \in [content: Nat \cup {None}, last_modified: Times', firm: BOOLEAN]
    BY <1>1, <1>2, StaticAssumption DEF StaticAssumption, RequestTypeOK, FileTypeOK, Inodes, Open, Ends, fileVars, Times
  <2>7. told' \in [inode: (1..inodes') \cup {None}, content: Nat \cup {None}, over: BOOLEAN]
    BY <1>1, <1>2, StaticAssumption DEF StaticAssumption, RequestTypeOK, FileTypeOK, Inodes, Open, Ends, fileVars
  <2> QED
    BY <2>1, <2>2, <2>3, <2>4, <2>5, <2>6, <2>7 DEF RequestTypeOK
<1>4. (handler \in {"last_modified", "conditional_get", "content_type", "body"} => opened # None)'
  BY <1>1, StaticAssumption DEF StaticAssumption, StaticInvariant, FileTypeOK, RequestTypeOK, Open, Ends, fileVars
<1>5. (handler # "routing" => outcome = "none" /\ request.since \in {cached.last_modified, None})'
  BY <1>1 DEF StaticInvariant, RequestTypeOK, Open, Ends, fileVars
<1>6. (~restored => CachedIsDated)'
  BY <1>1, <1>2, <1>3, StaticAssumption
     DEF StaticAssumption, StaticInvariant, CachedIsDated, OpenedIsDated, ToldIsCached, Dates, FileTypeOK, RequestTypeOK, Times, Inodes, Open, Ends, fileVars
<1>7. (~restored => OpenedIsDated)'
  BY <1>1, <1>2, <1>3, StaticAssumption
     DEF StaticAssumption, StaticInvariant, CachedIsDated, OpenedIsDated, ToldIsCached, Dates, FileTypeOK, RequestTypeOK, Times, Inodes, Open, Ends, fileVars
<1>8. (~restored => ToldIsCached)'
  BY <1>1, <1>2, <1>3, StaticAssumption
     DEF StaticAssumption, StaticInvariant, CachedIsDated, OpenedIsDated, ToldIsCached, Dates, FileTypeOK, RequestTypeOK, Times, Inodes, Open, Ends, fileVars
<1>9. NotModifiedIsTrue'
  BY <1>1, <1>2, <1>3, StaticAssumption DEF StaticAssumption, StaticInvariant, NotModifiedIsTrue, ToldIsCached, FileTypeOK, RequestTypeOK, Times, Open, Ends, fileVars
<1> QED
  BY <1>2, <1>3, <1>4, <1>5, <1>6, <1>7, <1>8, <1>9 DEF StaticInvariant

LEMMA LastModifiedInvariant ==
    ASSUME StaticInvariant, LastModified
    PROVE  StaticInvariant'
<1>1. FileTypeOK /\ RequestTypeOK
  BY DEF StaticInvariant
<1>2. FileTypeOK'
  BY <1>1, StaticAssumption DEF StaticAssumption, FileTypeOK, Inodes, LastModified, NotTold, fileVars
<1>3. RequestTypeOK'
  <2>1. handler' \in {"routing", "open", "last_modified", "conditional_get", "content_type", "body"}
    BY <1>1, <1>2, StaticAssumption DEF StaticAssumption, RequestTypeOK, FileTypeOK, Inodes, LastModified, NotTold, fileVars
  <2>2. request' \in [method: {"GET", "HEAD"}, accept: Accepts \cup {<<>>}, since: Times']
    BY <1>1, <1>2, StaticAssumption DEF StaticAssumption, RequestTypeOK, FileTypeOK, Inodes, LastModified, NotTold, fileVars, Times
  <2>3. opened' \in (1..inodes') \cup {None}
    BY <1>1, <1>2, StaticAssumption DEF StaticAssumption, RequestTypeOK, FileTypeOK, Inodes, LastModified, NotTold, fileVars
  <2>4. headers' \in [last_modified: Times', content_type: Types \cup {None}]
    <3>1. headers'.last_modified \in Times' /\ headers' = [headers EXCEPT !.last_modified = headers'.last_modified]
      BY <1>1, StaticAssumption DEF StaticAssumption, RequestTypeOK, FileTypeOK, Inodes, LastModified, fileVars, Times
    <3> QED
      BY <1>1, <3>1 DEF RequestTypeOK
  <2>5. outcome' \in {"none", "200", "304", "403", "404", "406", "failure"}
    BY <1>1, <1>2, StaticAssumption DEF StaticAssumption, RequestTypeOK, FileTypeOK, Inodes, LastModified, NotTold, fileVars
  <2>6. cached' \in [content: Nat \cup {None}, last_modified: Times', firm: BOOLEAN]
    BY <1>1, <1>2, StaticAssumption DEF StaticAssumption, RequestTypeOK, FileTypeOK, Inodes, LastModified, NotTold, fileVars, Times
  <2>7. told' \in [inode: (1..inodes') \cup {None}, content: Nat \cup {None}, over: BOOLEAN]
    BY <1>1, <1>2, StaticAssumption DEF StaticAssumption, RequestTypeOK, FileTypeOK, Inodes, LastModified, NotTold, fileVars
  <2> QED
    BY <2>1, <2>2, <2>3, <2>4, <2>5, <2>6, <2>7 DEF RequestTypeOK
<1>4. (handler \in {"last_modified", "conditional_get", "content_type", "body"} => opened # None)'
  BY <1>1, StaticAssumption DEF StaticAssumption, StaticInvariant, FileTypeOK, RequestTypeOK, LastModified, NotTold, fileVars
<1>5. (handler # "routing" => outcome = "none" /\ request.since \in {cached.last_modified, None})'
  BY <1>1 DEF StaticInvariant, RequestTypeOK, LastModified, NotTold, fileVars
<1>6. (~restored => CachedIsDated)'
  BY <1>1, <1>2, <1>3, StaticAssumption
     DEF StaticAssumption, StaticInvariant, CachedIsDated, OpenedIsDated, ToldIsCached, Dates, FileTypeOK, RequestTypeOK, Times, Inodes, LastModified, NotTold, fileVars
<1>7. (~restored => OpenedIsDated)'
  BY <1>1, <1>2, <1>3, StaticAssumption
     DEF StaticAssumption, StaticInvariant, CachedIsDated, OpenedIsDated, ToldIsCached, Dates, FileTypeOK, RequestTypeOK, Times, Inodes, LastModified, NotTold, fileVars
<1>8. (~restored => ToldIsCached)'
  BY <1>1, <1>2, <1>3, StaticAssumption
     DEF StaticAssumption, StaticInvariant, CachedIsDated, OpenedIsDated, ToldIsCached, Dates, FileTypeOK, RequestTypeOK, Times, Inodes, LastModified, NotTold, fileVars
<1>9. NotModifiedIsTrue'
  BY <1>1, <1>2, <1>3, StaticAssumption DEF StaticAssumption, StaticInvariant, NotModifiedIsTrue, ToldIsCached, FileTypeOK, RequestTypeOK, Times, LastModified, NotTold, fileVars
<1> QED
  BY <1>2, <1>3, <1>4, <1>5, <1>6, <1>7, <1>8, <1>9 DEF StaticInvariant

LEMMA ConditionalGetInvariant ==
    ASSUME StaticInvariant, ConditionalGet
    PROVE  StaticInvariant'
<1>1. FileTypeOK /\ RequestTypeOK
  BY DEF StaticInvariant
<1>2. FileTypeOK'
  BY <1>1, StaticAssumption DEF StaticAssumption, FileTypeOK, Inodes, ConditionalGet, Ends, Unmodified, fileVars
<1>3. RequestTypeOK'
  <2>1. handler' \in {"routing", "open", "last_modified", "conditional_get", "content_type", "body"}
    BY <1>1, <1>2, StaticAssumption DEF StaticAssumption, RequestTypeOK, FileTypeOK, Inodes, ConditionalGet, Ends, Unmodified, fileVars
  <2>2. request' \in [method: {"GET", "HEAD"}, accept: Accepts \cup {<<>>}, since: Times']
    BY <1>1, <1>2, StaticAssumption DEF StaticAssumption, RequestTypeOK, FileTypeOK, Inodes, ConditionalGet, Ends, Unmodified, fileVars, Times
  <2>3. opened' \in (1..inodes') \cup {None}
    BY <1>1, <1>2, StaticAssumption DEF StaticAssumption, RequestTypeOK, FileTypeOK, Inodes, ConditionalGet, Ends, Unmodified, fileVars
  <2>4. headers' \in [last_modified: Times', content_type: Types \cup {None}]
    BY <1>1, <1>2, StaticAssumption DEF StaticAssumption, RequestTypeOK, FileTypeOK, Inodes, ConditionalGet, Ends, Unmodified, fileVars, Times
  <2>5. outcome' \in {"none", "200", "304", "403", "404", "406", "failure"}
    BY <1>1, <1>2, StaticAssumption DEF StaticAssumption, RequestTypeOK, FileTypeOK, Inodes, ConditionalGet, Ends, Unmodified, fileVars
  <2>6. cached' \in [content: Nat \cup {None}, last_modified: Times', firm: BOOLEAN]
    BY <1>1, <1>2, StaticAssumption DEF StaticAssumption, RequestTypeOK, FileTypeOK, Inodes, ConditionalGet, Ends, Unmodified, fileVars, Times
  <2>7. told' \in [inode: (1..inodes') \cup {None}, content: Nat \cup {None}, over: BOOLEAN]
    BY <1>1, <1>2, StaticAssumption DEF StaticAssumption, RequestTypeOK, FileTypeOK, Inodes, ConditionalGet, Ends, Unmodified, fileVars
  <2> QED
    BY <2>1, <2>2, <2>3, <2>4, <2>5, <2>6, <2>7 DEF RequestTypeOK
<1>4. (handler \in {"last_modified", "conditional_get", "content_type", "body"} => opened # None)'
  BY <1>1, StaticAssumption DEF StaticAssumption, StaticInvariant, FileTypeOK, RequestTypeOK, ConditionalGet, Ends, Unmodified, fileVars
<1>5. (handler # "routing" => outcome = "none" /\ request.since \in {cached.last_modified, None})'
  BY <1>1 DEF StaticInvariant, RequestTypeOK, ConditionalGet, Ends, Unmodified, fileVars
<1>6. (~restored => CachedIsDated)'
  BY <1>1, <1>2, <1>3, StaticAssumption
     DEF StaticAssumption, StaticInvariant, CachedIsDated, OpenedIsDated, ToldIsCached, Dates, FileTypeOK, RequestTypeOK, Times, Inodes, ConditionalGet, Ends, Unmodified, fileVars
<1>7. (~restored => OpenedIsDated)'
  BY <1>1, <1>2, <1>3, StaticAssumption
     DEF StaticAssumption, StaticInvariant, CachedIsDated, OpenedIsDated, ToldIsCached, Dates, FileTypeOK, RequestTypeOK, Times, Inodes, ConditionalGet, Ends, Unmodified, fileVars
<1>8. (~restored => ToldIsCached)'
  BY <1>1, <1>2, <1>3, StaticAssumption
     DEF StaticAssumption, StaticInvariant, CachedIsDated, OpenedIsDated, ToldIsCached, Dates, FileTypeOK, RequestTypeOK, Times, Inodes, ConditionalGet, Ends, Unmodified, fileVars
<1>9. NotModifiedIsTrue'
  BY <1>1, <1>2, <1>3, StaticAssumption DEF StaticAssumption, StaticInvariant, NotModifiedIsTrue, ToldIsCached, FileTypeOK, RequestTypeOK, Times, ConditionalGet, Ends, Unmodified, fileVars
<1> QED
  BY <1>2, <1>3, <1>4, <1>5, <1>6, <1>7, <1>8, <1>9 DEF StaticInvariant

LEMMA SetContentTypeInvariant ==
    ASSUME StaticInvariant, SetContentType
    PROVE  StaticInvariant'
<1>1. FileTypeOK /\ RequestTypeOK
  BY DEF StaticInvariant
<1>2. FileTypeOK'
  BY <1>1, StaticAssumption DEF StaticAssumption, FileTypeOK, Inodes, SetContentType, Ends, fileVars
<1>3. RequestTypeOK'
  <2>1. handler' \in {"routing", "open", "last_modified", "conditional_get", "content_type", "body"}
    BY <1>1, <1>2, StaticAssumption DEF StaticAssumption, RequestTypeOK, FileTypeOK, Inodes, SetContentType, Ends, fileVars
  <2>2. request' \in [method: {"GET", "HEAD"}, accept: Accepts \cup {<<>>}, since: Times']
    BY <1>1, <1>2, StaticAssumption DEF StaticAssumption, RequestTypeOK, FileTypeOK, Inodes, SetContentType, Ends, fileVars, Times
  <2>3. opened' \in (1..inodes') \cup {None}
    BY <1>1, <1>2, StaticAssumption DEF StaticAssumption, RequestTypeOK, FileTypeOK, Inodes, SetContentType, Ends, fileVars
  <2>4. headers' \in [last_modified: Times', content_type: Types \cup {None}]
    BY <1>1, <1>2, OffersTypes, StaticAssumption DEF StaticAssumption, RequestTypeOK, FileTypeOK, Inodes, SetContentType, Ends, fileVars, Times
  <2>5. outcome' \in {"none", "200", "304", "403", "404", "406", "failure"}
    BY <1>1, <1>2, StaticAssumption DEF StaticAssumption, RequestTypeOK, FileTypeOK, Inodes, SetContentType, Ends, fileVars
  <2>6. cached' \in [content: Nat \cup {None}, last_modified: Times', firm: BOOLEAN]
    BY <1>1, <1>2, StaticAssumption DEF StaticAssumption, RequestTypeOK, FileTypeOK, Inodes, SetContentType, Ends, fileVars, Times
  <2>7. told' \in [inode: (1..inodes') \cup {None}, content: Nat \cup {None}, over: BOOLEAN]
    BY <1>1, <1>2, StaticAssumption DEF StaticAssumption, RequestTypeOK, FileTypeOK, Inodes, SetContentType, Ends, fileVars
  <2> QED
    BY <2>1, <2>2, <2>3, <2>4, <2>5, <2>6, <2>7 DEF RequestTypeOK
<1>4. (handler \in {"last_modified", "conditional_get", "content_type", "body"} => opened # None)'
  BY <1>1, StaticAssumption DEF StaticAssumption, StaticInvariant, FileTypeOK, RequestTypeOK, SetContentType, Ends, fileVars
<1>5. (handler # "routing" => outcome = "none" /\ request.since \in {cached.last_modified, None})'
  BY <1>1 DEF StaticInvariant, RequestTypeOK, SetContentType, Ends, fileVars
<1>10. UNCHANGED <<opened, cached, told, fileVars>> /\ headers'.last_modified = headers.last_modified
  BY <1>1 DEF SetContentType, RequestTypeOK
<1>11. handler' = "routing" \/ (handler = "content_type" /\ handler' = "body")
  BY DEF SetContentType, Ends
<1>6. (~restored => CachedIsDated)'
  BY <1>10 DEF StaticInvariant, CachedIsDated, Dates, fileVars
<1>7. (~restored => OpenedIsDated)'
  BY <1>10, <1>11 DEF StaticInvariant, OpenedIsDated, Dates, fileVars
<1>8. (~restored => ToldIsCached)'
  BY <1>11 DEF ToldIsCached
<1>9. NotModifiedIsTrue'
  BY <1>1, <1>2, <1>3, StaticAssumption DEF StaticAssumption, StaticInvariant, NotModifiedIsTrue, ToldIsCached, FileTypeOK, RequestTypeOK, Times, SetContentType, Ends, fileVars
<1> QED
  BY <1>2, <1>3, <1>4, <1>5, <1>6, <1>7, <1>8, <1>9 DEF StaticInvariant

LEMMA SendBodyInvariant ==
    ASSUME StaticInvariant, SendBody
    PROVE  StaticInvariant'
<1>1. FileTypeOK /\ RequestTypeOK
  BY DEF StaticInvariant
<1>2. FileTypeOK'
  BY <1>1, StaticAssumption DEF StaticAssumption, FileTypeOK, Inodes, SendBody, Ends, fileVars
<1>3. RequestTypeOK'
  <2>1. handler' \in {"routing", "open", "last_modified", "conditional_get", "content_type", "body"}
    BY <1>1, <1>2, StaticAssumption DEF StaticAssumption, RequestTypeOK, FileTypeOK, Inodes, SendBody, Ends, fileVars
  <2>2. request' \in [method: {"GET", "HEAD"}, accept: Accepts \cup {<<>>}, since: Times']
    BY <1>1, <1>2, StaticAssumption DEF StaticAssumption, RequestTypeOK, FileTypeOK, Inodes, SendBody, Ends, fileVars, Times
  <2>3. opened' \in (1..inodes') \cup {None}
    BY <1>1, <1>2, StaticAssumption DEF StaticAssumption, RequestTypeOK, FileTypeOK, Inodes, SendBody, Ends, fileVars
  <2>4. headers' \in [last_modified: Times', content_type: Types \cup {None}]
    BY <1>1, <1>2, StaticAssumption DEF StaticAssumption, RequestTypeOK, FileTypeOK, Inodes, SendBody, Ends, fileVars, Times
  <2>5. outcome' \in {"none", "200", "304", "403", "404", "406", "failure"}
    BY <1>1, <1>2, StaticAssumption DEF StaticAssumption, RequestTypeOK, FileTypeOK, Inodes, SendBody, Ends, fileVars
  <2>6. cached' \in [content: Nat \cup {None}, last_modified: Times', firm: BOOLEAN]
    <3>1. content[opened] \in Nat /\ Times' = Times
      BY <1>1, StaticAssumption DEF StaticAssumption, StaticInvariant, RequestTypeOK, FileTypeOK, Inodes, SendBody, fileVars, Times
    <3>2. headers.last_modified \in Times /\ (told.inode = opened /\ told.over) \in BOOLEAN
      BY <1>1 DEF RequestTypeOK
    <3> QED
      BY <1>1, <3>1, <3>2 DEF RequestTypeOK, SendBody
  <2>7. told' \in [inode: (1..inodes') \cup {None}, content: Nat \cup {None}, over: BOOLEAN]
    BY <1>1, <1>2, StaticAssumption DEF StaticAssumption, RequestTypeOK, FileTypeOK, Inodes, SendBody, Ends, fileVars
  <2> QED
    BY <2>1, <2>2, <2>3, <2>4, <2>5, <2>6, <2>7 DEF RequestTypeOK
<1>4. (handler \in {"last_modified", "conditional_get", "content_type", "body"} => opened # None)'
  BY <1>1, StaticAssumption DEF StaticAssumption, StaticInvariant, FileTypeOK, RequestTypeOK, SendBody, Ends, fileVars
<1>5. (handler # "routing" => outcome = "none" /\ request.since \in {cached.last_modified, None})'
  BY <1>1 DEF StaticInvariant, RequestTypeOK, SendBody, Ends, fileVars
<1>6. (~restored => CachedIsDated)'
  BY <1>1, <1>2, <1>3, StaticAssumption
     DEF StaticAssumption, StaticInvariant, CachedIsDated, OpenedIsDated, ToldIsCached, Dates, FileTypeOK, RequestTypeOK, Times, Inodes, SendBody, Ends, fileVars
<1>7. (~restored => OpenedIsDated)'
  BY <1>1, <1>2, <1>3, StaticAssumption
     DEF StaticAssumption, StaticInvariant, CachedIsDated, OpenedIsDated, ToldIsCached, Dates, FileTypeOK, RequestTypeOK, Times, Inodes, SendBody, Ends, fileVars
<1>8. (~restored => ToldIsCached)'
  BY <1>1, <1>2, <1>3, StaticAssumption
     DEF StaticAssumption, StaticInvariant, CachedIsDated, OpenedIsDated, ToldIsCached, Dates, FileTypeOK, RequestTypeOK, Times, Inodes, SendBody, Ends, fileVars
<1>9. NotModifiedIsTrue'
  BY <1>1, <1>2, <1>3, StaticAssumption DEF StaticAssumption, StaticInvariant, NotModifiedIsTrue, ToldIsCached, FileTypeOK, RequestTypeOK, Times, SendBody, Ends, fileVars
<1> QED
  BY <1>2, <1>3, <1>4, <1>5, <1>6, <1>7, <1>8, <1>9 DEF StaticInvariant

\* The inductive invariant of a file that is served while others change it.
THEOREM StaticIsSound == Spec => []StaticInvariant
<1>1. ASSUME StaticInvariant, [Next]_vars PROVE StaticInvariant'
  <2>1. CASE UNCHANGED vars
    BY <1>1, <2>1 DEF StaticInvariant, FileTypeOK, RequestTypeOK, Times, CachedIsDated, OpenedIsDated, ToldIsCached, Dates,
           NotModifiedIsTrue, vars, fileVars, requestVars
  <2> QED
    BY <1>1, <2>1, ReplaceInvariant, OverwriteInvariant, RemoveInvariant, TickInvariant, RoutingInvariant, OpenInvariant, LastModifiedInvariant, ConditionalGetInvariant, SetContentTypeInvariant, SendBodyInvariant
       DEF Next
<1> QED
  BY <1>1, InitInvariant, PTL DEF Spec

\* Nobody is told "not modified" of a file that was, as NotModifiedIsTrue says.
THEOREM NotModifiedHolds == Spec => []NotModifiedIsTrue
<1>1. StaticInvariant => NotModifiedIsTrue
  BY DEF StaticInvariant
<1> QED
  BY <1>1, StaticIsSound, PTL

-----------------------------------------------------------------------------
(* What is negotiated *)

\* The library's well-founded order of the natural numbers, without the
\* operator it is stated with: a set of numbers that has one has a least one.
NatLess == {ss \in Nat \X Nat : ss[1] < ss[2]}

LEMMA NatLessIsWellFounded == IsWellFoundedOn(NatLess, Nat)
BY NatLessThanWellFounded DEF OpToRel, NatLess

LEMMA LeastNumber ==
    ASSUME NEW S, S \subseteq Nat, S # {}
    PROVE  \E i \in S : \A j \in S : i <= j
<1>1. PICK i \in S : \A j \in S : ~(<<j, i>> \in NatLess)
  BY NatLessIsWellFounded, WFMin
<1>2. ASSUME NEW j \in S PROVE i <= j
  <2>1. i \in Nat /\ j \in Nat
    OBVIOUS
  <2>2. j < i => <<j, i>> \in NatLess
    BY <2>1 DEF NatLess
  <2> QED
    BY <1>1, <2>1, <2>2
<1> QED
  BY <1>2

\* If any of the types is good there is a first one.
LEMMA FirstExists ==
    ASSUME NEW seq, seq \in Seq(Range(seq)), NEW good, NEW m \in Range(seq), m \in good
    PROVE  First(seq, good) # {}
<1> DEFINE Good == {j \in DOMAIN seq : seq[j] \in good}
<1>1. Len(seq) \in Nat /\ DOMAIN seq = 1..Len(seq)
  BY LenProperties
<1>2. Good # {} /\ Good \subseteq Nat
  BY <1>1 DEF Range
<1>3. PICK i \in Good : \A j \in Good : i <= j
  <2> HIDE DEF Good
  <2> QED
    BY <1>2, LeastNumber
<1>4. \A k \in 1..(i - 1) : seq[k] \notin good
  BY <1>1, <1>3
<1> QED
  BY <1>3, <1>4 DEF First

\* What is first is one of the good types.
LEMMA FirstIsGood ==
    ASSUME NEW seq, NEW good, NEW m \in First(seq, good)
    PROVE  m \in Range(seq) /\ m \in good
BY DEF First, Range

LEMMA AcceptsAreFunctions ==
    ASSUME NEW accept \in Accepts
    PROVE  /\ accept \in [DOMAIN accept -> {0, 1}]
           /\ \A r \in DOMAIN accept : r = <<r[1], r[2]>>
BY StaticAssumption DEF StaticAssumption

\* Nothing is negotiated: every type is refused, by itself or by its ranges.
LEMMA NothingNegotiated ==
    ASSUME NEW accept \in Accepts, NEW seq, seq \in Seq(Range(seq)), accept # <<>>,
           Negotiate(accept, seq) = {}, NEW m \in Range(seq)
    PROVE  ~Accepted(accept, m)
<1>1. First(seq, Acceptable(accept, seq, 0)) = {} /\ Wildcards(accept, seq) = {}
  BY DEF Negotiate
<1>2. m \notin Acceptable(accept, seq, 0)
  BY <1>1, FirstExists
<1>3. Quality(accept, m, 0) = 0
  BY <1>2 DEF Acceptable
<1>4. CASE m \in DOMAIN accept
  BY <1>3, <1>4 DEF Accepted, Quality
<1>5. CASE m \notin DOMAIN accept
  <2>1. ASSUME NEW r \in DOMAIN accept, r[2] = "*" PROVE r[1] \notin {"*", m[1]}
    <3> DEFINE good == {t \in Acceptable(accept, seq, 1) : r[1] \in {"*", t[1]}}
    <3>1. First(seq, good) = {}
      BY <1>1, <2>1 DEF Wildcards
    <3>2. m \notin good
      <4> HIDE DEF good
      <4> QED
        BY <3>1, FirstExists
    <3>3. m \in Acceptable(accept, seq, 1)
      BY <1>5 DEF Acceptable, Quality
    <3> QED
      BY <3>2, <3>3
  <2>2. <<m[1], "*">> \notin DOMAIN accept
    <3>1. <<m[1], "*">>[1] = m[1] /\ <<m[1], "*">>[2] = "*"
      OBVIOUS
    <3> QED
      BY <2>1, <3>1
  <2>3. <<"*", "*">> \notin DOMAIN accept
    <3>1. <<"*", "*">>[1] = "*" /\ <<"*", "*">>[2] = "*"
      OBVIOUS
    <3> QED
      BY <2>1, <3>1
  <2> QED
    BY <1>5, <2>2, <2>3 DEF Accepted, Quality
<1> QED
  BY <1>4, <1>5

\* What is negotiated is accepted, by itself or by a range with a wildcard, if
\* none of these is refused.
LEMMA NegotiatedIsAccepted ==
    ASSUME NEW accept \in Accepts, NEW seq, accept # <<>>,
           \A r \in DOMAIN accept : r[2] = "*" => accept[r] # 0,
           NEW m \in Negotiate(accept, seq)
    PROVE  Accepted(accept, m)
<1>1. CASE m \in First(seq, Acceptable(accept, seq, 0))
  <2>1. Quality(accept, m, 0) # 0
    BY <1>1, FirstIsGood DEF Acceptable
  <2> QED
    BY <2>1 DEF Accepted, Quality
<1>2. CASE m \in Wildcards(accept, seq)
  <2>1. PICK r \in DOMAIN accept :
            /\ r[2] = "*"
            /\ m \in First(seq, {t \in Acceptable(accept, seq, 1) : r[1] \in {"*", t[1]}})
    BY <1>2 DEF Wildcards
  <2>2. r[1] \in {"*", m[1]}
    BY <2>1, FirstIsGood
  <2>3. r = <<"*", "*">> \/ r = <<m[1], "*">>
    BY <2>1, <2>2, AcceptsAreFunctions
  <2>4. Quality(accept, m, 1) # 0
    BY <2>1, FirstIsGood DEF Acceptable
  <2>5. <<m[1], "*">>[2] = "*"
    OBVIOUS
  <2>6. <<m[1], "*">> \in DOMAIN accept => accept[<<m[1], "*">>] # 0
    BY <2>5
  <2>7. <<"*", "*">> \in DOMAIN accept => accept[<<"*", "*">>] # 0
    OBVIOUS
  <2> QED
    BY <2>1, <2>3, <2>4, <2>6, <2>7 DEF Accepted, Quality
<1> QED
  BY <1>1, <1>2 DEF Negotiate

Offers(method) == IF method = "GET" THEN {FileType} ELSE Range(Available)

\* No type is chosen only if no type that is offered is accepted, or a GET whose
\* type no extension tells does not accept anything.
LEMMA RefusedIsUnacceptable ==
    ASSUME NEW method, NEW accept \in Accepts \cup {<<>>}, NEW named,
           ContentType(method, accept, named) = {}, NEW m \in Offers(method) \ {None}
    PROVE  \/ ~Accepted(accept, m)
           \/ method = "GET" /\ ~named /\ <<"*", "*">> \notin DOMAIN accept
<1>1. CASE method = "GET" /\ named
  <2>1. /\ m = FileType /\ accept # <<>>
        /\ FileType \notin DOMAIN accept /\ <<FileType[1], "*">> \notin DOMAIN accept
        /\ <<"*", "*">> \notin DOMAIN accept
    BY <1>1 DEF ContentType, Offers, Looked
  <2> QED
    BY <2>1 DEF Accepted, Quality
<1>0. CASE method = "GET" /\ ~named
  BY <1>0 DEF ContentType, Offers, Looked
<1>2. CASE method # "GET"
  <2>1. /\ Negotiate(accept, Available) = {} /\ m \in Range(Available)
        /\ Available \in Seq(Range(Available))
    BY <1>2, StaticAssumption DEF ContentType, Offers, StaticAssumption
  <2>2. CASE accept # <<>>
    BY <2>1, <2>2, NothingNegotiated
  <2>3. CASE accept = <<>>
    <3> DEFINE any == [r \in {<<"*", "*">>} |-> 1]
               good == {t \in Acceptable(any, Available, 1) : <<"*", "*">>[1] \in {"*", t[1]}}
    <3>1. Wildcards(any, Available) = {}
      BY <2>1, <2>3 DEF Negotiate
    <3>2. <<"*", "*">> \in DOMAIN any /\ <<"*", "*">>[2] = "*" /\ <<"*", "*">>[1] = "*"
      OBVIOUS
    <3>3. First(Available, good) = {}
      BY <3>1, <3>2 DEF Wildcards
    <3>4. m \in Acceptable(any, Available, 1)
      BY <2>1 DEF Acceptable, Quality
    <3>5. m \in good
      BY <3>2, <3>4
    <3> HIDE DEF good
    <3> QED
      BY <2>1, <3>3, <3>5, FirstExists
  <2> QED
    BY <2>2, <2>3
<1> QED
  BY <1>0, <1>1, <1>2

\* A type that is chosen is accepted, unless a range that refuses it is ignored.
LEMMA ChosenIsAcceptable ==
    ASSUME NEW method, NEW accept \in Accepts \cup {<<>>}, NEW named,
           NEW m \in ContentType(method, accept, named),
           \A r \in DOMAIN accept : accept[r] = 0 => method # "GET" /\ r[2] # "*"
    PROVE  Accepted(accept, m)
<1>1. CASE accept = <<>>
  BY <1>1 DEF Accepted
<1>2. CASE accept # <<>> /\ method = "GET"
  <2>1. /\ m = FileType
        /\ DOMAIN accept \intersect {FileType, <<FileType[1], "*">>, <<"*", "*">>} # {}
    BY <1>2 DEF ContentType, Looked
  <2> QED
    BY <1>2, <2>1 DEF Accepted, Quality
<1>3. CASE accept # <<>> /\ method # "GET"
  BY <1>3, NegotiatedIsAccepted DEF ContentType
<1> QED
  BY <1>1, <1>2, <1>3

\* The request is refused because nothing is chosen; otherwise it is answered
\* with the type that was.
NegotiationInvariant ==
    /\ outcome = "406" => ContentType(request.method, request.accept, extension) = {}
    /\ handler = "body" \/ outcome = "200" =>
          headers.content_type \in ContentType(request.method, request.accept, extension)

\* The handlers of a request before the negotiation choose no type.
LEMMA OthersKeepNegotiation ==
    ASSUME StaticInvariant, NegotiationInvariant,
           \/ Replace \/ Overwrite \/ Remove \/ Tick
           \/ Routing \/ Open \/ LastModified \/ ConditionalGet
    PROVE  NegotiationInvariant'
<1>1. handler # "routing" => outcome = "none"
  BY DEF StaticInvariant
<1>2. CASE Replace \/ Overwrite \/ Remove \/ Tick
  BY <1>2 DEF NegotiationInvariant, Replace, Overwrite, Remove, Tick, requestVars
<1>3. CASE Routing
  BY <1>3 DEF NegotiationInvariant, Routing, Ends, fileVars
<1>4. CASE Open \/ LastModified \/ ConditionalGet
  BY <1>1, <1>4 DEF NegotiationInvariant, Open, LastModified, ConditionalGet, Ends, fileVars
<1> QED
  BY <1>2, <1>3, <1>4

LEMMA SetContentTypeKeepsNegotiation ==
    ASSUME StaticInvariant, NegotiationInvariant, SetContentType
    PROVE  NegotiationInvariant'
<1>1. outcome = "none" /\ RequestTypeOK
  BY DEF StaticInvariant, SetContentType
<1>2. request' = request /\ extension' = extension
  BY DEF SetContentType, fileVars
<1>3. CASE ContentType(request.method, request.accept, extension) = {} /\ Ends("406")
  BY <1>2, <1>3 DEF NegotiationInvariant, Ends
<1>4. CASE \E type \in ContentType(request.method, request.accept, extension) :
             /\ headers' = [headers EXCEPT !.content_type = type]
             /\ handler' = "body" /\ UNCHANGED outcome
  <2>1. headers'.content_type \in ContentType(request.method, request.accept, extension)
    BY <1>1, <1>4 DEF RequestTypeOK
  <2> QED
    BY <1>1, <1>2, <1>4, <2>1 DEF NegotiationInvariant
<1> QED
  BY <1>3, <1>4 DEF SetContentType

LEMMA SendBodyKeepsNegotiation ==
    ASSUME NegotiationInvariant, SendBody
    PROVE  NegotiationInvariant'
BY DEF NegotiationInvariant, SendBody, Ends, fileVars

\* For every Accept header and every list of types: 406 is answered only if
\* nothing that is offered is acceptable, but to a GET of a file without an
\* extension, which has to accept anything; and what is sent is acceptable, but
\* to a GET that refuses a range and another method that refuses one with a
\* wildcard (static.py content_type, method.py content_type_negotiation).
THEOREM NegotiationHolds == Spec => []NegotiationIsRight
<1>1. Init => NegotiationInvariant
  BY DEF Init, NegotiationInvariant
<1>2. ASSUME StaticInvariant, NegotiationInvariant, [Next]_vars PROVE NegotiationInvariant'
  <2>1. CASE UNCHANGED vars
    BY <1>2, <2>1 DEF vars, fileVars, requestVars, NegotiationInvariant
  <2> QED
    BY <1>2, <2>1, OthersKeepNegotiation, SetContentTypeKeepsNegotiation,
       SendBodyKeepsNegotiation DEF Next
<1>3. ASSUME StaticInvariant, NegotiationInvariant PROVE NegotiationIsRight
  <2>1. request.accept \in Accepts \cup {<<>>}
    BY <1>3 DEF StaticInvariant, RequestTypeOK
  <2>2. Offered = Offers(request.method)
    BY DEF Offered, Offers
  <2> QED
    <3>1. ASSUME outcome = "406", NEW m \in Offered \ {None}
          PROVE  \/ ~Accepted(request.accept, m)
                 \/ request.method = "GET" /\ ~extension /\ <<"*", "*">> \notin DOMAIN request.accept
      BY <1>3, <2>1, <2>2, <3>1, RefusedIsUnacceptable DEF NegotiationInvariant
    <3>2. ASSUME outcome = "200", Ignored = {}
          PROVE  Accepted(request.accept, headers.content_type)
      BY <1>3, <2>1, <3>2, ChosenIsAcceptable DEF NegotiationInvariant, Ignored
    <3> QED
      BY <3>1, <3>2 DEF NegotiationIsRight
<1> QED
  BY <1>1, <1>2, <1>3, StaticIsSound, PTL DEF Spec

=============================================================================
