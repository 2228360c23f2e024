--------------------------- MODULE RoutingProofs ---------------------------
(***************************************************************************)
(* Routing for any domains, resources and trees of them, any number of     *)
(* clients and any changes of the tree: the routers' sets follow the tree  *)
(* (RegistryIsTheTree), requests are routed within their domain            *)
(* (RoutedWithinTheDomain), who is called is meant (CalledByTheTemplate,   *)
(* CalledAsTheTemplateSays), and nobody is refused what has been there all *)
(* the time, neither a host (NoKnownHostRefused) nor a path, unless the    *)
(* resource has declined it (NothingMatchingRefused,                       *)
(* NothingStandingRefused).                                                *)
(*                                                                         *)
(* InTree, DomainOf, the paths that are built and the children that are    *)
(* reached are recursive functions over the parents, which have no cycle   *)
(* (RoutingAssumption).  That they are what their equations say follows    *)
(* from RecursionExists (InTreeEquation, proved first, has the same        *)
(* argument); what holds of all resources is shown by the topmost of those *)
(* of which it does not.                                                   *)
(*                                                                         *)
(* What the queue says of the tree is stated of the queue, the attached    *)
(* components and one component as parameters (Told, Follows), so that the *)
(* steps are lemmas about sequences.                                       *)
(***************************************************************************)
EXTENDS Routing, SequenceTheorems, FiniteSetTheorems, WellFoundedInduction, TLAPS

\* The parents of a tree have no cycle, and a component that is there from the
\* start is so with its parent.
LEMMA TreeFacts ==
    ASSUME tree \in Trees
    PROVE  /\ tree.parent \in [Resources -> Components]
           /\ \A S \in SUBSET Resources : S # {} => \E r \in S : tree.parent[r] \notin S
           /\ \A r \in Resources \intersect Initially : tree.parent[r] \in Initially
BY RoutingAssumption DEF RoutingAssumption

\* f satisfies the equation of InTree.
InTreeIs(f) ==
    f = [x \in Components |-> x \in attached /\ ((x \in Resources) => f[tree.parent[x]])]

\* There is such a function: a component is in the tree if it belongs to a set
\* of attached components that has the parents of its resources.
LEMMA InTreeExists ==
    ASSUME tree \in Trees
    PROVE  \E f : InTreeIs(f)
<1> DEFINE Closed(S) == S \subseteq attached /\ \A r \in S \intersect Resources : tree.parent[r] \in S
           f == [x \in Components |-> \E S \in SUBSET Components : x \in S /\ Closed(S)]
<1>1. tree.parent \in [Resources -> Components]
  BY TreeFacts
<1>2. ASSUME NEW x \in Components
      PROVE  f[x] = (x \in attached /\ ((x \in Resources) => f[tree.parent[x]]))
  <2>1. ASSUME f[x] PROVE x \in attached /\ ((x \in Resources) => f[tree.parent[x]])
    <3>1. PICK S \in SUBSET Components : x \in S /\ Closed(S)
      BY <2>1
    <3>2. (x \in Resources) => tree.parent[x] \in S
      BY <3>1
    <3> QED
      BY <1>1, <3>1, <3>2
  <2>2. ASSUME x \in attached, (x \in Resources) => f[tree.parent[x]] PROVE f[x]
    <3>1. CASE x \in Resources
      <4>1. PICK S \in SUBSET Components : tree.parent[x] \in S /\ Closed(S)
        BY <1>1, <2>2, <3>1
      <4>2. Closed(S \cup {x})
        BY <2>2, <4>1
      <4>3. S \cup {x} \in SUBSET Components
        OBVIOUS
      <4> QED
        BY <4>2, <4>3
    <3>2. CASE x \notin Resources
      <4>1. Closed({x}) /\ {x} \in SUBSET Components
        BY <2>2, <3>2
      <4> QED
        BY <4>1
    <3> QED
      BY <3>1, <3>2
  <2> QED
    BY <2>1, <2>2
<1>3. InTreeIs(f)
  BY <1>2 DEF InTreeIs
<1> QED
  BY <1>3

\* So InTree is one.
LEMMA InTreeEquation ==
    ASSUME tree \in Trees
    PROVE  \A x \in Components :
             InTree[x] <=> x \in attached /\ ((x \in Resources) => InTree[tree.parent[x]])
<1>1. InTree = CHOOSE f : InTreeIs(f)
  BY DEF InTree, InTreeIs
<1>2. InTreeIs(InTree)
  BY <1>1, InTreeExists
<1> QED
  BY <1>2 DEF InTreeIs

\* And so it is behind a step.
LEMMA InTreeEquationNext ==
    ASSUME tree' \in Trees
    PROVE  \A x \in Components :
             InTree'[x] <=> x \in attached' /\ ((x \in Resources) => InTree'[tree'.parent[x]])
<1>1. tree' \in Trees => \A x \in Components :
             InTree'[x] <=> x \in attached' /\ ((x \in Resources) => InTree'[tree'.parent[x]])
  <2>1. (tree \in Trees => \A x \in Components :
             InTree[x] <=> x \in attached /\ ((x \in Resources) => InTree[tree.parent[x]]))'
    BY InTreeEquation, PTL
  <2> QED
    BY <2>1
<1> QED
  BY <1>1

\* The domain of a resource is a matter of the tree alone.
LEMMA DomainOfStays == ASSUME tree' = tree PROVE DomainOf' = DomainOf
BY DEF DomainOf

\* InTree is one of what is attached, too.
LEMMA InTreeStays == ASSUME tree' = tree, attached' = attached PROVE InTree' = InTree
BY DEF InTree

-----------------------------------------------------------------------------
(* The queue *)

\* The queue has such an event.
Has(q, name, x) == \E i \in 1..Len(q) : q[i] = Event(name, x)

TreeEvents == {"registered", "unregistered"}

\* The first event is taken from q, which becomes p: what the components are
\* told by the others stays, in its order.
Taken(q, p) ==
    /\ Len(q) \in Nat \ {0} /\ Len(p) \in Nat
    /\ \A i \in 2..Len(q) : i - 1 \in 1..Len(p) /\ p[i - 1] = q[i]
    /\ \A i \in 1..Len(p) : p[i].name \in TreeEvents =>
          i + 1 \in 2..Len(q) /\ p[i] = q[i + 1]

\* An event is taken and nothing fired.
LEMMA TakenTail ==
    ASSUME NEW T, NEW q \in Seq(T), q # <<>>
    PROVE  /\ Head(q) = q[1] /\ Head(q) \in T
           /\ Tail(q) \o <<>> \in Seq(T) /\ Taken(q, Tail(q) \o <<>>)
           /\ \A i \in 1..Len(Tail(q) \o <<>>) :
                 i + 1 \in 1..Len(q) /\ (Tail(q) \o <<>>)[i] = q[i + 1]
<1>1. Tail(q) \o <<>> = Tail(q)
  BY HeadTailProperties, ConcatEmptySeq
<1>2. /\ Tail(q) \in Seq(T) /\ Len(Tail(q)) = Len(q) - 1
      /\ \A i \in 1..Len(Tail(q)) : Tail(q)[i] = q[i + 1]
      /\ Len(q) \in Nat \ {0} /\ Head(q) = q[1] /\ Head(q) \in T
  BY HeadTailProperties, LenProperties, EmptySeq, ElementOfSeq
<1>3. \A i \in 2..Len(q) : i - 1 \in 1..Len(Tail(q)) /\ Tail(q)[i - 1] = q[(i - 1) + 1]
  BY <1>2
<1>4. \A i \in 2..Len(q) : (i - 1) + 1 = i
  BY <1>2
<1> QED
  BY <1>1, <1>2, <1>3, <1>4 DEF Taken

\* An event is taken and one is fired that is not about the tree.
LEMMA TakenAndFired ==
    ASSUME NEW T, NEW q \in Seq(T), q # <<>>, NEW e \in T, e.name \notin TreeEvents
    PROVE  /\ Tail(q) \o <<e>> \in Seq(T) /\ Taken(q, Tail(q) \o <<e>>)
           /\ \A i \in 1..Len(Tail(q) \o <<e>>) :
                 \/ i + 1 \in 1..Len(q) /\ (Tail(q) \o <<e>>)[i] = q[i + 1]
                 \/ i = Len(q) /\ (Tail(q) \o <<e>>)[i] = e
<1> DEFINE rest == Tail(q)
           last == <<e>>
           p == rest \o last
<1>1. /\ rest \in Seq(T) /\ Len(rest) = Len(q) - 1
      /\ last \in Seq(T) /\ Len(last) = 1 /\ last[1] = e
      /\ \A i \in 1..Len(rest) : rest[i] = q[i + 1]
      /\ Len(q) \in Nat \ {0}
  BY HeadTailProperties, LenProperties, EmptySeq
<1> HIDE DEF rest, last
<1>2. /\ p \in Seq(T) /\ Len(p) = Len(rest) + 1
      /\ \A i \in 1..Len(p) : p[i] = IF i <= Len(rest) THEN rest[i] ELSE last[i - Len(rest)]
  <2>1. /\ p \in Seq(T) /\ Len(p) = Len(rest) + Len(last)
        /\ \A i \in 1..Len(rest) + Len(last) :
              p[i] = IF i <= Len(rest) THEN rest[i] ELSE last[i - Len(rest)]
    BY <1>1, ConcatProperties
  <2> HIDE DEF p
  <2> QED
    BY <1>1, <2>1
<1> HIDE DEF p
<1>3. ASSUME NEW i \in 1..Len(p)
      PROVE  (i + 1 \in 2..Len(q) /\ p[i] = q[i + 1]) \/ (i = Len(q) /\ p[i] = e)
  <2>1. CASE i <= Len(rest)
    BY <1>1, <1>2, <2>1
  <2>2. CASE ~(i <= Len(rest))
    <3>1. i = Len(q) /\ i - Len(rest) = 1
      BY <1>1, <1>2, <2>2
    <3> QED
      BY <1>1, <1>2, <2>2, <3>1
  <2> QED
    BY <2>1, <2>2
<1>4. ASSUME NEW i \in 2..Len(q) PROVE i - 1 \in 1..Len(p) /\ p[i - 1] = q[i]
  <2>1. i - 1 \in 1..Len(p) /\ i - 1 # Len(q) /\ (i - 1) + 1 = i
    BY <1>1, <1>2
  <2> QED
    BY <1>3, <2>1
<1>5. Taken(q, p) /\ p \in Seq(T)
  BY <1>1, <1>2, <1>3, <1>4 DEF Taken
<1>6. \A i \in 1..Len(p) : (i + 1 \in 1..Len(q) /\ p[i] = q[i + 1]) \/ (i = Len(q) /\ p[i] = e)
  BY <1>1, <1>3
<1> QED
  BY <1>5, <1>6 DEF p, rest, last

\* What Append does to a sequence, by its indices
LEMMA Appended ==
    ASSUME NEW T, NEW q \in Seq(T), NEW e \in T
    PROVE  /\ Append(q, e) \in Seq(T) /\ Len(q) \in Nat /\ Len(Append(q, e)) = Len(q) + 1
           /\ \A i \in 1..Len(q) : Append(q, e)[i] = q[i]
           /\ Append(q, e)[Len(q) + 1] = e
BY AppendProperties, LenProperties

-----------------------------------------------------------------------------
(* What the components will have been told *)

\* A component that is attached is not told to leave, and one that has left is
\* told so behind all that it has come.
Told(q, att, x) ==
    /\ x \in att => ~Has(q, "unregistered", x)
    /\ x \notin att => \A i \in 1..Len(q) : q[i] = Event("registered", x) =>
                          \E j \in i+1..Len(q) : q[j] = Event("unregistered", x)

\* A set that has x or not, by isin, will have it when the events are handled
\* if it is attached.
Follows(q, att, x, isin) ==
    /\ x \in att => isin \/ Has(q, "registered", x)
    /\ x \notin att /\ isin => Has(q, "unregistered", x)

\* Told does not mind that an event is taken.
LEMMA TakenTold ==
    ASSUME NEW q, NEW p, Taken(q, p), NEW att, NEW x, Told(q, att, x)
    PROVE  Told(p, att, x)
<1>1. ASSUME NEW n \in TreeEvents, NEW i \in 1..Len(p), p[i] = Event(n, x)
      PROVE  i + 1 \in 2..Len(q) /\ q[i + 1] = Event(n, x)
  BY <1>1 DEF Taken, Event
<1>2. CASE x \in att
  BY <1>1, <1>2 DEF Told, Has, TreeEvents, Taken
<1>3. CASE x \notin att
  <2>1. ASSUME NEW i \in 1..Len(p), p[i] = Event("registered", x)
        PROVE  \E j \in i+1..Len(p) : p[j] = Event("unregistered", x)
    <3>1. i + 1 \in 1..Len(q) /\ q[i + 1] = Event("registered", x)
      BY <1>1, <2>1 DEF TreeEvents, Taken
    <3>2. PICK j \in (i + 1)+1..Len(q) : q[j] = Event("unregistered", x)
      BY <1>3, <3>1 DEF Told
    <3>3. j - 1 \in i+1..Len(p) /\ p[j - 1] = q[j]
      BY <3>2 DEF Taken
    <3> QED
      BY <3>2, <3>3
  <2> QED
    BY <1>3, <2>1 DEF Told
<1> QED
  BY <1>2, <1>3

\* The handlers of an event keep up with it.
LEMMA TakenFollows ==
    ASSUME NEW q, NEW p, Taken(q, p), NEW att, NEW x, Told(q, att, x),
           NEW s, NEW s1, Follows(q, att, x, x \in s),
           q[1] = Event("registered", x) => x \in s1,
           q[1] = Event("unregistered", x) => x \notin s1,
           q[1] \notin {Event("registered", x), Event("unregistered", x)}
              => (x \in s1 <=> x \in s)
    PROVE  Follows(p, att, x, x \in s1)
<1>1. ASSUME NEW n, Has(q, n, x), q[1] # Event(n, x) PROVE Has(p, n, x)
  <2>1. PICK i \in 1..Len(q) : q[i] = Event(n, x)
    BY <1>1 DEF Has
  <2>2. i \in 2..Len(q)
    BY <1>1, <2>1 DEF Taken
  <2> QED
    BY <2>1, <2>2 DEF Has, Taken
<1>2. Event("registered", x) # Event("unregistered", x)
  BY DEF Event
<1>3. 1 \in 1..Len(q)
  BY DEF Taken
<1>4. CASE q[1] = Event("registered", x)
  <2>1. x \notin att => \E j \in 1+1..Len(q) : q[j] = Event("unregistered", x)
    BY <1>3, <1>4 DEF Told
  <2>2. x \notin att => Has(q, "unregistered", x)
    BY <2>1 DEF Has, Taken
  <2> QED
    BY <1>1, <1>2, <1>4, <2>2 DEF Follows
<1>5. CASE q[1] = Event("unregistered", x)
  <2>1. x \notin att
    BY <1>3, <1>5 DEF Told, Has
  <2> QED
    BY <1>5, <2>1 DEF Follows
<1>6. CASE q[1] \notin {Event("registered", x), Event("unregistered", x)}
  BY <1>1, <1>6 DEF Follows
<1> QED
  BY <1>4, <1>5, <1>6

\* An event about something else, or no news of the tree.
LEMMA AppendedTold ==
    ASSUME NEW T, NEW q \in Seq(T), NEW e \in T, NEW att, NEW x,
           e # Event("registered", x), e # Event("unregistered", x)
    PROVE  /\ \A n \in TreeEvents : Has(Append(q, e), n, x) <=> Has(q, n, x)
           /\ Told(q, att, x) => Told(Append(q, e), att, x)
           /\ \A s : Follows(q, att, x, x \in s) => Follows(Append(q, e), att, x, x \in s)
<1> DEFINE p == Append(q, e)
<1>1. /\ Len(q) \in Nat /\ Len(p) = Len(q) + 1
      /\ \A i \in 1..Len(q) : p[i] = q[i]
      /\ p[Len(q) + 1] = e
  BY Appended
<1> HIDE DEF p
<1>2. \A n \in TreeEvents : Has(p, n, x) <=> Has(q, n, x)
  <2>1. ASSUME NEW n \in TreeEvents, Has(q, n, x) PROVE Has(p, n, x)
    BY <1>1, <2>1 DEF Has
  <2>2. ASSUME NEW n \in TreeEvents, Has(p, n, x) PROVE Has(q, n, x)
    <3>1. PICK i \in 1..Len(p) : p[i] = Event(n, x)
      BY <2>2 DEF Has
    <3>2. i # Len(q) + 1
      BY <1>1, <2>2, <3>1 DEF TreeEvents
    <3>3. i \in 1..Len(q)
      BY <1>1, <3>2
    <3> QED
      BY <1>1, <3>1, <3>3 DEF Has
  <2> QED
    BY <2>1, <2>2
<1>3. Told(q, att, x) => Told(p, att, x)
  <2>1. SUFFICES ASSUME Told(q, att, x), x \notin att, NEW i \in 1..Len(p),
                        p[i] = Event("registered", x)
                 PROVE  \E j \in i+1..Len(p) : p[j] = Event("unregistered", x)
    BY <1>2 DEF Told, TreeEvents
  <2>2. i \in 1..Len(q) /\ q[i] = Event("registered", x)
    BY <1>1, <2>1
  <2>3. PICK j \in i+1..Len(q) : q[j] = Event("unregistered", x)
    BY <2>1, <2>2 DEF Told
  <2> QED
    BY <1>1, <2>2, <2>3
<1>4. \A s : Follows(q, att, x, x \in s) => Follows(p, att, x, x \in s)
  BY <1>2 DEF Follows, TreeEvents
<1> QED
  BY <1>2, <1>3, <1>4 DEF p

\* Nothing is said that has not been.
LEMMA TakenHas ==
    ASSUME NEW q, NEW p, Taken(q, p), NEW n \in TreeEvents, NEW x, Has(p, n, x)
    PROVE  Has(q, n, x)
<1>1. PICK i \in 1..Len(p) : p[i] = Event(n, x)
  BY DEF Has
<1>2. i + 1 \in 1..Len(q) /\ q[i + 1] = Event(n, x)
  BY <1>1 DEF Taken, Event
<1> QED
  BY <1>2 DEF Has

\* Only whether x itself is attached matters.
LEMMA SameForOthers ==
    ASSUME NEW q, NEW att, NEW att1, NEW x, x \in att <=> x \in att1
    PROVE  /\ Told(q, att, x) <=> Told(q, att1, x)
           /\ \A s : Follows(q, att, x, x \in s) <=> Follows(q, att1, x, x \in s)
BY DEF Told, Follows

\* A component is registered that is not told to leave.
LEMMA RegisteredTold ==
    ASSUME NEW T, NEW q \in Seq(T), NEW x, Event("registered", x) \in T, NEW att,
           ~Has(q, "unregistered", x)
    PROVE  LET p == Append(q, Event("registered", x))
           IN /\ Told(p, att \cup {x}, x) /\ ~Has(p, "unregistered", x)
              /\ \A s : Follows(p, att \cup {x}, x, x \in s)
<1> DEFINE e == Event("registered", x)
           p == Append(q, e)
<1>1. /\ Len(q) \in Nat /\ Len(p) = Len(q) + 1
      /\ \A i \in 1..Len(q) : p[i] = q[i]
      /\ p[Len(q) + 1] = e
  BY Appended
<1>2. e # Event("unregistered", x)
  BY DEF Event
<1> HIDE DEF p, e
<1>3. ~Has(p, "unregistered", x)
  <2>1. ASSUME NEW i \in 1..Len(p), p[i] = Event("unregistered", x) PROVE FALSE
    <3>1. i \in 1..Len(q)
      BY <1>1, <1>2, <2>1
    <3> QED
      BY <1>1, <2>1, <3>1 DEF Has
  <2> QED
    BY <2>1 DEF Has
<1>4. Has(p, "registered", x)
  <2>1. Len(q) + 1 \in 1..Len(p)
    BY <1>1
  <2> QED
    BY <1>1, <2>1 DEF Has, e
<1> QED
  BY <1>3, <1>4 DEF Told, Follows, p, e

\* Whatever stands in the queue, the one who leaves now is told so at its end.
LEMMA UnregisteredTold ==
    ASSUME NEW T, NEW q \in Seq(T), NEW x, Event("unregistered", x) \in T, NEW att
    PROVE  LET p == Append(q, Event("unregistered", x))
           IN /\ Told(p, att \ {x}, x)
              /\ \A s : Follows(p, att \ {x}, x, x \in s)
<1> DEFINE e == Event("unregistered", x)
           p == Append(q, e)
<1>1. /\ Len(q) \in Nat /\ Len(p) = Len(q) + 1
      /\ \A i \in 1..Len(q) : p[i] = q[i]
      /\ p[Len(q) + 1] = e
  BY Appended
<1>2. e # Event("registered", x)
  BY DEF Event
<1> HIDE DEF p, e
<1>3. ASSUME NEW i \in 1..Len(p), p[i] = Event("registered", x)
      PROVE  \E j \in i+1..Len(p) : p[j] = e
  <2>1. i # Len(q) + 1
    BY <1>1, <1>2, <1>3
  <2>2. Len(q) + 1 \in i+1..Len(p)
    BY <1>1, <2>1
  <2> QED
    BY <1>1, <2>2
<1>4. Has(p, "unregistered", x)
  <2>1. Len(q) + 1 \in 1..Len(p)
    BY <1>1
  <2> QED
    BY <1>1, <2>1 DEF Has, e
<1> QED
  BY <1>3, <1>4 DEF Told, Follows, p, e

-----------------------------------------------------------------------------
(* Which components belong to the tree of the server *)

\* A component that is in the tree is attached, and so is what it hangs on.
LEMMA InTreeIsAttached ==
    ASSUME tree \in Trees, NEW x \in Components, InTree[x]
    PROVE  x \in attached /\ (x \in Resources => InTree[tree.parent[x]])
BY InTreeEquation

\* What comes into the tree is either new or hangs on something new: paths of
\* parents have no cycle, so one can look at the topmost that came.
LEMMA InTreeGrows ==
    ASSUME tree \in Trees, tree' = tree, NEW New,
           attached' \subseteq attached \cup New,
           \A r \in Resources \cap attached : tree.parent[r] \notin New
    PROVE  \A x \in Components : InTree'[x] => InTree[x] \/ x \in New
<1> DEFINE S == {r \in Resources : InTree'[r] /\ ~InTree[r] /\ r \notin New}
<1>1. tree' \in Trees /\ \A x \in Components :
        InTree'[x] <=> x \in attached' /\ ((x \in Resources) => InTree'[tree.parent[x]])
  <2>1. \A x \in Components : (InTree[x] <=> x \in attached
                                /\ ((x \in Resources) => InTree[tree.parent[x]]))'
    BY InTreeEquationNext
  <2> QED
    BY <2>1
<1>2. S = {}
  <2>1. SUFFICES ASSUME S # {} PROVE FALSE
    OBVIOUS
  <2>2. PICK r \in S : tree.parent[r] \notin S
    <3>1. S \in SUBSET Resources
      OBVIOUS
    <3> HIDE DEF S
    <3> QED
      BY <2>1, <3>1, TreeFacts
  <2>3. r \in Components /\ r \in Resources /\ tree.parent[r] \in Components
    BY TreeFacts DEF Components
  <2>4. r \in attached /\ InTree'[tree.parent[r]] /\ tree.parent[r] \notin New
    BY <1>1, <2>2, <2>3
  <2>5. ~InTree[tree.parent[r]]
    BY <2>2, <2>3, <2>4, InTreeEquation
  <2>6. tree.parent[r] \notin Resources
    BY <2>2, <2>4, <2>5
  <2>7. tree.parent[r] \in attached
    BY <1>1, <2>3, <2>4
  <2> QED
    BY <2>3, <2>5, <2>6, <2>7, InTreeEquation
<1>3. ASSUME NEW x \in Components, InTree'[x], ~InTree[x], x \notin New PROVE FALSE
  <2>1. x \notin Resources
    BY <1>2, <1>3
  <2>2. x \in attached
    BY <1>1, <1>3
  <2> QED
    BY <1>3, <2>1, <2>2, InTreeEquation
<1> QED
  BY <1>3

-----------------------------------------------------------------------------
(* The types *)

\* The events that are fired have their type.
LEMMA EventTypes ==
    /\ \A x \in Components : /\ Event("registered", x) \in EventType
                             /\ Event("unregistered", x) \in EventType
    /\ \A d \in Domains : Event("routes.create", d) \in EventType
    /\ \A n \in ClientEvents, c \in Clients : /\ Event(n, c) \in EventType
                                              /\ Event(n, c).name \notin TreeEvents
BY DEF EventType, Event, ClientEvents, TreeEvents

\* An event is about what its name says.
LEMMA EventsOf ==
    ASSUME NEW e \in EventType
    PROVE  /\ e = Event(e.name, e.of)
           /\ e.name \in TreeEvents => e.of \in Components
           /\ e.name = "routes.create" => e.of \in Domains
           /\ e.name \in ClientEvents => e.of \in Clients
           /\ e.name \in TreeEvents \cup {"routes.create"} \cup ClientEvents
BY DEF EventType, Event, ClientEvents, TreeEvents

\* What a dispatch may do to the queue
Quiet == queue' = Tail(queue) \o <<>>
Fires(c) == \E n \in ClientEvents : queue' = Tail(queue) \o <<Event(n, c)>>

\* What the handlers of the events of a client change
Routed(c) ==
    /\ Quiet \/ Fires(c)
    /\ \E cl : client' = [client EXCEPT ![c] = cl] \/ client' = client
    /\ \E o \in Outcomes : outcome' = [outcome EXCEPT ![c] = o] \/ outcome' = outcome
    /\ UNCHANGED <<domains, children, routes>>

\* The handler of the event of a client
Handled(n, c) ==
    \/ n = "routing" /\ OnRouting(c)
    \/ n = "routing_success" /\ OnRoutingSuccess(c)
    \/ n = "domain.routing" /\ OnDomainRouting(c)
    \/ n = "domain.routing_success" /\ OnDomainRoutingSuccess(c)
    \/ n = "request" /\ OnRequest(c)

\* They change no more than that.
LEMMA RouteShape ==
    ASSUME NEW n, NEW c, Handled(n, c)
    PROVE  Routed(c)
<1>0. {"none", "301", "400", "403", "404", "called", "empty", "lost"} \subseteq Outcomes
  BY DEF Outcomes
<1>1. CASE OnRouting(c)
  <2>1. PICK cl, hosts, i : Route(c, cl, hosts, i)
    BY <1>1 DEF OnRouting
  <2>2. UNCHANGED <<domains, children, routes>>
    BY <1>1 DEF OnRouting
  <2>3. CASE i = 0 /\ client' = [client EXCEPT ![c] = cl]
             /\ outcome' = [outcome EXCEPT ![c] = "400"] /\ Fire(<<>>)
    BY <1>0, <2>2, <2>3 DEF Routed, Quiet, Fire
  <2>4. ASSUME NEW d,
               \/ /\ client' = [client EXCEPT ![c] = cl]
                  /\ outcome' = [outcome EXCEPT ![c] = "301"]
                  /\ Fire(<<>>)
               \/ /\ client' = [client EXCEPT ![c] =
                                   [cl EXCEPT !.domain = d, !.host = IF i = 1 THEN @ ELSE d]]
                  /\ Fire(<<Event("routing_success", c)>>)
                  /\ UNCHANGED outcome
        PROVE  Routed(c)
    <3>1. "none" \in Outcomes /\ "routing_success" \in ClientEvents
      BY <1>0 DEF ClientEvents
    <3> QED
      BY <1>0, <2>2, <2>4, <3>1 DEF Routed, Quiet, Fires, Fire
  <2> QED
    BY <2>1, <2>3, <2>4 DEF Route
<1>2. CASE OnRoutingSuccess(c)
  BY <1>0, <1>2 DEF OnRoutingSuccess, Routed, Fires, Fire, ClientEvents
<1>3. CASE OnDomainRouting(c)
  <2>1. UNCHANGED <<domains, children, routes>>
    BY <1>3 DEF OnDomainRouting
  <2>2. CASE Lost(c)
    BY <1>0, <2>1, <2>2 DEF Lost, Routed, Quiet, Fire
  <2>3. ASSUME NEW D, client' = [client EXCEPT ![c].declined = D],
               outcome' = [outcome EXCEPT ![c] =
                              IF client[c].method \in {"PUT", "POST"} THEN "403" ELSE "404"],
               Fire(<<>>)
        PROVE  Routed(c)
    <3> DEFINE cl == [client[c] EXCEPT !.declined = D]
    <3>1. client' = [client EXCEPT ![c] = cl]
      BY <2>3
    <3> HIDE DEF cl
    <3> QED
      BY <1>0, <2>1, <2>3, <3>1 DEF Routed, Quiet, Fire
  <2>4. ASSUME NEW match,
               client' = [client EXCEPT ![c].resource = match[1], ![c].path_segments = match[2]],
               Fire(<<Event("domain.routing_success", c)>>), UNCHANGED outcome
        PROVE  Routed(c)
    <3> DEFINE cl == [client[c] EXCEPT !.resource = match[1], !.path_segments = match[2]]
    <3>1. client' = [client EXCEPT ![c] = cl]
      BY <2>4
    <3>2. Fires(c)
      BY <2>4 DEF Fires, Fire, ClientEvents
    <3> HIDE DEF cl
    <3> QED
      BY <1>0, <2>1, <2>4, <3>1, <3>2 DEF Routed
  <2> QED
    BY <1>3, <2>2, <2>3, <2>4 DEF OnDomainRouting
<1>4. CASE OnDomainRoutingSuccess(c)
  BY <1>0, <1>4 DEF OnDomainRoutingSuccess, Lost, Routed, Quiet, Fires, Fire, ClientEvents
<1>5. CASE OnRequest(c)
  BY <1>0, <1>5 DEF OnRequest, Lost, Routed, Quiet, Fire
<1> QED
  BY <1>1, <1>2, <1>3, <1>4, <1>5 DEF Handled

\* The event that is dispatched is of one of three kinds.
LEMMA DispatchCases ==
    ASSUME TypeOK, Dispatch
    PROVE  /\ queue # <<>> /\ Head(queue) = queue[1]
           /\ UNCHANGED <<tree, attached, added, changes>>
           /\ \/ \E x \in Components :
                   /\ \/ Head(queue) = Event("registered", x) /\ OnRegistered(x)
                      \/ Head(queue) = Event("unregistered", x) /\ OnUnregistered(x)
                   /\ Quiet
              \/ \E d \in Domains :
                   Head(queue) = Event("routes.create", d) /\ OnRoutesCreate(d) /\ Quiet
              \/ \E c \in Clients, n \in ClientEvents :
                   Head(queue) = Event(n, c) /\ Handled(n, c) /\ Routed(c)
<1> DEFINE e == Head(queue)
<1>1. queue # <<>> /\ UNCHANGED treeVars /\ queue \in Seq(EventType)
  BY DEF Dispatch, TypeOK
<1>2. e = queue[1] /\ e \in EventType
  BY <1>1, TakenTail
<1>3. /\ e = Event(e.name, e.of)
      /\ e.name \in TreeEvents => e.of \in Components
      /\ e.name = "routes.create" => e.of \in Domains
      /\ e.name \in ClientEvents => e.of \in Clients
  BY <1>2, EventsOf
<1>4. \/ e.name = "registered" /\ OnRegistered(e.of) /\ Fire(<<>>)
      \/ e.name = "unregistered" /\ OnUnregistered(e.of) /\ Fire(<<>>)
      \/ e.name = "routes.create" /\ OnRoutesCreate(e.of) /\ Fire(<<>>)
      \/ e.name \in ClientEvents /\ Handled(e.name, e.of)
  BY DEF Dispatch, ClientEvents, Handled
<1> HIDE DEF e
<1>5. \/ \E x \in Components :
           /\ \/ e = Event("registered", x) /\ OnRegistered(x)
              \/ e = Event("unregistered", x) /\ OnUnregistered(x)
           /\ Quiet
      \/ \E d \in Domains : e = Event("routes.create", d) /\ OnRoutesCreate(d) /\ Quiet
      \/ \E c \in Clients, n \in ClientEvents :
           e = Event(n, c) /\ Handled(n, c) /\ Routed(c)
  <2>1. CASE e.name = "registered" /\ OnRegistered(e.of) /\ Fire(<<>>)
    BY <1>3, <2>1 DEF Fire, Quiet, TreeEvents
  <2>2. CASE e.name = "unregistered" /\ OnUnregistered(e.of) /\ Fire(<<>>)
    BY <1>3, <2>2 DEF Fire, Quiet, TreeEvents
  <2>3. CASE e.name = "routes.create" /\ OnRoutesCreate(e.of) /\ Fire(<<>>)
    BY <1>3, <2>3 DEF Fire, Quiet
  <2>4. CASE e.name \in ClientEvents /\ Handled(e.name, e.of)
    BY <1>3, <2>4, RouteShape
  <2> QED
    BY <1>4, <2>1, <2>2, <2>3, <2>4
<1> QED
  BY <1>1, <1>2, <1>5 DEF treeVars, e

\* The queue after a dispatch
LEMMA DispatchTakes ==
    ASSUME TypeOK, queue # <<>>, NEW c, Quiet \/ (c \in Clients /\ Fires(c))
    PROVE  /\ queue' \in Seq(EventType) /\ Taken(queue, queue')
<1>1. queue \in Seq(EventType)
  BY DEF TypeOK
<1>2. CASE Quiet
  BY <1>1, <1>2, TakenTail DEF Quiet
<1>3. CASE c \in Clients /\ Fires(c)
  <2>1. PICK n \in ClientEvents : queue' = Tail(queue) \o <<Event(n, c)>>
    BY <1>3 DEF Fires
  <2>2. Event(n, c) \in EventType /\ Event(n, c).name \notin TreeEvents
    BY <1>3, EventTypes
  <2> QED
    BY <1>1, <1>3, <2>1, <2>2, TakenAndFired
<1> QED
  BY <1>2, <1>3

\* The sequence of a finite set has its elements.
LEMMA SequenceOfSet ==
    ASSUME NEW S, IsFiniteSet(S)
    PROVE  SetToSeq(S) \in Seq(S)
<1>1. Cardinality(S) \in Nat /\ ExistsBijection(1..Cardinality(S), S)
  BY FS_CardinalityType
<1>2. \E f \in [1..Cardinality(S) -> S] : IsInjective(f)
  BY <1>1 DEF ExistsBijection, Bijection, Injection, IsInjective
<1>3. SetToSeq(S) \in [1..Cardinality(S) -> S]
  BY <1>2 DEF SetToSeq
<1> QED
  BY <1>1, <1>3 DEF Seq

\* `started' has fired routes.create only.
LEMMA FirstEvents ==
    ASSUME Init
    PROVE  \A i \in 1..Len(queue) : \E d \in Domains : queue[i] = Event("routes.create", d)
<1> DEFINE S == {Event("routes.create", d) : d \in domains}
           f == [d \in domains |-> Event("routes.create", d)]
<1>1. domains \subseteq Domains /\ IsFiniteSet(domains)
  BY RoutingAssumption, FS_Subset DEF Init, RoutingAssumption
<1>2. f \in Surjection(domains, S)
  BY DEF Surjection
<1>3. IsFiniteSet(S)
  BY <1>1, <1>2, FS_Surjection
<1>4. queue \in Seq(S)
  BY <1>3, SequenceOfSet DEF Init
<1>5. \A e \in S : \E d \in Domains : e = Event("routes.create", d)
  BY <1>1
<1>6. \A i \in 1..Len(queue) : queue[i] \in S
  BY <1>4, ElementOfSeq
<1> QED
  BY <1>5, <1>6

\* The types at the start
LEMMA InitTypeOK == ASSUME Init PROVE TypeOK
<1>1. queue \in Seq(EventType)
  <2> DEFINE S == {Event("routes.create", d) : d \in domains}
             f == [d \in domains |-> Event("routes.create", d)]
  <2>1. domains \subseteq Domains /\ IsFiniteSet(domains)
    BY RoutingAssumption, FS_Subset DEF Init, RoutingAssumption
  <2>2. f \in Surjection(domains, S)
    BY DEF Surjection
  <2>3. IsFiniteSet(S)
    BY <2>1, <2>2, FS_Surjection
  <2>4. queue \in Seq(S)
    BY <2>3, SequenceOfSet DEF Init
  <2>5. S \subseteq EventType
    BY <2>1, EventTypes
  <2> HIDE DEF S
  <2> QED
    BY <2>4, <2>5, SeqMonotonic
<1>2. children \in [Components -> SUBSET Resources]
  BY DEF Init
<1>3. outcome \in [Clients -> Outcomes]
  BY DEF Init, Outcomes
<1>4. attached \subseteq added /\ added \subseteq Components
  BY RoutingAssumption DEF Init, RoutingAssumption
<1>5. changes \in 0..MaxChanges
  BY RoutingAssumption DEF Init, RoutingAssumption
<1> QED
  BY <1>1, <1>2, <1>3, <1>4, <1>5 DEF Init, TypeOK

\* An operation that puts an event into the queue
Puts(e) == e \in EventType /\ queue' = Append(queue, e)

\* The queue keeps its type.
LEMMA PutsType == ASSUME TypeOK, NEW e, Puts(e) PROVE queue' \in Seq(EventType)
BY Appended DEF Puts, TypeOK

\* No step breaks the types.
LEMMA StepTypeOK == ASSUME TypeOK, [Next]_vars PROVE TypeOK'
<1>1. ASSUME Dispatch PROVE TypeOK'
  <2>1. /\ queue # <<>> /\ UNCHANGED <<tree, attached, added, changes>>
        /\ \/ \E x \in Components : (OnRegistered(x) \/ OnUnregistered(x)) /\ Quiet
           \/ \E d \in Domains : OnRoutesCreate(d) /\ Quiet
           \/ \E c \in Clients : Routed(c)
    BY <1>1, DispatchCases
  <2>2. CASE \E x \in Components : (OnRegistered(x) \/ OnUnregistered(x)) /\ Quiet
    <3>1. PICK x \in Components : (OnRegistered(x) \/ OnUnregistered(x)) /\ Quiet
      BY <2>2
    <3>2. queue' \in Seq(EventType)
      BY <2>1, <3>1, DispatchTakes
    <3>3. domains' \subseteq Domains
      BY <3>1 DEF OnRegistered, OnUnregistered, TypeOK
    <3>4. children' \in [Components -> SUBSET Resources]
      BY <3>1 DEF OnRegistered, OnUnregistered, TypeOK, Components
    <3>5. UNCHANGED <<routes, client, outcome>>
      BY <3>1 DEF OnRegistered, OnUnregistered
    <3> QED
      BY <2>1, <3>2, <3>3, <3>4, <3>5 DEF TypeOK
  <2>3. CASE \E d \in Domains : OnRoutesCreate(d) /\ Quiet
    <3>1. PICK d \in Domains : OnRoutesCreate(d) /\ Quiet
      BY <2>3
    <3>2. queue' \in Seq(EventType)
      BY <2>1, <3>1, DispatchTakes
    <3>3. DOMAIN routes' = Domains /\ UNCHANGED <<domains, children, client, outcome>>
      BY <3>1 DEF OnRoutesCreate, TypeOK
    <3> QED
      BY <2>1, <3>2, <3>3 DEF TypeOK
  <2>4. CASE \E c \in Clients : Routed(c)
    <3>1. PICK c \in Clients : Routed(c)
      BY <2>4
    <3>2. queue' \in Seq(EventType)
      BY <2>1, <3>1, DispatchTakes DEF Routed
    <3>3. DOMAIN client' = Clients /\ outcome' \in [Clients -> Outcomes]
      BY <3>1 DEF Routed, TypeOK
    <3>4. UNCHANGED <<domains, children, routes>>
      BY <3>1 DEF Routed
    <3> QED
      BY <2>1, <3>2, <3>3, <3>4 DEF TypeOK
  <2> QED
    BY <2>1, <2>2, <2>3, <2>4
<1>2. ASSUME NEW c \in Clients, Arrive(c) PROVE TypeOK'
  <2>1. queue' \in Seq(EventType)
    <3>1. Puts(Event("routing", c))
      BY <1>2, EventTypes DEF Arrive, Puts, ClientEvents
    <3> QED
      BY <3>1, PutsType
  <2>2. DOMAIN client' = Clients
    BY <1>2 DEF Arrive, TypeOK
  <2>3. outcome' \in [Clients -> Outcomes]
    BY <1>2 DEF Arrive, TypeOK, Outcomes
  <2> QED
    BY <1>2, <2>1, <2>2, <2>3 DEF Arrive, treeVars, TypeOK
<1>3. ASSUME NEW x \in Components, Register(x) PROVE TypeOK'
  <2>1. queue' \in Seq(EventType)
    <3>1. Puts(Event("registered", x))
      BY <1>3, EventTypes DEF Register, Puts
    <3> QED
      BY <3>1, PutsType
  <2>2. changes' \in 0..MaxChanges
    BY <1>3, RoutingAssumption DEF Register, Change, TypeOK, RoutingAssumption
  <2> QED
    BY <1>3, <2>1, <2>2 DEF Register, TypeOK
<1>4. ASSUME NEW x \in Components, Unregister(x) PROVE TypeOK'
  <2>1. queue' \in Seq(EventType)
    <3>1. Puts(Event("unregistered", x))
      BY <1>4, EventTypes DEF Unregister, Puts
    <3> QED
      BY <3>1, PutsType
  <2>2. changes' \in 0..MaxChanges
    BY <1>4, RoutingAssumption DEF Unregister, Change, TypeOK, RoutingAssumption
  <2> QED
    BY <1>4, <2>1, <2>2 DEF Unregister, TypeOK
<1>5. ASSUME NEW d \in Domains, RecreateRoutes(d) PROVE TypeOK'
  <2>1. queue' \in Seq(EventType)
    <3>1. Puts(Event("routes.create", d))
      BY <1>5, EventTypes DEF RecreateRoutes, Puts
    <3> QED
      BY <3>1, PutsType
  <2>2. changes' \in 0..MaxChanges
    BY <1>5, RoutingAssumption DEF RecreateRoutes, Change, TypeOK, RoutingAssumption
  <2> QED
    BY <1>5, <2>1, <2>2 DEF RecreateRoutes, TypeOK
<1>6. CASE UNCHANGED vars
  BY <1>6 DEF vars, treeVars, TypeOK
<1> QED
  BY <1>1, <1>2, <1>3, <1>4, <1>5, <1>6 DEF Next

-----------------------------------------------------------------------------
(* The registry follows the tree *)

\* A component is told of before its resources are, by events that end with
\* what is the case; the routers' sets follow these events.
RegistryInvariant ==
    /\ TypeOK
    /\ \A r \in Resources \cap added : tree.parent[r] \in added
    /\ \A x \in Components : Told(queue, attached, x)
    /\ \A x \in Components \ added : \A n \in TreeEvents : ~Has(queue, n, x)
    /\ domains \subseteq added
    /\ \A p \in Components : \A r \in children[p] : tree.parent[r] = p /\ r \in added
    /\ \A d \in Domains : Follows(queue, attached, d, d \in domains)
    /\ \A r \in Resources : InTree[tree.parent[r]] =>
          Follows(queue, attached, r, r \in children[tree.parent[r]])

\* Nobody has been told anything at the start, where the sets are the tree.
LEMMA InitRegistry == ASSUME Init PROVE RegistryInvariant
<1>1. TypeOK
  BY InitTypeOK
<1>2. tree \in Trees /\ attached = Initially /\ added = Initially
      /\ domains = Domains \intersect Initially
      /\ children = [x \in Components |-> {r \in Resources \intersect Initially : tree.parent[r] = x}]
  BY DEF Init
<1>3. \A n \in TreeEvents, x \in Components : \A i \in 1..Len(queue) : queue[i] # Event(n, x)
  <2>1. \A n \in TreeEvents : \A x, d : Event("routes.create", d) # Event(n, x)
    BY DEF Event, TreeEvents
  <2> QED
    BY <2>1, FirstEvents
<1>4. ASSUME NEW x \in Components PROVE Told(queue, attached, x)
  <2>1. \A i \in 1..Len(queue) : /\ queue[i] # Event("registered", x)
                                 /\ queue[i] # Event("unregistered", x)
    BY <1>3 DEF TreeEvents
  <2>2. ~Has(queue, "unregistered", x)
    BY <2>1 DEF Has
  <2> QED
    BY <2>1, <2>2 DEF Told
<1>5. \A x \in Components : \A n \in TreeEvents : ~Has(queue, n, x)
  BY <1>3 DEF Has
<1>6. \A r \in Resources \cap added : tree.parent[r] \in added
  BY <1>2, TreeFacts
<1>7. \A d \in Domains : Follows(queue, attached, d, d \in domains)
  BY <1>2 DEF Follows
<1>8. \A r \in Resources : Follows(queue, attached, r, r \in children[tree.parent[r]])
  <2>1. \A r \in Resources : tree.parent[r] \in Components
    BY <1>2, TreeFacts
  <2> QED
    BY <1>2, <2>1 DEF Follows
<1> QED
  BY <1>1, <1>2, <1>4, <1>5, <1>6, <1>7, <1>8 DEF RegistryInvariant

\* A dispatch: who is told of, is put into or taken out of the sets.
LEMMA DispatchRegistry == ASSUME RegistryInvariant, Dispatch PROVE RegistryInvariant'
<1>1. TypeOK /\ TypeOK' /\ tree \in Trees
  BY StepTypeOK DEF RegistryInvariant, Next, TypeOK
<1>2. /\ queue # <<>> /\ Head(queue) = queue[1]
      /\ UNCHANGED <<tree, attached, added, changes>>
  BY <1>1, DispatchCases
<1>3. InTree' = InTree
  BY <1>2, InTreeStays
<1>4. Taken(queue, queue')
  <2>1. \E c : Quiet \/ (c \in Clients /\ Fires(c))
    BY <1>1, DispatchCases DEF Routed
  <2> QED
    BY <1>1, <1>2, <2>1, DispatchTakes
<1>5. \A x \in Components : Told(queue', attached, x)
  BY <1>4, TakenTold DEF RegistryInvariant
<1>6. \A x \in Components \ added : \A n \in TreeEvents : ~Has(queue', n, x)
  BY <1>4, TakenHas DEF RegistryInvariant
<1>7. \A n \in TreeEvents, x \in Components : queue[1] = Event(n, x) => x \in added
  BY <1>4 DEF RegistryInvariant, Has, Taken
<1>8. /\ \A x \in Components \cap Domains :
            /\ queue[1] = Event("registered", x) => domains' = domains \cup {x}
            /\ queue[1] = Event("unregistered", x) => domains' = domains \ {x}
      /\ (\A x \in Components \cap Domains : \A n \in TreeEvents : queue[1] # Event(n, x))
            => domains' = domains
      /\ \A x \in Components \ Domains :
            /\ queue[1] = Event("registered", x) => children' =
                  IF InTree[tree.parent[x]] THEN [children EXCEPT ![tree.parent[x]] = @ \cup {x}]
                  ELSE children
            /\ queue[1] = Event("unregistered", x) => children' =
                  IF InTree[tree.parent[x]] THEN [children EXCEPT ![tree.parent[x]] = @ \ {x}]
                  ELSE children
      /\ (\A x \in Components \ Domains : \A n \in TreeEvents : queue[1] # Event(n, x))
            => children' = children
  <2>1. CASE \E x \in Components : queue[1] = Event("registered", x) /\ OnRegistered(x)
    <3>1. PICK x \in Components : queue[1] = Event("registered", x) /\ OnRegistered(x)
      BY <2>1
    <3>2. \A y : \A n \in TreeEvents : queue[1] = Event(n, y) => n = "registered" /\ y = x
      BY <3>1 DEF Event
    <3> QED
      BY <3>1, <3>2 DEF OnRegistered, TreeEvents
  <2>2. CASE \E x \in Components : queue[1] = Event("unregistered", x) /\ OnUnregistered(x)
    <3>1. PICK x \in Components : queue[1] = Event("unregistered", x) /\ OnUnregistered(x)
      BY <2>2
    <3>2. \A y : \A n \in TreeEvents : queue[1] = Event(n, y) => n = "unregistered" /\ y = x
      BY <3>1 DEF Event
    <3> QED
      BY <3>1, <3>2 DEF OnUnregistered, TreeEvents
  <2>3. CASE \E d \in Domains : queue[1] = Event("routes.create", d) /\ OnRoutesCreate(d)
    BY <2>3 DEF OnRoutesCreate, Event, TreeEvents
  <2>4. CASE \E c \in Clients, n \in ClientEvents : queue[1] = Event(n, c) /\ Routed(c)
    BY <2>4 DEF Routed, Event, TreeEvents, ClientEvents
  <2> QED
    BY <1>1, <1>2, <2>1, <2>2, <2>3, <2>4, DispatchCases
<1>9. \A d \in Domains : d \in Components
  BY DEF Components
<1>10. \A r \in Resources : /\ r \in Components /\ r \notin Domains /\ tree.parent[r] \in Components
  BY <1>1, TreeFacts, RoutingAssumption DEF Components, RoutingAssumption
<1>11. domains' \subseteq added
  BY <1>7, <1>8 DEF RegistryInvariant, TreeEvents
<1>12. \A p \in Components : \A r \in children'[p] : tree.parent[r] = p /\ r \in added
  <2>1. children \in [Components -> SUBSET Resources]
    BY <1>1 DEF TypeOK
  <2>2. \A p \in Components : \A r \in children[p] : tree.parent[r] = p /\ r \in added
    BY DEF RegistryInvariant
  <2>3. ASSUME NEW x \in Components \ Domains, queue[1] = Event("registered", x),
               children' = IF InTree[tree.parent[x]]
                           THEN [children EXCEPT ![tree.parent[x]] = @ \cup {x}] ELSE children,
               NEW p \in Components, NEW r \in children'[p]
        PROVE  tree.parent[r] = p /\ r \in added
    BY <1>7, <2>1, <2>2, <2>3 DEF TreeEvents
  <2>4. ASSUME NEW x \in Components \ Domains, queue[1] = Event("unregistered", x),
               children' = IF InTree[tree.parent[x]]
                           THEN [children EXCEPT ![tree.parent[x]] = @ \ {x}] ELSE children,
               NEW p \in Components, NEW r \in children'[p]
        PROVE  tree.parent[r] = p /\ r \in added
    BY <2>1, <2>2, <2>4
  <2> QED
    BY <1>8, <2>2, <2>3, <2>4 DEF TreeEvents
<1>13. ASSUME NEW d \in Domains PROVE Follows(queue', attached, d, d \in domains')
  <2>1. /\ queue[1] = Event("registered", d) => d \in domains'
        /\ queue[1] = Event("unregistered", d) => d \notin domains'
        /\ queue[1] \notin {Event("registered", d), Event("unregistered", d)}
              => (d \in domains' <=> d \in domains)
    BY <1>8, <1>9 DEF Event, TreeEvents
  <2>2. Told(queue, attached, d) /\ Follows(queue, attached, d, d \in domains)
    BY <1>9 DEF RegistryInvariant
  <2> QED
    BY <1>4, <2>1, <2>2, TakenFollows
<1>14. ASSUME NEW r \in Resources, InTree[tree.parent[r]]
       PROVE  Follows(queue', attached, r, r \in children'[tree.parent[r]])
  <2>1. /\ queue[1] = Event("registered", r) => r \in children'[tree.parent[r]]
        /\ queue[1] = Event("unregistered", r) => r \notin children'[tree.parent[r]]
        /\ queue[1] \notin {Event("registered", r), Event("unregistered", r)}
              => (r \in children'[tree.parent[r]] <=> r \in children[tree.parent[r]])
    <3>1. children \in [Components -> SUBSET Resources]
      BY <1>1 DEF TypeOK
    <3>2. \A x : /\ queue[1] = Event("registered", x) /\ x # r
                       => queue[1] \notin {Event("registered", r), Event("unregistered", r)}
                 /\ queue[1] = Event("unregistered", x) /\ x # r
                       => queue[1] \notin {Event("registered", r), Event("unregistered", r)}
      BY DEF Event
    <3>3. Event("registered", r) # Event("unregistered", r)
      BY DEF Event
    <3>4. CASE queue[1] = Event("registered", r)
      BY <1>8, <1>10, <1>14, <3>1, <3>3, <3>4
    <3>5. CASE queue[1] = Event("unregistered", r)
      BY <1>8, <1>10, <1>14, <3>1, <3>3, <3>5
    <3>6. CASE queue[1] \notin {Event("registered", r), Event("unregistered", r)}
      <4>1. ASSUME NEW x \in Components \ Domains, NEW n \in TreeEvents, queue[1] = Event(n, x)
            PROVE  r \in children'[tree.parent[r]] <=> r \in children[tree.parent[r]]
        <5>1. x # r
          BY <3>6, <4>1 DEF TreeEvents
        <5> QED
          BY <1>8, <1>10, <3>1, <4>1, <5>1 DEF TreeEvents
      <4> QED
        BY <1>8, <3>6, <4>1
    <3> QED
      BY <3>3, <3>4, <3>5, <3>6
  <2>2. Told(queue, attached, r) /\ Follows(queue, attached, r, r \in children[tree.parent[r]])
    BY <1>10, <1>14 DEF RegistryInvariant
  <2> QED
    BY <1>4, <2>1, <2>2, TakenFollows
<1>15. \A r \in Resources \cap added : tree.parent[r] \in added
  BY DEF RegistryInvariant
<1> QED
  BY <1>1, <1>2, <1>3, <1>5, <1>6, <1>11, <1>12, <1>13, <1>14, <1>15 DEF RegistryInvariant

\* Where somebody is told of something, the others stand as they did.
LEMMA OthersFollow ==
    ASSUME TypeOK, NEW n, NEW x, Puts(Event(n, x)), NEW att, NEW y,
           y \in att <=> y \in attached, n \in TreeEvents => x # y
    PROVE  /\ \A m \in TreeEvents : Has(queue', m, y) <=> Has(queue, m, y)
           /\ Told(queue, attached, y) => Told(queue', att, y)
           /\ \A s : Follows(queue, attached, y, y \in s) => Follows(queue', att, y, y \in s)
<1>1. queue \in Seq(EventType) /\ Event(n, x) \in EventType /\ queue' = Append(queue, Event(n, x))
  BY DEF TypeOK, Puts
<1>2. Event(n, x) # Event("registered", y) /\ Event(n, x) # Event("unregistered", y)
  BY DEF Event, TreeEvents
<1>3. /\ \A m \in TreeEvents : Has(queue', m, y) <=> Has(queue, m, y)
      /\ Told(queue, attached, y) => Told(queue', attached, y)
      /\ \A s : Follows(queue, attached, y, y \in s) => Follows(queue', attached, y, y \in s)
  BY <1>1, <1>2, AppendedTold
<1> QED
  BY <1>3, SameForOthers

\* Events that are not about the tree
LEMMA AsideRegistry ==
    ASSUME RegistryInvariant, NEW n, n \notin TreeEvents, NEW x, Puts(Event(n, x)), TypeOK',
           UNCHANGED <<tree, attached, added, domains, children>>
    PROVE  RegistryInvariant'
<1>1. TypeOK /\ InTree' = InTree
  BY InTreeStays DEF RegistryInvariant
<1>2. \A y : /\ \A m \in TreeEvents : Has(queue', m, y) <=> Has(queue, m, y)
             /\ Told(queue, attached, y) => Told(queue', attached, y)
             /\ \A s : Follows(queue, attached, y, y \in s) => Follows(queue', attached, y, y \in s)
  BY <1>1, OthersFollow
<1>3. \A d \in Domains : Follows(queue', attached, d, d \in domains)
  BY <1>2 DEF RegistryInvariant
<1>4. \A r \in Resources : InTree[tree.parent[r]] =>
          Follows(queue', attached, r, r \in children[tree.parent[r]])
  BY <1>2 DEF RegistryInvariant
<1>5. /\ \A y \in Components : Told(queue', attached, y)
      /\ \A y \in Components \ added : \A m \in TreeEvents : ~Has(queue', m, y)
  BY <1>2 DEF RegistryInvariant
<1>6. /\ \A r \in Resources \cap added : tree.parent[r] \in added
      /\ domains \subseteq added
      /\ \A p \in Components : \A r \in children[p] : tree.parent[r] = p /\ r \in added
  BY DEF RegistryInvariant
<1> QED
  BY <1>1, <1>3, <1>4, <1>5, <1>6 DEF RegistryInvariant

\* A new component is awaited where it belongs; nothing is below it yet.
LEMMA RegisterRegistry ==
    ASSUME RegistryInvariant, NEW x \in Components, Register(x) PROVE RegistryInvariant'
<1>1. TypeOK /\ TypeOK' /\ tree \in Trees /\ queue \in Seq(EventType)
  BY StepTypeOK DEF RegistryInvariant, Next, TypeOK
<1>2. /\ x \notin added /\ (x \in Resources => InTree[tree.parent[x]])
      /\ attached' = attached \cup {x} /\ added' = added \cup {x}
      /\ queue' = Append(queue, Event("registered", x))
      /\ UNCHANGED <<tree, domains, children>>
  BY DEF Register
<1>3. Puts(Event("registered", x)) /\ Event("registered", x) \in EventType
  BY <1>2, EventTypes DEF Puts
<1>4. /\ Told(queue', attached', x) /\ ~Has(queue', "unregistered", x)
      /\ \A s : Follows(queue', attached', x, x \in s)
  <2>1. ~Has(queue, "unregistered", x)
    BY <1>2 DEF RegistryInvariant, TreeEvents
  <2> QED
    BY <1>1, <1>2, <1>3, <2>1, RegisteredTold
<1>5. ASSUME NEW y, y # x
      PROVE  /\ \A m \in TreeEvents : Has(queue', m, y) <=> Has(queue, m, y)
             /\ Told(queue, attached, y) => Told(queue', attached', y)
             /\ \A s : Follows(queue, attached, y, y \in s) => Follows(queue', attached', y, y \in s)
  <2>1. y \in attached' <=> y \in attached
    BY <1>2, <1>5
  <2> QED
    BY <1>1, <1>3, <1>5, <2>1, OthersFollow
<1>6. \A r \in Resources \cap added : tree.parent[r] \in added
  BY DEF RegistryInvariant
<1>7. \A r \in Resources \cap added' : tree.parent[r] \in added'
  <2>1. x \in Resources => tree.parent[x] \in Components
    BY <1>1, TreeFacts
  <2>2. x \in Resources => tree.parent[x] \in attached
    BY <1>1, <1>2, <2>1, InTreeIsAttached
  <2> QED
    BY <1>1, <1>2, <1>6, <2>2 DEF TypeOK
<1>8. \A r \in Resources \cap attached : tree.parent[r] \notin {x}
  BY <1>1, <1>2, <1>6 DEF TypeOK
<1>9. \A y \in Components : InTree'[y] => InTree[y] \/ y = x
  BY <1>1, <1>2, <1>8, InTreeGrows
<1>10. \A y \in Components : Told(queue', attached', y)
  BY <1>4, <1>5 DEF RegistryInvariant
<1>11. \A y \in Components \ added' : \A m \in TreeEvents : ~Has(queue', m, y)
  <2>1. \A y \in Components \ added' : y # x /\ y \notin added
    BY <1>2
  <2> QED
    BY <1>5, <2>1 DEF RegistryInvariant
<1>12. \A d \in Domains : Follows(queue', attached', d, d \in domains)
  BY <1>4, <1>5 DEF RegistryInvariant
<1>13. ASSUME NEW r \in Resources, InTree'[tree.parent[r]]
       PROVE  Follows(queue', attached', r, r \in children[tree.parent[r]])
  <2>1. tree.parent[r] \in Components /\ r \in Components
    BY <1>1, TreeFacts DEF Components
  <2>2. CASE r = x
    BY <1>4, <2>2
  <2>3. CASE r # x /\ InTree[tree.parent[r]]
    BY <1>5, <2>3 DEF RegistryInvariant
  <2>4. CASE r # x /\ tree.parent[r] = x
    <3>1. r \notin added
      BY <1>2, <1>6, <2>4
    <3>2. r \notin attached' /\ r \notin children[tree.parent[r]]
      BY <1>1, <1>2, <2>1, <2>4, <3>1 DEF RegistryInvariant, TypeOK
    <3> QED
      BY <3>2 DEF Follows
  <2> QED
    BY <1>9, <1>13, <2>1, <2>2, <2>3, <2>4
<1>14. /\ domains \subseteq added'
       /\ \A p \in Components : \A r \in children[p] : tree.parent[r] = p /\ r \in added'
  BY <1>2 DEF RegistryInvariant
<1> QED
  BY <1>1, <1>2, <1>7, <1>10, <1>11, <1>12, <1>13, <1>14 DEF RegistryInvariant

\* What leaves, with all that is below it, will be told so.
LEMMA UnregisterRegistry ==
    ASSUME RegistryInvariant, NEW x \in Components, Unregister(x) PROVE RegistryInvariant'
<1>1. TypeOK /\ TypeOK' /\ tree \in Trees /\ queue \in Seq(EventType)
  BY StepTypeOK DEF RegistryInvariant, Next, TypeOK
<1>2. /\ InTree[x] /\ attached' = attached \ {x}
      /\ queue' = Append(queue, Event("unregistered", x))
      /\ UNCHANGED <<tree, added, domains, children>>
  BY DEF Unregister
<1>3. Puts(Event("unregistered", x)) /\ Event("unregistered", x) \in EventType
  BY <1>2, EventTypes DEF Puts
<1>4. x \in added
  BY <1>1, <1>2, InTreeIsAttached DEF TypeOK
<1>5. Told(queue', attached', x) /\ \A s : Follows(queue', attached', x, x \in s)
  BY <1>1, <1>2, <1>3, UnregisteredTold
<1>6. ASSUME NEW y, y # x
      PROVE  /\ \A m \in TreeEvents : Has(queue', m, y) <=> Has(queue, m, y)
             /\ Told(queue, attached, y) => Told(queue', attached', y)
             /\ \A s : Follows(queue, attached, y, y \in s) => Follows(queue', attached', y, y \in s)
  <2>1. y \in attached' <=> y \in attached
    BY <1>2, <1>6
  <2> QED
    BY <1>1, <1>3, <1>6, <2>1, OthersFollow
<1>7. \A y \in Components : InTree'[y] => InTree[y]
  <2> DEFINE Nothing == {}
  <2>1. /\ \A r \in Resources \cap attached : tree.parent[r] \notin Nothing
        /\ attached' \subseteq attached \cup Nothing
        /\ \A y : y \notin Nothing
    BY <1>2
  <2> HIDE DEF Nothing
  <2>2. \A y \in Components : InTree'[y] => InTree[y] \/ y \in Nothing
    BY <1>1, <1>2, <2>1, InTreeGrows
  <2> QED
    BY <2>1, <2>2
<1>8. ASSUME NEW y \in Components PROVE Told(queue', attached', y)
  <2>1. Told(queue, attached, y)
    BY DEF RegistryInvariant
  <2>2. CASE y = x
    BY <1>5, <2>2
  <2>3. CASE y # x
    BY <1>6, <2>1, <2>3
  <2> QED
    BY <2>2, <2>3
<1>9. \A y \in Components \ added : \A m \in TreeEvents : ~Has(queue', m, y)
  BY <1>4, <1>6 DEF RegistryInvariant
<1>10. \A d \in Domains : Follows(queue', attached', d, d \in domains)
  BY <1>5, <1>6 DEF RegistryInvariant
<1>11. ASSUME NEW r \in Resources, InTree'[tree.parent[r]]
       PROVE  Follows(queue', attached', r, r \in children[tree.parent[r]])
  <2>1. tree.parent[r] \in Components
    BY <1>1, TreeFacts
  <2>2. InTree[tree.parent[r]]
    BY <1>7, <1>11, <2>1
  <2>3. CASE r = x
    BY <1>5, <2>3
  <2>4. CASE r # x
    BY <1>6, <2>2, <2>4 DEF RegistryInvariant
  <2> QED
    BY <2>3, <2>4
<1>12. /\ \A r \in Resources \cap added : tree.parent[r] \in added
       /\ domains \subseteq added
       /\ \A p \in Components : \A r \in children[p] : tree.parent[r] = p /\ r \in added
  BY DEF RegistryInvariant
<1> QED
  BY <1>1, <1>2, <1>8, <1>9, <1>10, <1>11, <1>12 DEF RegistryInvariant

\* Every step keeps the registry.
LEMMA StepRegistry == ASSUME RegistryInvariant, [Next]_vars PROVE RegistryInvariant'
<1>1. TypeOK'
  BY StepTypeOK DEF RegistryInvariant
<1>2. ASSUME NEW c \in Clients, Arrive(c) PROVE RegistryInvariant'
  <2>1. Puts(Event("routing", c)) /\ "routing" \notin TreeEvents
    BY <1>2, EventTypes DEF Arrive, Puts, ClientEvents, TreeEvents
  <2> QED
    BY <1>1, <1>2, <2>1, AsideRegistry DEF Arrive, treeVars
<1>3. ASSUME NEW d \in Domains, RecreateRoutes(d) PROVE RegistryInvariant'
  <2>1. Puts(Event("routes.create", d)) /\ "routes.create" \notin TreeEvents
    BY <1>3, EventTypes DEF RecreateRoutes, Puts, TreeEvents
  <2> QED
    BY <1>1, <1>3, <2>1, AsideRegistry DEF RecreateRoutes
<1>4. CASE UNCHANGED vars
  <2>1. InTree' = InTree /\ UNCHANGED <<tree, attached, added, domains, children, queue>>
    BY <1>4, InTreeStays DEF vars, treeVars
  <2> QED
    BY <1>1, <2>1 DEF RegistryInvariant
<1> QED
  BY <1>2, <1>3, <1>4, DispatchRegistry, RegisterRegistry, UnregisterRegistry DEF Next

\* The sets the routers work on, domains and children (DomainRouter._on_register,
\* BaseResource._on_register and their counterparts), are the tree of the
\* components again as soon as the queue is empty, whatever was registered and
\* unregistered, and in whatever order.
THEOREM RegistryIsTheTree == Spec => []RegistryFollowsTree
<1>1. Init => RegistryInvariant
  BY InitRegistry
<1>2. RegistryInvariant /\ [Next]_vars => RegistryInvariant'
  BY StepRegistry
<1>3. RegistryInvariant => RegistryFollowsTree
  <2>1. SUFFICES ASSUME RegistryInvariant, queue = <<>>
                 PROVE  /\ domains = Domains \intersect attached
                        /\ \A x \in Components : InTree[x] =>
                              children[x] = {r \in Resources \intersect attached : tree.parent[r] = x}
    BY DEF RegistryFollowsTree
  <2>2. TypeOK /\ \A n, x : ~Has(queue, n, x)
    <3>1. Len(queue) = 0
      BY <2>1, EmptySeq
    <3>2. 1..Len(queue) = {}
      BY <3>1
    <3> QED
      BY <2>1, <3>2 DEF Has, RegistryInvariant
  <2>3. domains = Domains \intersect attached
    BY <2>1, <2>2 DEF RegistryInvariant, Follows, TypeOK
  <2>4. ASSUME NEW x \in Components, InTree[x]
        PROVE  children[x] = {r \in Resources \intersect attached : tree.parent[r] = x}
    <3>1. children[x] \subseteq Resources /\ \A r \in children[x] : tree.parent[r] = x
      BY <2>1, <2>2 DEF RegistryInvariant, TypeOK
    <3>2. \A r \in Resources : tree.parent[r] = x => (r \in attached <=> r \in children[x])
      BY <2>1, <2>2, <2>4 DEF RegistryInvariant, Follows
    <3> QED
      BY <3>1, <3>2
  <2> QED
    BY <2>3, <2>4
<1> QED
  BY <1>1, <1>2, <1>3, PTL DEF Spec

-----------------------------------------------------------------------------
(* A request is routed into its domain *)

\* The i-th event is one of the client.
About(q, i, c) == q[i].name \in ClientEvents /\ q[i].of = c

\* Its resource is one below its domain.
Belongs(cl, dom) ==
    cl.resource # NoResource => cl.resource \in Resources /\ dom[cl.resource] = cl.domain

\* A client is awaited by one event at most.  It has no resource before it is
\* routed, and it has a domain behind that.
Awaited(q, cl, o, dom, c) ==
    /\ \A i, j \in 1..Len(q) : About(q, i, c) /\ About(q, j, c) => i = j
    /\ \A i \in 1..Len(q) : About(q, i, c) =>
          /\ o # "none"
          /\ IF q[i].name = "routing" THEN cl.resource = NoResource ELSE cl.domain \in Domains
    /\ DOMAIN Unrouted \subseteq DOMAIN cl
    /\ Belongs(cl, dom)

\* The inductive invariant behind RoutingInvariant
RoutedInvariant ==
    /\ TypeOK
    /\ \A d \in Domains : \A route \in routes[d] :
          route.resource \in Resources /\ DomainOf[route.resource] = d
    /\ \A c \in Clients : Awaited(queue, client[c], outcome[c], DomainOf, c)

\* What routing writes of a client
LEMMA UnroutedFields == DOMAIN Unrouted = {"domain", "resource", "path_segments", "declined"}
BY DEF Unrouted

\* What becomes of an event about somebody else
LEMMA AwaitedAside ==
    ASSUME NEW q, Len(q) \in Nat, NEW p, Len(p) \in Nat, NEW cl, NEW o, NEW dom, NEW c,
           Awaited(q, cl, o, dom, c),
           \A i \in 1..Len(p) : About(p, i, c) => i + 1 \in 1..Len(q) /\ p[i] = q[i + 1]
    PROVE  Awaited(p, cl, o, dom, c)
<1>1. \A i \in 1..Len(p) : About(p, i, c) =>
          i + 1 \in 1..Len(q) /\ p[i] = q[i + 1] /\ About(q, i + 1, c)
  BY DEF About
<1>2. ASSUME NEW i \in 1..Len(p), NEW j \in 1..Len(p), About(p, i, c), About(p, j, c)
      PROVE  i = j
  <2>1. i + 1 = j + 1
    BY <1>1, <1>2 DEF Awaited
  <2> QED
    BY <2>1
<1>3. \A i \in 1..Len(p) : About(p, i, c) =>
          /\ o # "none"
          /\ IF p[i].name = "routing" THEN cl.resource = NoResource ELSE cl.domain \in Domains
  BY <1>1 DEF Awaited
<1> QED
  BY <1>2, <1>3 DEF Awaited

\* What becomes of the client whose event is taken
LEMMA AwaitedServed ==
    ASSUME NEW q, Len(q) \in Nat \ {0}, NEW p, Len(p) \in Nat, NEW c,
           NEW cl, NEW o, NEW dom, Awaited(q, cl, o, dom, c), About(q, 1, c),
           NEW n, n # "routing", NEW cl1, NEW o1, o1 # "none",
           \A i \in 1..Len(p) : \/ i + 1 \in 1..Len(q) /\ p[i] = q[i + 1]
                                \/ i = Len(q) /\ p[i] = Event(n, c) /\ cl1.domain \in Domains,
           DOMAIN Unrouted \subseteq DOMAIN cl1, Belongs(cl1, dom)
    PROVE  Awaited(p, cl1, o1, dom, c)
<1>1. ASSUME NEW i \in 1..Len(p), About(p, i, c)
      PROVE  i = Len(q) /\ p[i] = Event(n, c) /\ cl1.domain \in Domains
  <2>1. CASE i + 1 \in 1..Len(q) /\ p[i] = q[i + 1]
    <3>1. About(q, i + 1, c)
      BY <1>1, <2>1 DEF About
    <3>2. i + 1 = 1
      BY <2>1, <3>1 DEF Awaited
    <3> QED
      BY <3>2
  <2> QED
    BY <2>1
<1>2. \A i \in 1..Len(p) : About(p, i, c) => p[i].name # "routing"
  BY <1>1 DEF Event
<1> QED
  BY <1>1, <1>2 DEF Awaited

\* An event is appended that is not about the client.
LEMMA AwaitedAppended ==
    ASSUME NEW T, NEW q \in Seq(T), NEW e \in T, NEW cl, NEW o, NEW dom, NEW c,
           Awaited(q, cl, o, dom, c), e.name \in ClientEvents => e.of # c
    PROVE  Awaited(Append(q, e), cl, o, dom, c)
<1> DEFINE p == Append(q, e)
<1>1. /\ Len(q) \in Nat /\ Len(p) = Len(q) + 1
      /\ \A i \in 1..Len(q) : p[i] = q[i]
      /\ p[Len(q) + 1] = e
  BY Appended
<1> HIDE DEF p
<1>2. \A i \in 1..Len(p) : About(p, i, c) => i \in 1..Len(q) /\ p[i] = q[i] /\ About(q, i, c)
  BY <1>1 DEF About
<1>3. Awaited(p, cl, o, dom, c)
  BY <1>2 DEF Awaited
<1> QED
  BY <1>3 DEF p

-----------------------------------------------------------------------------
(* The handlers and their client *)

\* ReverseProxy and the Host of HTTP/1.0 leave what routing has found alone.
LEMMA ProxiedKeeps ==
    ASSUME NEW c
    PROVE  LET cl == HttpOneZero(Proxied(c))
           IN /\ DOMAIN cl = DOMAIN c
              /\ \A f \in DOMAIN Unrouted : f \in DOMAIN c => cl[f] = c[f]
<1> DEFINE px == Proxied(c)
<1>1. \A f \in DOMAIN Unrouted : f # "remote" /\ f # "host"
  BY UnroutedFields
<1>2. /\ DOMAIN px = DOMAIN c
      /\ \A f \in DOMAIN Unrouted : f \in DOMAIN c => px[f] = c[f]
  BY <1>1 DEF Proxied
<1> HIDE DEF px
<1>3. /\ DOMAIN HttpOneZero(px) = DOMAIN px
      /\ \A f \in DOMAIN Unrouted : f \in DOMAIN px => HttpOneZero(px)[f] = px[f]
  BY <1>1 DEF HttpOneZero
<1> QED
  BY <1>2, <1>3 DEF px

\* How a handler leaves its client: an event is fired for one that has a domain.
Served(c) ==
    \E cl, o :
        /\ client'[c] = cl /\ \A y \in Clients \ {c} : client'[y] = client[y]
        /\ outcome'[c] = o /\ \A y \in Clients \ {c} : outcome'[y] = outcome[y]
        /\ o # "none"
        /\ DOMAIN Unrouted \subseteq DOMAIN cl /\ Belongs(cl, DomainOf)
        /\ \/ Quiet
           \/ /\ cl.domain \in Domains
              /\ \E n \in ClientEvents \ {"routing"} : queue' = Tail(queue) \o <<Event(n, c)>>

\* Every handler leaves its client as Served says.
LEMMA HandledServes ==
    ASSUME RoutedInvariant, NEW c \in Clients, NEW n \in ClientEvents,
           queue # <<>>, queue[1] = Event(n, c), Handled(n, c)
    PROVE  Served(c)
<1> DEFINE cl0 == client[c]
<1>1. /\ DOMAIN client = Clients /\ DOMAIN outcome = Clients
      /\ 1 \in 1..Len(queue) /\ domains \subseteq Domains
  BY TakenTail DEF RoutedInvariant, TypeOK, Taken
<1>2. /\ outcome[c] # "none"
      /\ IF n = "routing" THEN cl0.resource = NoResource ELSE cl0.domain \in Domains
      /\ DOMAIN Unrouted \subseteq DOMAIN cl0 /\ Belongs(cl0, DomainOf)
  BY <1>1 DEF RoutedInvariant, Awaited, About, Event
<1>3. ASSUME outcome' = outcome \/ \E o : o # "none" /\ outcome' = [outcome EXCEPT ![c] = o],
             client' = client, Quiet
      PROVE  Served(c)
  BY <1>1, <1>2, <1>3 DEF Served
<1>4. ASSUME outcome' = outcome, client' = client, n # "routing",
             NEW m \in ClientEvents \ {"routing"}, Fire(<<Event(m, c)>>)
      PROVE  Served(c)
  BY <1>1, <1>2, <1>4 DEF Served, Fire
<1>5. ASSUME Lost(c) PROVE Served(c)
  BY <1>3, <1>5 DEF Lost, Fire, Quiet
<1>6. CASE n = "routing" /\ OnRouting(c)
  <2> DEFINE cl == HttpOneZero(Proxied(cl0))
  <2>1. PICK hosts, i : Route(c, cl, hosts, i)
    BY <1>6 DEF OnRouting
  <2>2. /\ DOMAIN cl = DOMAIN cl0 /\ cl["resource"] = NoResource
        /\ DOMAIN Unrouted \subseteq DOMAIN cl
    BY <1>2, <1>6, ProxiedKeeps, UnroutedFields
  <2> HIDE DEF cl
  <2>3. CASE i = 0
    BY <1>1, <2>1, <2>2, <2>3 DEF Route, Served, Belongs, Fire, Quiet
  <2>4. CASE i # 0
    <3>1. PICK d \in GetDomain(hosts[i]) :
            \/ /\ hosts[i] # d
               /\ client' = [client EXCEPT ![c] = cl]
               /\ outcome' = [outcome EXCEPT ![c] = "301"]
               /\ Fire(<<>>)
            \/ /\ hosts[i] = d
               /\ client' = [client EXCEPT ![c] =
                                [cl EXCEPT !.domain = d, !.host = IF i = 1 THEN @ ELSE d]]
               /\ Fire(<<Event("routing_success", c)>>)
               /\ UNCHANGED outcome
      BY <2>1, <2>4 DEF Route
    <3>2. d \in Domains
      BY <1>1 DEF GetDomain
    <3>3. CASE client' = [client EXCEPT ![c] = cl]
               /\ outcome' = [outcome EXCEPT ![c] = "301"] /\ Fire(<<>>)
      BY <1>1, <2>2, <3>3 DEF Served, Belongs, Fire, Quiet
    <3>4. CASE /\ client' = [client EXCEPT ![c] =
                                [cl EXCEPT !.domain = d, !.host = IF i = 1 THEN @ ELSE d]]
               /\ Fire(<<Event("routing_success", c)>>)
               /\ UNCHANGED outcome
      <4> DEFINE cl1 == [cl EXCEPT !.domain = d, !.host = IF i = 1 THEN @ ELSE d]
      <4>1. DOMAIN cl1 = DOMAIN cl /\ cl1.domain = d /\ cl1.resource = NoResource
        BY <2>2, UnroutedFields
      <4>2. client'[c] = cl1 /\ \A y \in Clients \ {c} : client'[y] = client[y]
        BY <1>1, <3>4
      <4> HIDE DEF cl1
      <4>3. "routing_success" \in ClientEvents \ {"routing"}
        BY DEF ClientEvents
      <4>4. DOMAIN Unrouted \subseteq DOMAIN cl1 /\ Belongs(cl1, DomainOf)
        BY <2>2, <4>1 DEF Belongs
      <4> QED
        BY <1>2, <3>2, <3>4, <4>1, <4>2, <4>3, <4>4 DEF Served, Fire
    <3> QED
      BY <3>1, <3>3, <3>4
  <2> QED
    BY <2>3, <2>4
<1>7. CASE n = "routing_success" /\ OnRoutingSuccess(c)
  BY <1>4, <1>7 DEF OnRoutingSuccess, ClientEvents
<1>8. CASE n = "domain.routing" /\ OnDomainRouting(c)
  <2>1. CASE Lost(c)
    BY <1>5, <2>1
  <2>2. ASSUME NEW D, client' = [client EXCEPT ![c].declined = D],
               outcome' = [outcome EXCEPT ![c] =
                              IF client[c].method \in {"PUT", "POST"} THEN "403" ELSE "404"],
               Fire(<<>>)
        PROVE  Served(c)
    <3> DEFINE cl == [cl0 EXCEPT !.declined = D]
    <3>1. client'[c] = cl /\ \A y \in Clients \ {c} : client'[y] = client[y]
      BY <1>1, <2>2
    <3>2. DOMAIN cl = DOMAIN cl0 /\ cl.resource = cl0.resource /\ cl.domain = cl0.domain
      BY <1>2, UnroutedFields
    <3> HIDE DEF cl
    <3>3. DOMAIN Unrouted \subseteq DOMAIN cl /\ Belongs(cl, DomainOf)
      BY <1>2, <3>2 DEF Belongs
    <3>4. /\ Quiet /\ outcome'[c] \in {"403", "404"}
          /\ \A y \in Clients \ {c} : outcome'[y] = outcome[y]
      BY <1>1, <2>2 DEF Fire, Quiet
    <3> QED
      BY <3>1, <3>3, <3>4 DEF Served
  <2>3. ASSUME NEW match \in Found(cl0.domain, cl0.path),
               client' = [client EXCEPT ![c].resource = match[1], ![c].path_segments = match[2]],
               Fire(<<Event("domain.routing_success", c)>>), UNCHANGED outcome
        PROVE  Served(c)
    <3> DEFINE cl == [cl0 EXCEPT !.resource = match[1], !.path_segments = match[2]]
    <3>1. client'[c] = cl /\ \A y \in Clients \ {c} : client'[y] = client[y]
      BY <1>1, <2>3
    <3>2. cl0.domain \in Domains
      BY <1>2, <1>8
    <3>3. \E route \in routes[cl0.domain] : match[1] = route.resource
      BY <2>3 DEF Found
    <3>4. match[1] \in Resources /\ DomainOf[match[1]] = cl0.domain
      BY <3>2, <3>3 DEF RoutedInvariant
    <3>5. DOMAIN cl = DOMAIN cl0 /\ cl.resource = match[1] /\ cl.domain = cl0.domain
      BY <1>2, UnroutedFields
    <3> HIDE DEF cl
    <3>6. DOMAIN Unrouted \subseteq DOMAIN cl /\ Belongs(cl, DomainOf)
      BY <1>2, <3>4, <3>5 DEF Belongs
    <3>7. "domain.routing_success" \in ClientEvents \ {"routing"}
      BY DEF ClientEvents
    <3> QED
      BY <1>2, <2>3, <3>1, <3>2, <3>5, <3>6, <3>7 DEF Served, Fire
  <2> QED
    BY <1>8, <2>1, <2>2, <2>3 DEF OnDomainRouting
<1>9. CASE n = "domain.routing_success" /\ OnDomainRoutingSuccess(c)
  BY <1>4, <1>5, <1>9 DEF OnDomainRoutingSuccess, ClientEvents
<1>10. CASE n = "request" /\ OnRequest(c)
  BY <1>3, <1>5, <1>10 DEF OnRequest, Fire, Quiet
<1> QED
  BY <1>6, <1>7, <1>8, <1>9, <1>10 DEF Handled

\* The queue behind the event that is taken
LEMMA QueueMoves ==
    ASSUME TypeOK, queue # <<>>, NEW c \in Clients, NEW n \in ClientEvents
    PROVE  /\ Len(queue) \in Nat \ {0} /\ Len(Tail(queue) \o <<>>) \in Nat
           /\ \A i \in 1..Len(Tail(queue) \o <<>>) :
                 i + 1 \in 1..Len(queue) /\ (Tail(queue) \o <<>>)[i] = queue[i + 1]
           /\ Len(Tail(queue) \o <<Event(n, c)>>) \in Nat
           /\ \A i \in 1..Len(Tail(queue) \o <<Event(n, c)>>) :
                 \/ /\ i + 1 \in 1..Len(queue)
                    /\ (Tail(queue) \o <<Event(n, c)>>)[i] = queue[i + 1]
                 \/ i = Len(queue) /\ (Tail(queue) \o <<Event(n, c)>>)[i] = Event(n, c)
<1>1. queue \in Seq(EventType)
  BY DEF TypeOK
<1>2. Event(n, c) \in EventType /\ Event(n, c).name \notin TreeEvents
  BY EventTypes
<1> QED
  BY <1>1, <1>2, TakenTail, TakenAndFired DEF Taken

\* So the invariant holds behind it, of this client and of the others.
LEMMA ServedRouted ==
    ASSUME RoutedInvariant, TypeOK', NEW c \in Clients, NEW n \in ClientEvents,
           queue # <<>>, queue[1] = Event(n, c), Served(c), UNCHANGED <<tree, routes>>
    PROVE  RoutedInvariant'
<1>1. TypeOK /\ DomainOf' = DomainOf
  BY DomainOfStays DEF RoutedInvariant
<1>2. PICK cl, o :
        /\ client'[c] = cl /\ \A y \in Clients \ {c} : client'[y] = client[y]
        /\ outcome'[c] = o /\ \A y \in Clients \ {c} : outcome'[y] = outcome[y]
        /\ o # "none"
        /\ DOMAIN Unrouted \subseteq DOMAIN cl /\ Belongs(cl, DomainOf)
        /\ \/ Quiet
           \/ /\ cl.domain \in Domains
              /\ \E m \in ClientEvents \ {"routing"} : queue' = Tail(queue) \o <<Event(m, c)>>
  BY DEF Served
<1>3. \E m \in ClientEvents \ {"routing"} :
        /\ Len(queue) \in Nat \ {0} /\ Len(queue') \in Nat
        /\ \A i \in 1..Len(queue') : \/ i + 1 \in 1..Len(queue) /\ queue'[i] = queue[i + 1]
                                     \/ /\ i = Len(queue) /\ queue'[i] = Event(m, c)
                                        /\ cl.domain \in Domains
  <2>1. "request" \in ClientEvents \ {"routing"}
    BY DEF ClientEvents
  <2>2. CASE Quiet
    BY <1>1, <2>1, <2>2, QueueMoves DEF Quiet
  <2>3. ASSUME cl.domain \in Domains, NEW m \in ClientEvents \ {"routing"},
               queue' = Tail(queue) \o <<Event(m, c)>>
        PROVE  /\ Len(queue) \in Nat \ {0} /\ Len(queue') \in Nat
               /\ \A i \in 1..Len(queue') :
                    \/ i + 1 \in 1..Len(queue) /\ queue'[i] = queue[i + 1]
                    \/ i = Len(queue) /\ queue'[i] = Event(m, c) /\ cl.domain \in Domains
    BY <1>1, <2>3, QueueMoves
  <2> QED
    BY <1>2, <2>2, <2>3
<1>4. PICK m \in ClientEvents \ {"routing"} :
        /\ Len(queue) \in Nat \ {0} /\ Len(queue') \in Nat
        /\ \A i \in 1..Len(queue') : \/ i + 1 \in 1..Len(queue) /\ queue'[i] = queue[i + 1]
                                     \/ /\ i = Len(queue) /\ queue'[i] = Event(m, c)
                                        /\ cl.domain \in Domains
  BY <1>3
<1>5. \A y \in Clients : Awaited(queue, client[y], outcome[y], DomainOf, y)
  BY DEF RoutedInvariant
<1>6. Awaited(queue', cl, o, DomainOf, c)
  <2>1. About(queue, 1, c) /\ Awaited(queue, client[c], outcome[c], DomainOf, c)
    BY <1>5 DEF About, Event
  <2>2. /\ m # "routing" /\ o # "none"
        /\ DOMAIN Unrouted \subseteq DOMAIN cl /\ Belongs(cl, DomainOf)
    BY <1>2
  <2> DEFINE cl0 == client[c]
             o0 == outcome[c]
  <2>3. About(queue, 1, c) /\ Awaited(queue, cl0, o0, DomainOf, c)
    BY <2>1
  <2> HIDE DEF cl0, o0
  <2> QED
    BY <1>4, <2>2, <2>3, AwaitedServed
<1>7. ASSUME NEW y \in Clients \ {c} PROVE Awaited(queue', client[y], outcome[y], DomainOf, y)
  <2>1. \A i \in 1..Len(queue') : About(queue', i, y) =>
            i + 1 \in 1..Len(queue) /\ queue'[i] = queue[i + 1]
    BY <1>4 DEF About, Event
  <2> QED
    BY <1>4, <1>5, <2>1, AwaitedAside
<1>8. \A y \in Clients : Awaited(queue', client'[y], outcome'[y], DomainOf, y)
  BY <1>2, <1>6, <1>7
<1> QED
  BY <1>1, <1>8 DEF RoutedInvariant

\* Without anything fired or said to clients
LEMMA QuietRouted ==
    ASSUME RoutedInvariant, TypeOK', queue # <<>>, Quiet, UNCHANGED <<tree, client, outcome>>,
           \A d \in Domains : \A route \in routes'[d] :
              route.resource \in Resources /\ DomainOf[route.resource] = d
    PROVE  RoutedInvariant'
<1>1. TypeOK /\ DomainOf' = DomainOf
  BY DomainOfStays DEF RoutedInvariant
<1>2. /\ Len(queue) \in Nat /\ Len(queue') \in Nat
      /\ \A i \in 1..Len(queue') : i + 1 \in 1..Len(queue) /\ queue'[i] = queue[i + 1]
  <2>1. queue \in Seq(EventType)
    BY <1>1 DEF TypeOK
  <2> QED
    BY <2>1, TakenTail DEF Quiet, Taken
<1>3. \A y \in Clients : Awaited(queue', client[y], outcome[y], DomainOf, y)
  BY <1>2, AwaitedAside DEF RoutedInvariant
<1> QED
  BY <1>1, <1>3 DEF RoutedInvariant

\* Every dispatch keeps the invariant.
LEMMA DispatchRouted == ASSUME RoutedInvariant, Dispatch PROVE RoutedInvariant'
<1>1. TypeOK /\ TypeOK'
  BY StepTypeOK DEF RoutedInvariant, Next
<1>2. queue # <<>> /\ Head(queue) = queue[1] /\ UNCHANGED tree
  BY <1>1, DispatchCases
<1>3. CASE \E x \in Components : (OnRegistered(x) \/ OnUnregistered(x)) /\ Quiet
  <2>1. Quiet /\ UNCHANGED <<tree, client, outcome, routes>>
    BY <1>2, <1>3 DEF OnRegistered, OnUnregistered
  <2>2. \A d \in Domains : \A route \in routes'[d] :
          route.resource \in Resources /\ DomainOf[route.resource] = d
    BY <2>1 DEF RoutedInvariant
  <2> QED
    BY <1>1, <1>2, <2>1, <2>2, QuietRouted
<1>4. CASE \E d \in Domains : OnRoutesCreate(d) /\ Quiet
  <2>1. PICK d \in Domains : OnRoutesCreate(d) /\ Quiet
    BY <1>4
  <2> DEFINE new == OwnRoutes(AllChilds(d))
                      \cup {RouteTo(r, Tokenize(BuildTreePath(r))) : r \in AllChilds(d)}
  <2>2. \A route \in new : route.resource \in Resources /\ DomainOf[route.resource] = d
    BY DEF AllChilds, OwnRoutes, RouteTo
  <2>3. routes' = [routes EXCEPT ![d] = new] \/ routes' = routes
    BY <2>1 DEF OnRoutesCreate
  <2> HIDE DEF new
  <2>4. \A y \in Domains : \A route \in routes'[y] :
          route.resource \in Resources /\ DomainOf[route.resource] = y
    BY <1>1, <2>2, <2>3 DEF RoutedInvariant, TypeOK
  <2>5. UNCHANGED <<client, outcome>>
    BY <2>1 DEF OnRoutesCreate
  <2> QED
    BY <1>1, <1>2, <2>1, <2>4, <2>5, QuietRouted
<1>5. ASSUME NEW c \in Clients, NEW n \in ClientEvents, Head(queue) = Event(n, c),
             Handled(n, c), Routed(c)
      PROVE  RoutedInvariant'
  <2>1. Served(c) /\ UNCHANGED <<tree, routes>>
    BY <1>2, <1>5, HandledServes DEF Routed
  <2> QED
    BY <1>1, <1>2, <1>5, <2>1, ServedRouted
<1> QED
  BY <1>1, <1>3, <1>4, <1>5, DispatchCases

\* An event is put into the queue that is not about a client.
LEMMA AsideRouted ==
    ASSUME RoutedInvariant, TypeOK', NEW n, n \notin ClientEvents, NEW x, Puts(Event(n, x)),
           UNCHANGED <<tree, routes, client, outcome>>
    PROVE  RoutedInvariant'
<1>1. queue \in Seq(EventType) /\ DomainOf' = DomainOf
  BY DomainOfStays DEF RoutedInvariant, TypeOK
<1>2. Event(n, x).name \notin ClientEvents
  BY DEF Event
<1>3. \A c \in Clients : Awaited(queue', client[c], outcome[c], DomainOf, c)
  BY <1>1, <1>2, AwaitedAppended DEF RoutedInvariant, Puts
<1> QED
  BY <1>1, <1>3 DEF RoutedInvariant

\* A new client is awaited by one event and has no resource.
LEMMA ArriveRouted == ASSUME RoutedInvariant, NEW c \in Clients, Arrive(c) PROVE RoutedInvariant'
<1>1. /\ TypeOK /\ TypeOK' /\ DomainOf' = DomainOf /\ queue \in Seq(EventType)
      /\ DOMAIN client = Clients /\ DOMAIN outcome = Clients /\ Len(queue) \in Nat
  BY StepTypeOK, DomainOfStays, LenProperties DEF RoutedInvariant, Next, Arrive, treeVars, TypeOK
<1>2. /\ outcome[c] = "none" /\ outcome' = [outcome EXCEPT ![c] = "routing"]
      /\ queue' = Append(queue, Event("routing", c)) /\ UNCHANGED routes
  BY DEF Arrive
<1>3. Event("routing", c) \in EventType
  BY EventTypes DEF ClientEvents
<1> DEFINE cl(r) == [f \in RequestFields \cup DOMAIN Unrouted |->
                        IF f \in RequestFields THEN r[f] ELSE Unrouted[f]]
<1>4. PICK r \in Requests : client' = [client EXCEPT ![c] = cl(r)]
  BY DEF Arrive
<1>5. DOMAIN Unrouted \subseteq DOMAIN cl(r) /\ cl(r).resource = NoResource
  <2>1. "resource" \notin RequestFields /\ "resource" \in DOMAIN Unrouted
    BY UnroutedFields DEF RequestFields
  <2>2. cl(r)["resource"] = Unrouted["resource"]
    BY <2>1
  <2>3. DOMAIN cl(r) = RequestFields \cup DOMAIN Unrouted
    OBVIOUS
  <2> HIDE DEF cl
  <2> QED
    BY <2>2, <2>3 DEF Unrouted
<1> HIDE DEF cl
<1>6. \A i \in 1..Len(queue) : ~About(queue, i, c)
  BY <1>2 DEF RoutedInvariant, Awaited
<1>7. Awaited(queue', cl(r), "routing", DomainOf, c)
  <2>1. /\ Len(queue') = Len(queue) + 1 /\ queue'[Len(queue) + 1] = Event("routing", c)
        /\ \A i \in 1..Len(queue) : queue'[i] = queue[i]
    BY <1>1, <1>2, <1>3, Appended
  <2>2. \A i \in 1..Len(queue') : About(queue', i, c) => i = Len(queue) + 1
    BY <1>1, <1>6, <2>1 DEF About
  <2>3. \A i \in 1..Len(queue') : About(queue', i, c) => queue'[i].name = "routing"
    BY <2>1, <2>2 DEF Event
  <2> QED
    BY <1>5, <2>2, <2>3 DEF Awaited, Belongs
<1>8. ASSUME NEW y \in Clients \ {c} PROVE Awaited(queue', client[y], outcome[y], DomainOf, y)
  <2>1. Awaited(queue, client[y], outcome[y], DomainOf, y) /\ Event("routing", c).of # y
    BY DEF RoutedInvariant, Event
  <2> QED
    BY <1>1, <1>2, <1>3, <2>1, AwaitedAppended
<1>9. \A y \in Clients : Awaited(queue', client'[y], outcome'[y], DomainOf, y)
  <2>1. client'[c] = cl(r) /\ \A y \in Clients \ {c} : client'[y] = client[y]
    BY <1>1, <1>4
  <2>2. outcome'[c] = "routing" /\ \A y \in Clients \ {c} : outcome'[y] = outcome[y]
    BY <1>1, <1>2
  <2> QED
    BY <1>7, <1>8, <2>1, <2>2
<1>10. \A d \in Domains : \A route \in routes'[d] :
          route.resource \in Resources /\ DomainOf[route.resource] = d
  BY <1>2 DEF RoutedInvariant
<1> QED
  BY <1>1, <1>9, <1>10 DEF RoutedInvariant

\* No client is there at the start.
LEMMA InitRouted == ASSUME Init PROVE RoutedInvariant
<1>1. \A i \in 1..Len(queue) : queue[i].name \notin ClientEvents
  <2>1. \A d : Event("routes.create", d).name \notin ClientEvents
    BY DEF Event, ClientEvents
  <2> QED
    BY <2>1, FirstEvents
<1>2. ASSUME NEW c \in Clients PROVE Awaited(queue, client[c], outcome[c], DomainOf, c)
  <2>1. client[c] = Unrouted /\ Unrouted.resource = NoResource
    BY DEF Init, Unrouted
  <2> QED
    BY <1>1, <2>1 DEF Awaited, About, Belongs
<1>3. \A d \in Domains : routes[d] = {}
  BY DEF Init
<1> QED
  BY <1>2, <1>3, InitTypeOK DEF RoutedInvariant

\* Every step keeps the invariant.
LEMMA StepRouted == ASSUME RoutedInvariant, [Next]_vars PROVE RoutedInvariant'
<1>1. TypeOK'
  BY StepTypeOK DEF RoutedInvariant
<1>2. ASSUME NEW x \in Components, Register(x) PROVE RoutedInvariant'
  <2>1. Puts(Event("registered", x)) /\ "registered" \notin ClientEvents
    BY <1>2, EventTypes DEF Register, Puts, ClientEvents
  <2> QED
    BY <1>1, <1>2, <2>1, AsideRouted DEF Register
<1>3. ASSUME NEW x \in Components, Unregister(x) PROVE RoutedInvariant'
  <2>1. Puts(Event("unregistered", x)) /\ "unregistered" \notin ClientEvents
    BY <1>3, EventTypes DEF Unregister, Puts, ClientEvents
  <2> QED
    BY <1>1, <1>3, <2>1, AsideRouted DEF Unregister
<1>4. ASSUME NEW d \in Domains, RecreateRoutes(d) PROVE RoutedInvariant'
  <2>1. Puts(Event("routes.create", d)) /\ "routes.create" \notin ClientEvents
    BY <1>4, EventTypes DEF RecreateRoutes, Puts, ClientEvents
  <2> QED
    BY <1>1, <1>4, <2>1, AsideRouted DEF RecreateRoutes
<1>5. CASE UNCHANGED vars
  <2>1. DomainOf' = DomainOf /\ UNCHANGED <<routes, client, outcome, queue>>
    BY <1>5, DomainOfStays DEF vars, treeVars
  <2> QED
    BY <1>1, <2>1 DEF RoutedInvariant
<1> QED
  BY <1>2, <1>3, <1>4, <1>5, DispatchRouted, ArriveRouted DEF Next

\* A request is led into a domain of the server before anybody looks for its
\* resource, and to a resource below that domain only (DomainRouter,
\* RegexPathRouter), for one event at a time.
THEOREM RoutedWithinTheDomain == Spec => []RoutingInvariant
<1>1. Init => RoutedInvariant
  BY InitRouted
<1>2. RoutedInvariant /\ [Next]_vars => RoutedInvariant'
  BY StepRouted
<1>3. RoutedInvariant => RoutingInvariant
  <2>1. SUFFICES ASSUME RoutedInvariant PROVE RoutingInvariant
    OBVIOUS
  <2>2. TypeOK /\ DOMAIN queue = 1..Len(queue)
    BY <2>1, LenProperties DEF RoutedInvariant, TypeOK
  <2>3. ASSUME NEW i \in DOMAIN queue, queue[i].name \in ClientEvents
        PROVE  /\ outcome[queue[i].of] # "none"
               /\ queue[i].name # "routing" => client[queue[i].of].domain \in Domains
    <3>1. queue[i].of \in Clients
      <4>1. queue[i] \in EventType
        BY <2>2, <2>3, ElementOfSeq DEF TypeOK
      <4> QED
        BY <2>3, <4>1, EventsOf
    <3>2. About(queue, i, queue[i].of) /\ i \in 1..Len(queue)
      BY <2>2, <2>3 DEF About
    <3> QED
      BY <2>1, <3>1, <3>2 DEF RoutedInvariant, Awaited
  <2>4. \A c \in Clients : client[c].resource # NoResource =>
          /\ client[c].resource \in Resources
          /\ DomainOf[client[c].resource] = client[c].domain
    BY <2>1 DEF RoutedInvariant, Awaited, Belongs
  <2> QED
    BY <2>1, <2>2, <2>3, <2>4 DEF RoutingInvariant, RoutedInvariant
<1> QED
  BY <1>1, <1>2, <1>3, PTL DEF Spec

-----------------------------------------------------------------------------
(* No host is refused that has a domain *)

NatLess == {ss \in Nat \X Nat : ss[1] < ss[2]}

\* The well-founded order of the natural numbers: a set has a least one.
LEMMA LeastNumber ==
    ASSUME NEW S, S \subseteq Nat, S # {}
    PROVE  \E i \in S : \A j \in S : i <= j
<1>1. IsWellFoundedOn(NatLess, Nat)
  BY NatLessThanWellFounded DEF OpToRel, NatLess
<1>2. PICK i \in S : \A j \in S : ~(<<j, i>> \in NatLess)
  BY <1>1, WFMin
<1>3. ASSUME NEW j \in S PROVE i <= j
  <2>1. i \in Nat /\ j \in Nat
    OBVIOUS
  <2>2. j < i => <<j, i>> \in NatLess
    BY <2>1 DEF NatLess
  <2> QED
    BY <1>2, <2>1, <2>2
<1> QED
  BY <1>3

\* If no host is known, none of them has a domain.
LEMMA UnknownHosts ==
    ASSUME NEW T, NEW hosts \in Seq(T), Known(hosts) = 0
    PROVE  \A i \in 1..Len(hosts) : GetDomain(hosts[i]) = {}
<1> DEFINE I == {i \in 1..Len(hosts) : GetDomain(hosts[i]) # {}}
<1>1. Known(hosts) = IF I # {} THEN Min(I) ELSE 0
  BY DEF Known, SelectInSeq
<1>2. I # {} => Min(I) \in I
  <2>1. I \subseteq Nat
    BY LenProperties
  <2> HIDE DEF I
  <2> QED
    BY <2>1, LeastNumber DEF Min
<1>3. 0 \notin I
  OBVIOUS
<1>4. I = {}
  <2> HIDE DEF I
  <2> QED
    BY <1>1, <1>2, <1>3
<1> QED
  BY <1>4

\* The hosts of a request name no domain that has been there from the start.
NamesNone(cl, att) ==
    \A d \in Domains \intersect Initially \intersect att :
        ({d} \cup Aliases[d]) \intersect ({cl.host} \cup Range(cl.x_forwarded_host)) = {}

\* The inductive invariant behind HostRefusedMeansAbsent
HostInvariant ==
    /\ RegistryInvariant /\ RoutedInvariant
    /\ \A x \in Components \intersect Initially : x \in added /\ ~Has(queue, "registered", x)
    /\ \A c \in Clients : outcome[c] # "none" =>
          "x_forwarded_host" \in DOMAIN client[c] /\ client[c].x_forwarded_host \in Seq(Hosts)
    /\ \A c \in Clients : outcome[c] = "400" =>
          NamesNone(client[c], attached) /\ \A i \in 1..Len(queue) : ~About(queue, i, c)

\* A domain that has not been unregistered is known.
LEMMA StillKnown ==
    ASSUME HostInvariant, NEW d \in Domains \intersect Initially \intersect attached
    PROVE  d \in domains
<1>1. d \in Components
  BY DEF Components
<1>2. Follows(queue, attached, d, d \in domains) /\ ~Has(queue, "registered", d)
  BY <1>1 DEF HostInvariant, RegistryInvariant
<1> QED
  BY <1>2 DEF Follows

\* What a handler does for its client: the hosts of the request stay a
\* sequence, and it is refused for a host only where none has a domain.
Refuses(c) ==
    /\ "x_forwarded_host" \in DOMAIN client'[c] /\ client'[c].x_forwarded_host \in Seq(Hosts)
    /\ outcome'[c] = "400" => Quiet /\ NamesNone(client'[c], attached)

\* Every handler does.
LEMMA HandledRefuses ==
    ASSUME HostInvariant, NEW c \in Clients, NEW n \in ClientEvents,
           queue # <<>>, queue[1] = Event(n, c), Handled(n, c), outcome[c] # "400"
    PROVE  Refuses(c)
<1> DEFINE cl0 == client[c]
<1>1. DOMAIN client = Clients /\ DOMAIN outcome = Clients /\ RoutedInvariant /\ TypeOK
  BY DEF HostInvariant, RoutedInvariant, TypeOK
<1>2. "x_forwarded_host" \in DOMAIN cl0 /\ cl0.x_forwarded_host \in Seq(Hosts)
  <2>1. 1 \in 1..Len(queue)
    BY <1>1, TakenTail DEF TypeOK, Taken
  <2>2. outcome[c] # "none"
    BY <1>1, <2>1 DEF RoutedInvariant, Awaited, About, Event
  <2> QED
    BY <2>2 DEF HostInvariant
<1>3. ASSUME client' = client, outcome' = outcome \/ \E o : o # "400" /\ outcome' = [outcome EXCEPT ![c] = o]
      PROVE  Refuses(c)
  BY <1>1, <1>2, <1>3 DEF Refuses
<1>4. CASE n = "routing" /\ OnRouting(c)
  <2> DEFINE cl == HttpOneZero(Proxied(cl0))
             hosts == <<cl.host>> \o cl.x_forwarded_host
  <2>1. Route(c, cl, hosts, Known(hosts))
    BY <1>4 DEF OnRouting
  <2>2. "x_forwarded_host" \in DOMAIN cl /\ cl.x_forwarded_host \in Seq(Hosts)
    <3>1. DOMAIN Proxied(cl0) = DOMAIN cl0
          /\ Proxied(cl0)["x_forwarded_host"] = cl0["x_forwarded_host"]
      BY <1>2 DEF Proxied
    <3> DEFINE px == Proxied(cl0)
    <3>2. DOMAIN px = DOMAIN cl0 /\ px["x_forwarded_host"] = cl0["x_forwarded_host"]
      BY <3>1
    <3> HIDE DEF px
    <3>3. DOMAIN HttpOneZero(px) = DOMAIN px
          /\ HttpOneZero(px)["x_forwarded_host"] = px["x_forwarded_host"]
      BY <1>2, <3>2 DEF HttpOneZero
    <3> QED
      BY <1>2, <3>2, <3>3 DEF px
  <2> HIDE DEF cl
  <2>3. CASE Known(hosts) = 0
    <3>1. client'[c] = cl /\ Quiet
      BY <1>1, <2>1, <2>3 DEF Route, Fire, Quiet
    <3>2. /\ hosts \in Seq(Hosts \cup {cl.host})
          /\ \A h \in {cl.host} \cup Range(cl.x_forwarded_host) : \E i \in 1..Len(hosts) : hosts[i] = h
      <4> DEFINE first == <<cl.host>>
                 rest == cl.x_forwarded_host
                 T == Hosts \cup {cl.host}
      <4>1. /\ first \in Seq(T) /\ Len(first) = 1 /\ first[1] = cl.host
            /\ rest \in Seq(T) /\ Len(rest) \in Nat /\ DOMAIN rest = 1..Len(rest)
        BY <2>2, SeqMonotonic, LenProperties
      <4>2. /\ first \o rest \in Seq(T) /\ Len(first \o rest) = Len(first) + Len(rest)
            /\ \A i \in 1..Len(first) + Len(rest) :
                  (first \o rest)[i] = IF i <= Len(first) THEN first[i] ELSE rest[i - Len(first)]
        BY <4>1, ConcatProperties
      <4> HIDE DEF first, rest
      <4> DEFINE all == first \o rest
      <4>3. /\ all \in Seq(T) /\ Len(all) = 1 + Len(rest)
            /\ \A i \in 1..1 + Len(rest) : all[i] = IF i <= 1 THEN first[i] ELSE rest[i - 1]
        BY <4>1, <4>2
      <4> HIDE DEF all
      <4>4. 1 \in 1..Len(all) /\ all[1] = cl.host
        BY <4>1, <4>3
      <4>5. ASSUME NEW i \in 1..Len(rest) PROVE i + 1 \in 1..Len(all) /\ all[i + 1] = rest[i]
        BY <4>1, <4>3
      <4>6. \A h \in Range(rest) : \E i \in 1..Len(rest) : h = rest[i]
        BY <4>1 DEF Range
      <4>7. \A h \in {cl.host} \cup Range(rest) : \E i \in 1..Len(all) : all[i] = h
        BY <4>4, <4>5, <4>6
      <4> QED
        BY <4>3, <4>7 DEF all, first, rest
    <3> HIDE DEF hosts
    <3>3. \A h \in {cl.host} \cup Range(cl.x_forwarded_host) : GetDomain(h) = {}
      BY <2>3, <3>2, UnknownHosts
    <3>4. \A d \in Domains \intersect Initially \intersect attached :
            \A h \in {d} \cup Aliases[d] : d \in GetDomain(h)
      BY StillKnown DEF GetDomain
    <3>5. NamesNone(cl, attached)
      BY <3>3, <3>4 DEF NamesNone
    <3> QED
      BY <2>2, <3>1, <3>5 DEF Refuses
  <2>4. CASE Known(hosts) # 0
    <3> HIDE DEF hosts
    <3>1. PICK d :
            \/ /\ client' = [client EXCEPT ![c] = cl]
               /\ outcome' = [outcome EXCEPT ![c] = "301"]
            \/ /\ client' = [client EXCEPT ![c] =
                                [cl EXCEPT !.domain = d, !.host = IF Known(hosts) = 1 THEN @ ELSE d]]
               /\ UNCHANGED outcome
      BY <2>1, <2>4 DEF Route
    <3>2. CASE /\ client' = [client EXCEPT ![c] = cl]
               /\ outcome' = [outcome EXCEPT ![c] = "301"]
      BY <1>1, <2>2, <3>2 DEF Refuses
    <3>3. CASE /\ client' = [client EXCEPT ![c] =
                                [cl EXCEPT !.domain = d, !.host = IF Known(hosts) = 1 THEN @ ELSE d]]
               /\ UNCHANGED outcome
      BY <1>1, <2>2, <3>3 DEF Refuses
    <3> QED
      BY <3>1, <3>2, <3>3
  <2> QED
    BY <2>3, <2>4
<1>5. CASE n = "routing_success" /\ OnRoutingSuccess(c)
  BY <1>3, <1>5 DEF OnRoutingSuccess
<1>6. CASE n = "domain.routing" /\ OnDomainRouting(c)
  <2>1. CASE UNCHANGED client /\ \E o : o # "400" /\ outcome' = [outcome EXCEPT ![c] = o]
    BY <1>3, <2>1
  <2>3. ASSUME NEW D, client' = [client EXCEPT ![c].declined = D],
               \E o : o # "400" /\ outcome' = [outcome EXCEPT ![c] = o]
        PROVE  Refuses(c)
    <3> DEFINE cl == [cl0 EXCEPT !.declined = D]
    <3>1. client'[c] = cl /\ outcome'[c] # "400"
      BY <1>1, <2>3
    <3>2. "x_forwarded_host" \in DOMAIN cl /\ cl.x_forwarded_host \in Seq(Hosts)
      BY <1>2
    <3> HIDE DEF cl
    <3> QED
      BY <3>1, <3>2 DEF Refuses
  <2>2. ASSUME NEW match, UNCHANGED outcome,
               client' = [client EXCEPT ![c].resource = match[1], ![c].path_segments = match[2]]
        PROVE  Refuses(c)
    <3> DEFINE cl == [cl0 EXCEPT !.resource = match[1], !.path_segments = match[2]]
    <3>1. client'[c] = cl /\ outcome'[c] # "400"
      BY <1>1, <2>2
    <3>2. "x_forwarded_host" \in DOMAIN cl /\ cl.x_forwarded_host \in Seq(Hosts)
      BY <1>2
    <3> HIDE DEF cl
    <3> QED
      BY <3>1, <3>2 DEF Refuses
  <2> QED
    BY <1>6, <2>1, <2>2, <2>3 DEF OnDomainRouting, Lost
<1>7. CASE n = "domain.routing_success" /\ OnDomainRoutingSuccess(c)
  BY <1>3, <1>7 DEF OnDomainRoutingSuccess, Lost
<1>8. CASE n = "request" /\ OnRequest(c)
  BY <1>3, <1>8 DEF OnRequest, Lost
<1> QED
  BY <1>4, <1>5, <1>6, <1>7, <1>8 DEF Handled

\* What is never registered again: what has been there from the start
Standing(x) == x \in added /\ ~Has(queue, "registered", x)

\* Steps that leave the clients alone
LEMMA AsideHosts ==
    ASSUME HostInvariant, RegistryInvariant', RoutedInvariant', UNCHANGED <<client, outcome>>,
           \A x \in Components \intersect Initially : Standing(x)',
           Domains \intersect Initially \intersect attached' \subseteq attached,
           \A c \in Clients : (\E i \in 1..Len(queue') : About(queue', i, c))
                                => \E i \in 1..Len(queue) : About(queue, i, c)
    PROVE  HostInvariant'
<1>1. \A c \in Clients : outcome[c] = "400" =>
          NamesNone(client[c], attached') /\ \A i \in 1..Len(queue') : ~About(queue', i, c)
  BY DEF HostInvariant, NamesNone
<1> QED
  BY <1>1 DEF HostInvariant, Standing

\* An event is appended that is not about a client, and what is registered is
\* new.
LEMMA AppendedHosts ==
    ASSUME HostInvariant, RegistryInvariant', RoutedInvariant', UNCHANGED <<client, outcome>>,
           NEW n, n \notin ClientEvents, NEW x, Puts(Event(n, x)),
           n = "registered" => x \notin added, added \subseteq added',
           attached' \subseteq attached \cup (added' \ added)
    PROVE  HostInvariant'
<1>1. TypeOK /\ queue \in Seq(EventType) /\ Event(n, x) \in EventType
      /\ queue' = Append(queue, Event(n, x))
  BY DEF HostInvariant, RegistryInvariant, TypeOK, Puts
<1>2. /\ Len(queue) \in Nat /\ Len(queue') = Len(queue) + 1
      /\ \A i \in 1..Len(queue) : queue'[i] = queue[i]
      /\ queue'[Len(queue) + 1] = Event(n, x)
  BY <1>1, Appended
<1>3. ASSUME NEW y \in Components \intersect Initially PROVE Standing(y)'
  <2>1. y \in added /\ ~Has(queue, "registered", y)
    BY DEF HostInvariant
  <2>2. Event(n, x) # Event("registered", y)
    BY <2>1 DEF Event
  <2>3. ASSUME NEW i \in 1..Len(queue'), queue'[i] = Event("registered", y) PROVE FALSE
    <3>1. i \in 1..Len(queue)
      BY <1>2, <2>2, <2>3
    <3> QED
      BY <1>2, <2>1, <2>3, <3>1 DEF Has
  <2> QED
    BY <2>1, <2>3 DEF Standing, Has
<1>4. Domains \intersect Initially \intersect attached' \subseteq attached
  BY DEF HostInvariant, Components
<1>5. ASSUME NEW c, NEW i \in 1..Len(queue'), About(queue', i, c)
      PROVE  \E j \in 1..Len(queue) : About(queue, j, c)
  <2>1. queue'[i] # Event(n, x)
    BY <1>5 DEF About, Event
  <2>2. i \in 1..Len(queue)
    BY <1>2, <2>1
  <2> QED
    BY <1>2, <1>5, <2>2 DEF About
<1> QED
  BY <1>3, <1>4, <1>5, AsideHosts

\* A dispatch, the only step that refuses anybody
LEMMA DispatchHosts == ASSUME HostInvariant, Dispatch PROVE HostInvariant'
<1>1. /\ TypeOK /\ RegistryInvariant' /\ RoutedInvariant'
      /\ DOMAIN client = Clients /\ DOMAIN outcome = Clients
  BY DispatchRegistry, DispatchRouted DEF HostInvariant, RegistryInvariant, TypeOK
<1>2. /\ queue # <<>> /\ Head(queue) = queue[1]
      /\ UNCHANGED <<tree, attached, added, changes>> /\ queue \in Seq(EventType)
  BY <1>1, DispatchCases DEF TypeOK
<1>3. Taken(queue, queue')
  <2>1. \E c : Quiet \/ (c \in Clients /\ Fires(c))
    BY <1>1, DispatchCases DEF Routed
  <2> QED
    BY <1>1, <1>2, <2>1, DispatchTakes
<1>4. \A x \in Components \intersect Initially : Standing(x)'
  <2>1. \A x \in Components \intersect Initially : x \in added /\ ~Has(queue', "registered", x)
    BY <1>3, TakenHas DEF HostInvariant, TreeEvents
  <2> QED
    BY <1>2, <2>1 DEF Standing
<1>5. CASE Quiet /\ UNCHANGED <<client, outcome>>
  <2>1. \A i \in 1..Len(queue') : i + 1 \in 1..Len(queue) /\ queue'[i] = queue[i + 1]
    BY <1>2, <1>5, TakenTail DEF Quiet
  <2>2. \A c \in Clients : (\E i \in 1..Len(queue') : About(queue', i, c))
                                => \E i \in 1..Len(queue) : About(queue, i, c)
    BY <2>1 DEF About
  <2> QED
    BY <1>1, <1>2, <1>4, <1>5, <2>2, AsideHosts
<1>6. ASSUME NEW c \in Clients, NEW n \in ClientEvents, Head(queue) = Event(n, c),
             Handled(n, c), Routed(c)
      PROVE  HostInvariant'
  <2>1. 1 \in 1..Len(queue) /\ About(queue, 1, c)
    BY <1>2, <1>3, <1>6 DEF Taken, About, Event
  <2>2. outcome[c] # "400"
    BY <2>1 DEF HostInvariant
  <2>3. Refuses(c) /\ Served(c)
    BY <1>2, <1>6, <2>2, HandledRefuses, HandledServes DEF HostInvariant
  <2>4. \A y \in Clients \ {c} : client'[y] = client[y] /\ outcome'[y] = outcome[y]
    BY <2>3 DEF Served
  <2>5. \A y \in Clients : outcome'[y] # "none" =>
          "x_forwarded_host" \in DOMAIN client'[y] /\ client'[y].x_forwarded_host \in Seq(Hosts)
    BY <2>3, <2>4 DEF HostInvariant, Refuses
  <2>6. ASSUME NEW i \in 1..Len(queue')
        PROVE  \/ i + 1 \in 1..Len(queue) /\ queue'[i] = queue[i + 1]
               \/ ~Quiet /\ queue'[i].of = c
    <3>1. CASE Quiet
      BY <1>2, <3>1, TakenTail DEF Quiet
    <3>2. ASSUME ~Quiet, NEW m \in ClientEvents, queue' = Tail(queue) \o <<Event(m, c)>>
          PROVE  \/ i + 1 \in 1..Len(queue) /\ queue'[i] = queue[i + 1]
                 \/ ~Quiet /\ queue'[i].of = c
      BY <1>1, <1>2, <3>2, QueueMoves DEF Event
    <3> QED
      BY <1>6, <3>1, <3>2 DEF Routed, Fires
  <2>7. \A i \in 1..Len(queue) : \A y : About(queue, i, y) /\ y = c => i = 1
    BY <2>1 DEF HostInvariant, RoutedInvariant, Awaited
  <2>8. ASSUME NEW y \in Clients, outcome'[y] = "400"
        PROVE  NamesNone(client'[y], attached) /\ \A i \in 1..Len(queue') : ~About(queue', i, y)
    <3>1. CASE y = c
      <4>1. Quiet /\ NamesNone(client'[c], attached)
        BY <2>3, <2>8, <3>1 DEF Refuses
      <4>2. \A i \in 1..Len(queue') : i + 1 \in 1..Len(queue) /\ queue'[i] = queue[i + 1]
        BY <2>6, <4>1
      <4>3. \A i \in 1..Len(queue') : About(queue', i, c) => i + 1 = 1
        BY <2>7, <4>2 DEF About
      <4>4. \A i \in 1..Len(queue') : i + 1 # 1
        BY <1>3 DEF Taken
      <4> QED
        BY <3>1, <4>1, <4>3, <4>4
    <3>2. CASE y # c
      <4>1. /\ NamesNone(client[y], attached) /\ client'[y] = client[y]
            /\ \A i \in 1..Len(queue) : ~About(queue, i, y)
        BY <2>4, <2>8, <3>2 DEF HostInvariant
      <4> QED
        BY <2>6, <3>2, <4>1 DEF About
    <3> QED
      BY <3>1, <3>2
  <2> QED
    BY <1>1, <1>2, <1>4, <2>5, <2>8 DEF HostInvariant, Standing
<1>7. CASE \E x \in Components : (OnRegistered(x) \/ OnUnregistered(x)) /\ Quiet
  BY <1>5, <1>7 DEF OnRegistered, OnUnregistered
<1>8. CASE \E d \in Domains : OnRoutesCreate(d) /\ Quiet
  BY <1>5, <1>8 DEF OnRoutesCreate
<1> QED
  BY <1>1, <1>6, <1>7, <1>8, DispatchCases

\* A request that arrives has not been refused.
LEMMA ArriveHosts == ASSUME HostInvariant, NEW c \in Clients, Arrive(c) PROVE HostInvariant'
<1>1. /\ TypeOK /\ RegistryInvariant' /\ RoutedInvariant' /\ queue \in Seq(EventType)
      /\ DOMAIN client = Clients /\ DOMAIN outcome = Clients
  BY StepRegistry, StepRouted DEF HostInvariant, RegistryInvariant, TypeOK, Next
<1>2. /\ outcome[c] = "none" /\ outcome' = [outcome EXCEPT ![c] = "routing"]
      /\ queue' = Append(queue, Event("routing", c)) /\ UNCHANGED <<tree, attached, added>>
  BY DEF Arrive, treeVars
<1>3. Event("routing", c) \in EventType
  BY EventTypes DEF ClientEvents
<1>4. /\ Len(queue) \in Nat /\ Len(queue') = Len(queue) + 1
      /\ \A i \in 1..Len(queue) : queue'[i] = queue[i]
      /\ queue'[Len(queue) + 1] = Event("routing", c)
  BY <1>1, <1>2, <1>3, Appended
<1>5. ASSUME NEW x \in Components \intersect Initially PROVE Standing(x)'
  <2>1. Event("routing", c) # Event("registered", x) /\ Event("routing", c) # Event("unregistered", x)
    BY DEF Event
  <2>2. Has(queue', "registered", x) <=> Has(queue, "registered", x)
    BY <1>1, <1>2, <1>3, <2>1, AppendedTold DEF TreeEvents
  <2> QED
    BY <1>2, <2>2 DEF HostInvariant, Standing
<1>6. PICK r \in Requests : client'[c] = [f \in RequestFields \cup DOMAIN Unrouted |->
                                             IF f \in RequestFields THEN r[f] ELSE Unrouted[f]]
  BY <1>1 DEF Arrive
<1>7. \A y \in Clients \ {c} : client'[y] = client[y] /\ outcome'[y] = outcome[y]
  BY <1>1 DEF Arrive
<1>8. "x_forwarded_host" \in DOMAIN client'[c] /\ client'[c].x_forwarded_host \in Seq(Hosts)
  <2>1. "x_forwarded_host" \in RequestFields
    BY DEF RequestFields
  <2>2. r["x_forwarded_host"] \in Seq(Hosts)
    BY RoutingAssumption DEF RoutingAssumption
  <2> QED
    BY <1>6, <2>1, <2>2
<1>9. \A y \in Clients : outcome'[y] # "none" =>
          "x_forwarded_host" \in DOMAIN client'[y] /\ client'[y].x_forwarded_host \in Seq(Hosts)
  BY <1>7, <1>8 DEF HostInvariant
<1>10. ASSUME NEW y \in Clients, outcome'[y] = "400"
       PROVE  NamesNone(client'[y], attached) /\ \A i \in 1..Len(queue') : ~About(queue', i, y)
  <2>1. y # c
    BY <1>1, <1>2, <1>10
  <2>2. /\ NamesNone(client[y], attached) /\ client'[y] = client[y]
        /\ \A i \in 1..Len(queue) : ~About(queue, i, y)
    BY <1>7, <1>10, <2>1 DEF HostInvariant
  <2>3. ASSUME NEW i \in 1..Len(queue'), About(queue', i, y) PROVE FALSE
    <3>1. i # Len(queue) + 1
      BY <1>4, <2>1, <2>3 DEF About, Event
    <3> QED
      BY <1>4, <2>2, <2>3, <3>1 DEF About
  <2> QED
    BY <2>2, <2>3
<1> QED
  BY <1>1, <1>2, <1>5, <1>9, <1>10 DEF HostInvariant, Standing

\* Nobody has been refused at the start.
LEMMA InitHosts == ASSUME Init PROVE HostInvariant
<1>1. RegistryInvariant /\ RoutedInvariant
  BY InitRegistry, InitRouted
<1>2. \A c \in Clients : outcome[c] = "none"
  BY DEF Init
<1>3. \A x : ~Has(queue, "registered", x)
  <2>1. \A x, d : Event("routes.create", d) # Event("registered", x)
    BY DEF Event
  <2> QED
    BY <2>1, FirstEvents DEF Has
<1>4. added = Initially
  BY DEF Init
<1> QED
  BY <1>1, <1>2, <1>3, <1>4 DEF HostInvariant

\* Every step keeps the invariant.
LEMMA StepHosts == ASSUME HostInvariant, [Next]_vars PROVE HostInvariant'
<1>1. RegistryInvariant' /\ RoutedInvariant' /\ TypeOK
  BY StepRegistry, StepRouted DEF HostInvariant, RegistryInvariant
<1>2. ASSUME NEW x \in Components, Register(x) PROVE HostInvariant'
  <2>1. Puts(Event("registered", x)) /\ "registered" \notin ClientEvents
    BY <1>2, EventTypes DEF Register, Puts, ClientEvents
  <2>2. x \notin added /\ added' = added \cup {x} /\ attached' = attached \cup {x}
    BY <1>2 DEF Register
  <2> QED
    BY <1>1, <1>2, <2>1, <2>2, AppendedHosts DEF Register
<1>3. ASSUME NEW x \in Components, Unregister(x) PROVE HostInvariant'
  <2>1. Puts(Event("unregistered", x)) /\ "unregistered" \notin ClientEvents
    BY <1>3, EventTypes DEF Unregister, Puts, ClientEvents
  <2> QED
    BY <1>1, <1>3, <2>1, AppendedHosts DEF Unregister
<1>4. ASSUME NEW d \in Domains, RecreateRoutes(d) PROVE HostInvariant'
  <2>1. Puts(Event("routes.create", d)) /\ "routes.create" \notin ClientEvents
    BY <1>4, EventTypes DEF RecreateRoutes, Puts, ClientEvents
  <2> QED
    BY <1>1, <1>4, <2>1, AppendedHosts DEF RecreateRoutes
<1>5. CASE UNCHANGED vars
  <2>1. UNCHANGED <<attached, added, client, outcome, queue>>
    BY <1>5 DEF vars, treeVars
  <2>2. \A x \in Components \intersect Initially : Standing(x)'
    BY <2>1 DEF HostInvariant, Standing
  <2> QED
    BY <1>1, <2>1, <2>2, AsideHosts
<1> QED
  BY <1>2, <1>3, <1>4, <1>5, DispatchHosts, ArriveHosts DEF Next

\* The first half of RefusedMeansAbsent: a request is refused for its host
\* (400) only if neither that nor an X-Forwarded-Host names a domain, or an
\* alias of one, that has been registered since the server started
\* (_route_host, _route_forwarded_host, _get_domain).
HostRefusedMeansAbsent ==
    \A c \in Clients : outcome[c] = "400" =>
        \A d \in Domains \intersect Initially : InTree[d] =>
            ({d} \cup Aliases[d]) \intersect
                ({client[c].host} \cup Range(client[c].x_forwarded_host)) = {}

\* Whatever is registered and unregistered meanwhile, HostRefusedMeansAbsent
\* holds at all times.
THEOREM NoKnownHostRefused == Spec => []HostRefusedMeansAbsent
<1>1. Init => HostInvariant
  BY InitHosts
<1>2. HostInvariant /\ [Next]_vars => HostInvariant'
  BY StepHosts
<1>3. HostInvariant => HostRefusedMeansAbsent
  <2>1. SUFFICES ASSUME HostInvariant PROVE HostRefusedMeansAbsent
    OBVIOUS
  <2>2. \A d \in Domains : InTree[d] => d \in attached
    BY <2>1, InTreeEquation DEF HostInvariant, RegistryInvariant, TypeOK, Components
  <2> QED
    BY <2>1, <2>2 DEF HostInvariant, NamesNone, HostRefusedMeansAbsent
<1> QED
  BY <1>1, <1>2, <1>3, PTL DEF Spec

-----------------------------------------------------------------------------
(* Recursive functions along a way up that ends *)

\* S has the way up from each of its elements, and g solves the equation of a
\* recursive function there: at x it is H of x and its value at up[x] if x is
\* in C, and base[x] if it is not.
Solves(g, S, C, up, H, base) ==
    /\ \A x \in S \intersect C : up[x] \in S
    /\ \A x \in S : g[x] = IF x \in C THEN H[<<x, g[up[x]]>>] ELSE base[x]

\* Solutions agree: look at the topmost element where they do not.
LEMMA SolutionsAgree ==
    ASSUME NEW C, NEW up, \A S \in SUBSET C : S # {} => \E x \in S : up[x] \notin S,
           NEW H, NEW base,
           NEW S, NEW g, Solves(g, S, C, up, H, base),
           NEW T, NEW h, Solves(h, T, C, up, H, base)
    PROVE  \A x \in S \intersect T : g[x] = h[x]
<1> DEFINE Differ == {x \in S \intersect T : g[x] # h[x]}
<1>1. Differ \subseteq C
  BY DEF Solves
<1>2. SUFFICES ASSUME Differ # {} PROVE FALSE
  OBVIOUS
<1>3. PICK x \in Differ : up[x] \notin Differ
  <2> HIDE DEF Differ
  <2> QED
    BY <1>1, <1>2
<1>4. x \in S /\ x \in T /\ x \in C
  BY <1>1
<1>5. up[x] \in S /\ up[x] \in T
  BY <1>4 DEF Solves
<1>6. g[up[x]] = h[up[x]]
  BY <1>3, <1>5
<1> QED
  BY <1>4, <1>6 DEF Solves

\* A function on D with values in V is defined by such an equation, and its
\* way up ends somewhere.
Recursion(D, V, C, up, H, base) ==
    /\ C \subseteq D /\ \A x \in C : up[x] \in D
    /\ \A S \in SUBSET C : S # {} => \E x \in S : up[x] \notin S
    /\ H \in [D \X V -> V] /\ base \in [D -> V]

\* f solves the equation.
Solution(f, D, V, C, up, H, base) ==
    /\ f \in [D -> V]
    /\ f = [x \in D |-> IF x \in C THEN H[<<x, f[up[x]]>>] ELSE base[x]]

\* Such a recursion has a solution.
LEMMA RecursionExists ==
    ASSUME NEW D, NEW V, NEW C, NEW up, NEW H, NEW base, Recursion(D, V, C, up, H, base)
    PROVE  \E f : Solution(f, D, V, C, up, H, base)
<1> DEFINE SolvedAt(S, g, x) == x \in S /\ Solves(g, S, C, up, H, base)
           Unsolved == {x \in D : ~\E S \in SUBSET D : \E g \in [S -> V] : SolvedAt(S, g, x)}
           Value(x, v) == \E S \in SUBSET D : \E g \in [S -> V] : SolvedAt(S, g, x) /\ g[x] = v
           f == [x \in D |-> CHOOSE v : Value(x, v)]
<1> USE DEF Recursion
<1>1. Unsolved \subseteq C
  <2>1. SUFFICES ASSUME NEW x \in D, x \notin C PROVE x \notin Unsolved
    OBVIOUS
  <2> DEFINE g == [y \in {x} |-> base[x]]
  <2>2. g \in [{x} -> V] /\ SolvedAt({x}, g, x)
    BY <2>1 DEF Solves
  <2>3. {x} \in SUBSET D
    OBVIOUS
  <2> HIDE DEF g
  <2> QED
    BY <2>2, <2>3
<1>2. Unsolved = {}
  <2>1. SUFFICES ASSUME Unsolved # {} PROVE FALSE
    OBVIOUS
  <2>2. PICK x \in Unsolved : up[x] \notin Unsolved
    <3> HIDE DEF Unsolved
    <3> QED
      BY <1>1, <2>1
  <2>3. x \in C /\ x \in D /\ up[x] \in D
    BY <1>1
  <2>10. PICK S \in SUBSET D : \E g \in [S -> V] : SolvedAt(S, g, up[x])
    BY <2>2, <2>3
  <2>4. PICK g \in [S -> V] : SolvedAt(S, g, up[x])
    BY <2>10
  <2>5. x \notin S
    <3>1. x \in S => SolvedAt(S, g, x)
      BY <2>4
    <3> QED
      BY <3>1, <2>2
  <2> DEFINE h == [y \in S \cup {x} |-> IF y = x THEN H[<<x, g[up[x]]>>] ELSE g[y]]
  <2>6. h \in [S \cup {x} -> V]
    <3>1. g[up[x]] \in V
      BY <2>4
    <3>2. H[<<x, g[up[x]]>>] \in V
      BY <2>3, <3>1
    <3> QED
      BY <3>2
  <2>7. Solves(h, S \cup {x}, C, up, H, base)
    <3>1. \A y \in (S \cup {x}) \intersect C : up[y] \in S
      BY <2>4 DEF Solves
    <3>2. \A y \in S : h[y] = g[y]
      BY <2>5
    <3>3. h[x] = H[<<x, h[up[x]]>>]
      BY <2>4, <2>5
    <3>4. \A y \in S : h[y] = IF y \in C THEN H[<<y, h[up[y]]>>] ELSE base[y]
      BY <2>4, <3>1, <3>2 DEF Solves
    <3> HIDE DEF h
    <3> QED
      BY <2>3, <3>1, <3>3, <3>4 DEF Solves
  <2>8. S \cup {x} \in SUBSET D
    BY <2>3
  <2> HIDE DEF h
  <2>9. \E U \in SUBSET D : \E k \in [U -> V] : SolvedAt(U, k, x)
    BY <2>6, <2>7, <2>8
  <2> QED
    BY <2>2, <2>9
<1>3. ASSUME NEW S \in SUBSET D, NEW g \in [S -> V], Solves(g, S, C, up, H, base)
      PROVE  \A x \in S : f[x] = g[x]
  <2>1. SUFFICES ASSUME NEW x \in S PROVE f[x] = g[x]
    OBVIOUS
  <2>2. Value(x, g[x])
    BY <1>3
  <2>3. \A v : Value(x, v) => v = g[x]
    <3>1. SUFFICES ASSUME NEW v, NEW T \in SUBSET D, NEW h \in [T -> V], SolvedAt(T, h, x), h[x] = v
                   PROVE  v = g[x]
      OBVIOUS
    <3>2. Solves(h, T, C, up, H, base) /\ x \in S \intersect T
      BY <3>1
    <3> HIDE DEF f, Unsolved, Value
    <3>3. \A y \in S \intersect T : g[y] = h[y]
      BY <1>3, <3>2, SolutionsAgree
    <3> QED
      BY <3>1, <3>2, <3>3
  <2> HIDE DEF Value
  <2> QED
    BY <2>2, <2>3
<1>4. ASSUME NEW x \in D PROVE f[x] = IF x \in C THEN H[<<x, f[up[x]]>>] ELSE base[x]
  <2> HIDE DEF f
  <2>4. PICK S \in SUBSET D : \E g \in [S -> V] : SolvedAt(S, g, x)
    BY <1>2
  <2>1. PICK g \in [S -> V] : SolvedAt(S, g, x)
    BY <2>4
  <2>7. Solves(g, S, C, up, H, base) /\ x \in S
    BY <2>1
  <2>2. f[x] = g[x] /\ (x \in C => up[x] \in S)
    BY <1>3, <2>7 DEF Solves
  <2>3. x \in C => f[up[x]] = g[up[x]]
    BY <1>3, <2>2, <2>7
  <2>5. g[x] = IF x \in C THEN H[<<x, g[up[x]]>>] ELSE base[x]
    BY <2>1 DEF Solves
  <2>6. CASE x \in C
    <3>1. <<x, f[up[x]]>> = <<x, g[up[x]]>>
      BY <2>3, <2>6
    <3> QED
      BY <2>2, <2>5, <2>6, <3>1
  <2> QED
    BY <2>2, <2>5, <2>6
<1>5. f \in [D -> V]
  <2>1. ASSUME NEW x \in D PROVE f[x] \in V
    <3>1. PICK S \in SUBSET D : \E g \in [S -> V] : SolvedAt(S, g, x)
      BY <1>2
    <3>2. PICK g \in [S -> V] : SolvedAt(S, g, x)
      BY <3>1
    <3>3. Solves(g, S, C, up, H, base) /\ x \in S
      BY <3>2
    <3> HIDE DEF f
    <3> QED
      BY <1>3, <3>3
  <2> QED
    BY <2>1
<1>6. f = [x \in D |-> IF x \in C THEN H[<<x, f[up[x]]>>] ELSE base[x]]
  <2>1. \A x \in D : f[x] = IF x \in C THEN H[<<x, f[up[x]]>>] ELSE base[x]
    BY <1>4
  <2>2. f = [x \in D |-> f[x]]
    OBVIOUS
  <2> HIDE DEF f
  <2> QED
    BY <2>1, <2>2
<1> HIDE DEF f
<1> QED
  BY <1>5, <1>6 DEF Solution

-----------------------------------------------------------------------------
(* The templates of the tree and those that are built *)

\* Texts; that the slash is a string is nothing the provers know.
Texts == Seq(STRING \cup {"/"})

\* What it is of is text.
LEMMA BehindIsText ==
    ASSUME NEW above \in Texts, NEW path \in Texts
    PROVE  Behind(above, path) \in Texts
<1>1. LStrip(path) \in Texts
  <2> DEFINE I == {i \in 1..Len(path) : path[i] # "/"}
             first == SelectInSeq(path, LAMBDA char : char # "/")
  <2>1. first = IF I # {} THEN Min(I) ELSE 0
    BY DEF SelectInSeq
  <2>2. I # {} => Min(I) \in I
    <3>1. I \subseteq Nat
      BY LenProperties
    <3> HIDE DEF I
    <3> QED
      BY <3>1, LeastNumber DEF Min
  <2>3. first = 0 \/ first \in 1..Len(path)
    <3>1. I \subseteq 1..Len(path)
      OBVIOUS
    <3> HIDE DEF I, first
    <3> QED
      BY <2>1, <2>2, <3>1
  <2> HIDE DEF first
  <2>4. Len(path) \in Nat /\ <<>> \in Texts
    BY LenProperties DEF Texts
  <2>5. first # 0 => SubSeq(path, first, Len(path)) \in Texts
    BY <2>3, <2>4, SubSeqProperties DEF Texts
  <2> QED
    BY <2>4, <2>5 DEF LStrip, first
<1>2. <<"/">> \in Texts
  BY DEF Texts
<1>3. above \o <<"/">> \in Texts
  BY <1>2, ConcatProperties DEF Texts
<1> QED
  BY <1>1, <1>3, ConcatProperties DEF Behind, Texts

\* The paths of the resources are texts.
LEMMA PathsAreTexts == ASSUME tree \in Trees PROVE tree.path \in [Resources -> Texts]
<1>1. tree.path \in [Resources -> Seq(STRING)]
  BY RoutingAssumption DEF RoutingAssumption
<1>2. Seq(STRING) \subseteq Texts
  BY SeqMonotonic DEF Texts
<1> QED
  BY <1>1, <1>2

\* Paths may be collected along the parents, whatever the resources are at
\* which that goes on.
LEMMA PathsExist ==
    ASSUME tree \in Trees, NEW C, C \subseteq Resources, \A r \in C : tree.parent[r] \in Resources
    PROVE  \E f : f = [r \in Resources |->
                          Behind(IF r \in C THEN f[tree.parent[r]] ELSE <<>>, tree.path[r])]
<1> DEFINE up == tree.parent
           H == [x \in Resources \X Texts |-> Behind(x[2], tree.path[x[1]])]
           base == [r \in Resources |-> Behind(<<>>, tree.path[r])]
<1>1. tree.path \in [Resources -> Texts]
  BY PathsAreTexts
<1>2. H \in [Resources \X Texts -> Texts] /\ base \in [Resources -> Texts]
  <2>1. <<>> \in Texts
    BY DEF Texts
  <2>2. \A x \in Resources \X Texts : Behind(x[2], tree.path[x[1]]) \in Texts
    BY <1>1, BehindIsText
  <2>3. \A r \in Resources : Behind(<<>>, tree.path[r]) \in Texts
    BY <1>1, <2>1, BehindIsText
  <2> QED
    BY <2>2, <2>3
<1>3. \A S \in SUBSET C : S # {} => \E r \in S : up[r] \notin S
  BY TreeFacts
<1> HIDE DEF H, base
<1>4. Recursion(Resources, Texts, C, up, H, base)
  BY <1>2, <1>3 DEF Recursion
<1> HIDE DEF up
<1>5. PICK f : Solution(f, Resources, Texts, C, up, H, base)
  BY <1>4, RecursionExists
<1>6. /\ f \in [Resources -> Texts]
      /\ f = [r \in Resources |-> IF r \in C THEN H[<<r, f[up[r]]>>] ELSE base[r]]
  BY <1>5 DEF Solution
<1>7. ASSUME NEW r \in Resources
      PROVE  f[r] = Behind(IF r \in C THEN f[tree.parent[r]] ELSE <<>>, tree.path[r])
  <2>1. CASE r \in C
    <3>1. <<r, f[up[r]]>> \in Resources \X Texts
      BY <1>6, <2>1 DEF up
    <3>2. f[r] = H[<<r, f[up[r]]>>]
      BY <1>6, <2>1
    <3>3. H[<<r, f[up[r]]>>] = Behind(f[up[r]], tree.path[r])
      BY <3>1 DEF H
    <3> QED
      BY <2>1, <3>2, <3>3 DEF up
  <2>2. CASE r \notin C
    <3>1. f[r] = base[r]
      BY <1>6, <2>2
    <3> QED
      BY <2>2, <3>1 DEF base
  <2> QED
    BY <2>1, <2>2
<1>8. f = [r \in Resources |->
             Behind(IF r \in C THEN f[tree.parent[r]] ELSE <<>>, tree.path[r])]
  BY <1>6, <1>7
<1> QED
  BY <1>8

\* Resources below another one, for which the loop of _build_tree_path goes on
Below == {r \in Resources : Parent(r) \in Resources /\ Parent(Parent(r)) # Parent(r)}

\* JoinedPath is the function its equation says.
LEMMA JoinedPathEquation ==
    ASSUME tree \in Trees, NEW r \in Resources
    PROVE  JoinedPath[r] =
             Behind(IF r \in Below THEN JoinedPath[tree.parent[r]] ELSE <<>>, tree.path[r])
<1> DEFINE Is(f) ==
        f = [x \in Resources |->
                LET p == Parent(x)
                    above == IF p \in Resources /\ Parent(p) # p THEN f[p] ELSE <<>>
                IN Behind(above, tree.path[x])]
<1>1. Below \subseteq Resources /\ \A x \in Below : Parent(x) = tree.parent[x] /\ Parent(x) \in Resources
  BY DEF Below, Parent
<1>2. PICK f : f = [x \in Resources |->
                      Behind(IF x \in Below THEN f[tree.parent[x]] ELSE <<>>, tree.path[x])]
  BY <1>1, PathsExist
<1>3. ASSUME NEW g
      PROVE  \A x \in Resources :
               Behind(IF x \in Below THEN g[tree.parent[x]] ELSE <<>>, tree.path[x])
               = LET p == Parent(x)
                     above == IF p \in Resources /\ Parent(p) # p THEN g[p] ELSE <<>>
                 IN Behind(above, tree.path[x])
  BY <1>1 DEF Below
<1>4. Is(f)
  BY <1>2, <1>3
<1>5. JoinedPath = CHOOSE g : Is(g)
  BY DEF JoinedPath
<1>6. Is(JoinedPath)
  BY <1>4, <1>5
<1> QED
  BY <1>3, <1>6

\* PathOf is the function its equation says.
LEMMA PathOfEquation ==
    ASSUME tree \in Trees, NEW r \in Resources
    PROVE  PathOf[r] = Behind(IF tree.parent[r] \in Resources
                              THEN PathOf[tree.parent[r]] ELSE <<>>, tree.path[r])
<1> DEFINE Is(f) ==
        f = [x \in Resources |->
                Behind(IF tree.parent[x] \in Resources THEN f[tree.parent[x]] ELSE <<>>, tree.path[x])]
           C == {x \in Resources : tree.parent[x] \in Resources}
<1>1. PICK f : f = [x \in Resources |->
                      Behind(IF x \in C THEN f[tree.parent[x]] ELSE <<>>, tree.path[x])]
  <2>1. C \subseteq Resources /\ \A x \in C : tree.parent[x] \in Resources
    OBVIOUS
  <2> HIDE DEF C
  <2> QED
    BY <2>1, PathsExist
<1>2. Is(f)
  BY <1>1
<1>3. PathOf = CHOOSE g : Is(g)
  BY DEF PathOf
<1>4. Is(PathOf)
  BY <1>2, <1>3
<1> QED
  BY <1>4

\* It is a matter of the tree alone.
LEMMA FullPathStays == ASSUME tree' = tree PROVE FullPath' = FullPath
BY DEF FullPath, PathOf

\* Whatever is attached elsewhere, that is what _build_tree_path makes of it.
LEMMA BuildsFullPath ==
    ASSUME tree \in Trees, NEW r \in Resources, InTree[r]
    PROVE  BuildTreePath(r) = FullPath[r]
<1> DEFINE Differ == {x \in Resources : InTree[x] /\ JoinedPath[x] # PathOf[x]}
<1>1. ASSUME NEW x \in Resources, InTree[x]
      PROVE  /\ x \in attached /\ Parent(x) = tree.parent[x] /\ InTree[tree.parent[x]]
             /\ x \in Below <=> tree.parent[x] \in Resources
  <2>1. x \in Components /\ tree.parent[x] \in Components
    BY TreeFacts DEF Components
  <2>2. x \in attached /\ InTree[tree.parent[x]] /\ tree.parent[x] \in attached
    BY <1>1, <2>1, InTreeEquation
  <2>3. \A p \in Resources : tree.parent[p] # p
    <3>1. \A p \in Resources : {p} \in SUBSET Resources /\ {p} # {}
      OBVIOUS
    <3> QED
      BY <3>1, TreeFacts
  <2> QED
    BY <1>1, <2>2, <2>3 DEF Below, Parent
<1>2. Differ = {}
  <2>1. SUFFICES ASSUME Differ # {} PROVE FALSE
    OBVIOUS
  <2>2. PICK x \in Differ : tree.parent[x] \notin Differ
    <3>1. Differ \in SUBSET Resources
      OBVIOUS
    <3> HIDE DEF Differ
    <3> QED
      BY <2>1, <3>1, TreeFacts
  <2>3. tree.parent[x] \in Resources => JoinedPath[tree.parent[x]] = PathOf[tree.parent[x]]
    BY <1>1, <2>2
  <2> QED
    BY <1>1, <2>2, <2>3, JoinedPathEquation, PathOfEquation
<1>3. JoinedPath[r] = PathOf[r]
  BY <1>2
<1> QED
  BY <1>1, <1>3 DEF BuildTreePath, FullPath

\* The resources the children lead to are those of a function that is what its
\* equation says.
LEMMA AllChildsAre ==
    ASSUME tree \in Trees
    PROVE  \E f : /\ \A r \in Resources :
                        f[r] <=> /\ r \in children[tree.parent[r]]
                                 /\ (tree.parent[r] \in Resources => f[tree.parent[r]])
                  /\ \A d \in Domains : AllChilds(d) = {r \in Resources : DomainOf[r] = d /\ f[r]}
<1> DEFINE Is(f) ==
        f = [r \in Resources |-> /\ r \in children[tree.parent[r]]
                                 /\ (tree.parent[r] \in Resources) => f[tree.parent[r]]]
           C == {r \in Resources : tree.parent[r] \in Resources}
           up == tree.parent
           H == [x \in Resources \X BOOLEAN |-> (x[1] \in children[up[x[1]]]) /\ x[2]]
           base == [r \in Resources |-> r \in children[up[r]]]
<1>1. Recursion(Resources, BOOLEAN, C, up, H, base)
  <2>1. H \in [Resources \X BOOLEAN -> BOOLEAN] /\ base \in [Resources -> BOOLEAN]
    OBVIOUS
  <2>2. \A S \in SUBSET C : S # {} => \E r \in S : up[r] \notin S
    BY TreeFacts
  <2> HIDE DEF H, base
  <2> QED
    BY <2>1, <2>2 DEF Recursion
<1>2. PICK f : Solution(f, Resources, BOOLEAN, C, up, H, base)
  <2> HIDE DEF C, up, H, base
  <2> QED
    BY <1>1, RecursionExists
<1>3. /\ f \in [Resources -> BOOLEAN]
      /\ \A r \in Resources : f[r] = IF r \in C THEN H[<<r, f[up[r]]>>] ELSE base[r]
  <2> HIDE DEF C, up, H, base
  <2> QED
    BY <1>2 DEF Solution
<1>4. ASSUME NEW r \in Resources
      PROVE  f[r] = (/\ r \in children[tree.parent[r]]
                     /\ (tree.parent[r] \in Resources) => f[tree.parent[r]])
  <2>1. CASE r \in C
    <3>1. <<r, f[up[r]]>> \in Resources \X BOOLEAN
      BY <1>3, <2>1
    <3>2. f[r] = H[<<r, f[up[r]]>>]
      BY <1>3, <2>1
    <3>3. H[<<r, f[up[r]]>>] = (r \in children[up[r]] /\ f[up[r]])
      BY <3>1
    <3> QED
      BY <2>1, <3>2, <3>3
  <2>2. CASE r \notin C
    BY <1>3, <2>2
  <2> QED
    BY <2>1, <2>2
<1>5. Is(f)
  BY <1>3, <1>4
<1> DEFINE g == CHOOSE h : Is(h)
<1>6. Is(g)
  BY <1>5
<1>7. ASSUME NEW d \in Domains
      PROVE  AllChilds(d) = {r \in Resources : DomainOf[r] = d /\ g[r]}
  BY Zenon DEF AllChilds
<1>8. \A r \in Resources :
        g[r] <=> /\ r \in children[tree.parent[r]]
                 /\ (tree.parent[r] \in Resources => g[tree.parent[r]])
  <2> HIDE DEF g
  <2> QED
    BY <1>6
<1> HIDE DEF g
<1> QED
  BY <1>7, <1>8

\* DomainOf is the function its equation says.
LEMMA DomainOfEquation ==
    ASSUME tree \in Trees, NEW x \in Components
    PROVE  DomainOf[x] = IF x \in Domains THEN x ELSE DomainOf[tree.parent[x]]
<1> DEFINE Is(f) == f = [y \in Components |-> IF y \in Domains THEN y ELSE f[tree.parent[y]]]
           up == tree.parent
           H == [z \in Components \X Components |-> z[2]]
           base == [y \in Components |-> y]
<1>1. Recursion(Components, Components, Resources, up, H, base)
  <2>1. H \in [Components \X Components -> Components] /\ base \in [Components -> Components]
    OBVIOUS
  <2>2. /\ Resources \subseteq Components /\ \A y \in Resources : up[y] \in Components
        /\ \A S \in SUBSET Resources : S # {} => \E y \in S : up[y] \notin S
    BY TreeFacts DEF Components
  <2> HIDE DEF H, base, up
  <2> QED
    BY <2>1, <2>2 DEF Recursion
<1>2. PICK f : Solution(f, Components, Components, Resources, up, H, base)
  <2> HIDE DEF up, H, base
  <2> QED
    BY <1>1, RecursionExists
<1>3. /\ f \in [Components -> Components]
      /\ \A y \in Components : f[y] = IF y \in Resources THEN H[<<y, f[up[y]]>>] ELSE base[y]
  <2> HIDE DEF up, H, base
  <2> QED
    BY <1>2 DEF Solution
<1>4. ASSUME NEW y \in Components
      PROVE  f[y] = IF y \in Domains THEN y ELSE f[tree.parent[y]]
  <2>1. CASE y \in Resources
    <3>1. y \notin Domains /\ <<y, f[up[y]]>> \in Components \X Components
      BY <1>3, <2>1, TreeFacts, RoutingAssumption DEF RoutingAssumption
    <3>2. f[y] = H[<<y, f[up[y]]>>]
      BY <1>3, <2>1
    <3> QED
      BY <3>1, <3>2
  <2>2. CASE y \notin Resources
    BY <1>3, <2>2 DEF Components
  <2> QED
    BY <2>1, <2>2
<1>5. Is(f)
  BY <1>3, <1>4
<1>6. DomainOf = CHOOSE h : Is(h)
  BY DEF DomainOf
<1>7. Is(DomainOf)
  BY <1>5, <1>6
<1> QED
  BY <1>7

\* A resource hangs on its domain, at the end.
LEMMA DomainAbove ==
    ASSUME tree \in Trees, NEW r \in Resources
    PROVE  /\ InTree[r] => InTree[DomainOf[r]]
           /\ r \in Initially => DomainOf[r] \in Initially
<1> DEFINE Off == {x \in Resources : \/ InTree[x] /\ ~InTree[DomainOf[x]]
                                     \/ x \in Initially /\ DomainOf[x] \notin Initially}
<1>1. ASSUME NEW x \in Resources
      PROVE  /\ DomainOf[x] = DomainOf[tree.parent[x]]
             /\ tree.parent[x] \notin Resources => DomainOf[tree.parent[x]] = tree.parent[x]
             /\ InTree[x] => InTree[tree.parent[x]]
             /\ x \in Initially => tree.parent[x] \in Initially
  <2>1. x \in Components /\ x \notin Domains /\ tree.parent[x] \in Components
    BY TreeFacts, RoutingAssumption DEF Components, RoutingAssumption
  <2>2. tree.parent[x] \notin Resources => tree.parent[x] \in Domains
    BY <2>1 DEF Components
  <2> QED
    BY <2>1, <2>2, DomainOfEquation, InTreeEquation, TreeFacts
<1>2. Off = {}
  <2>1. SUFFICES ASSUME Off # {} PROVE FALSE
    OBVIOUS
  <2>2. PICK x \in Off : tree.parent[x] \notin Off
    <3>1. Off \in SUBSET Resources
      OBVIOUS
    <3> HIDE DEF Off
    <3> QED
      BY <2>1, <3>1, TreeFacts
  <2> QED
    BY <1>1, <2>2
<1> QED
  BY <1>2

-----------------------------------------------------------------------------
(* Whatever may be built of a resource *)

\* CutPaths is the function its equation says.
LEMMA CutPathsEquation ==
    ASSUME tree \in Trees, NEW r \in Resources
    PROVE  CutPaths[r] =
             {Behind(above, tree.path[r]) :
                above \in {<<>>} \cup (IF tree.parent[r] \in Resources
                                      THEN CutPaths[tree.parent[r]] ELSE {})}
<1> DEFINE Ends(above, x) == {Behind(a, tree.path[x]) : a \in {<<>>} \cup above}
           Is(f) ==
             f = [x \in Resources |->
                    {Behind(above, tree.path[x]) :
                       above \in {<<>>} \cup (IF tree.parent[x] \in Resources
                                             THEN f[tree.parent[x]] ELSE {})}]
           C == {x \in Resources : tree.parent[x] \in Resources}
           up == tree.parent
           H == [z \in Resources \X SUBSET Texts |-> Ends(z[2], z[1])]
           base == [x \in Resources |-> Ends({}, x)]
<1>1. tree.path \in [Resources -> Texts]
  BY PathsAreTexts
<1>2. \A x \in Resources : \A S \in SUBSET Texts : Ends(S, x) \in SUBSET Texts
  <2>1. <<>> \in Texts
    BY DEF Texts
  <2> QED
    BY <1>1, <2>1, BehindIsText
<1>3. H \in [Resources \X SUBSET Texts -> SUBSET Texts] /\ base \in [Resources -> SUBSET Texts]
  <2>1. \A z \in Resources \X SUBSET Texts : Ends(z[2], z[1]) \in SUBSET Texts
    <3> HIDE DEF Ends
    <3> QED
      BY <1>2
  <2>2. \A x \in Resources : Ends({}, x) \in SUBSET Texts
    <3> HIDE DEF Ends
    <3> QED
      BY <1>2
  <2> HIDE DEF Ends
  <2> QED
    BY <2>1, <2>2
<1>4. \A S \in SUBSET C : S # {} => \E x \in S : up[x] \notin S
  BY TreeFacts
<1>5. C \subseteq Resources /\ \A x \in C : up[x] \in Resources
  OBVIOUS
<1> HIDE DEF H, base, C, Ends
<1>6. Recursion(Resources, SUBSET Texts, C, up, H, base)
  BY <1>3, <1>4, <1>5 DEF Recursion
<1> HIDE DEF up
<1>7. PICK f : Solution(f, Resources, SUBSET Texts, C, up, H, base)
  BY <1>6, RecursionExists
<1>8. /\ f \in [Resources -> SUBSET Texts]
      /\ f = [x \in Resources |-> IF x \in C THEN H[<<x, f[up[x]]>>] ELSE base[x]]
  BY <1>7 DEF Solution
<1>9. ASSUME NEW x \in Resources
      PROVE  f[x] = Ends(IF tree.parent[x] \in Resources THEN f[tree.parent[x]] ELSE {}, x)
  <2>1. CASE x \in C
    <3>1. <<x, f[up[x]]>> \in Resources \X SUBSET Texts
      BY <1>5, <1>8, <2>1
    <3>2. f[x] = H[<<x, f[up[x]]>>]
      BY <1>8, <2>1
    <3>3. H[<<x, f[up[x]]>>] = Ends(f[up[x]], x)
      BY <3>1 DEF H
    <3> QED
      BY <2>1, <3>2, <3>3 DEF up, C
  <2>2. CASE x \notin C
    <3>1. f[x] = base[x]
      BY <1>8, <2>2
    <3> QED
      BY <2>2, <3>1 DEF base, C
  <2> QED
    BY <2>1, <2>2
<1>10. Is(f)
  <2>1. f = [x \in Resources |-> Ends(IF tree.parent[x] \in Resources THEN f[tree.parent[x]] ELSE {}, x)]
    BY <1>8, <1>9
  <2> QED
    BY <2>1 DEF Ends
<1>11. CutPaths = CHOOSE g : Is(g)
  BY DEF CutPaths
<1>12. Is(CutPaths)
  BY <1>10, <1>11
<1> QED
  BY <1>12

\* What _build_tree_path builds is the template of the resource or an end of it.
LEMMA BuildsCutPath ==
    ASSUME tree \in Trees, NEW r \in Resources
    PROVE  BuildTreePath(r) \in {FullPath[r]} \cup CutPaths[r]
<1> DEFINE Off == {x \in Resources : JoinedPath[x] \notin CutPaths[x]}
<1>1. \A x \in Below : Parent(x) = tree.parent[x] /\ tree.parent[x] \in Resources
  BY DEF Below, Parent
<1>2. Off = {}
  <2>1. SUFFICES ASSUME Off # {} PROVE FALSE
    OBVIOUS
  <2>2. PICK x \in Off : tree.parent[x] \notin Off
    <3>1. Off \in SUBSET Resources
      OBVIOUS
    <3> HIDE DEF Off
    <3> QED
      BY <2>1, <3>1, TreeFacts
  <2> DEFINE above == IF x \in Below THEN JoinedPath[tree.parent[x]] ELSE <<>>
  <2>3. above \in {<<>>} \cup (IF tree.parent[x] \in Resources THEN CutPaths[tree.parent[x]] ELSE {})
    BY <1>1, <2>2
  <2>4. JoinedPath[x] = Behind(above, tree.path[x])
    BY JoinedPathEquation
  <2> HIDE DEF above
  <2>5. JoinedPath[x] \in CutPaths[x]
    BY <2>3, <2>4, CutPathsEquation
  <2> QED
    BY <2>5
<1>3. Parent(r) \in Domains => tree.parent[r] \in Domains
  BY RoutingAssumption DEF Parent, RoutingAssumption
<1> QED
  BY <1>2, <1>3 DEF BuildTreePath, FullPath

-----------------------------------------------------------------------------
(* Who is called is meant: routes and the paths they were made of *)

\* What has been unregistered is not registered again, nor what hangs on it.
LEMMA NothingComesBack ==
    ASSUME RegistryInvariant, [Next]_vars
    PROVE  /\ tree' = tree /\ added \subseteq added'
           /\ \A x \in added : InTree'[x] => InTree[x]
<1>1. /\ TypeOK /\ tree \in Trees /\ attached \subseteq added /\ added \subseteq Components
      /\ \A r \in Resources \cap added : tree.parent[r] \in added
  BY DEF RegistryInvariant, TypeOK
<1>2. /\ tree' = tree /\ added \subseteq added' /\ attached' \subseteq attached \cup (added' \ added)
  <2>1. CASE Dispatch
    BY <1>1, <2>1 DEF Dispatch, treeVars
  <2>2. CASE \E c \in Clients : Arrive(c)
    BY <1>1, <2>2 DEF Arrive, treeVars
  <2>3. CASE \E x \in Components : Register(x)
    BY <1>1, <2>3 DEF Register
  <2>4. CASE \E x \in Components : Unregister(x)
    BY <1>1, <2>4 DEF Unregister
  <2>5. CASE \E d \in Domains : RecreateRoutes(d)
    BY <1>1, <2>5 DEF RecreateRoutes
  <2>6. CASE UNCHANGED vars
    BY <1>1, <2>6 DEF vars, treeVars
  <2> QED
    BY <2>1, <2>2, <2>3, <2>4, <2>5, <2>6 DEF Next
<1>3. \A r \in Resources \cap attached : tree.parent[r] \notin added' \ added
  BY <1>1
<1>4. \A x \in Components : InTree'[x] => InTree[x] \/ x \in added' \ added
  BY <1>1, <1>2, <1>3, InTreeGrows
<1> QED
  BY <1>1, <1>2, <1>4

\* What routing has come to: nothing follows.
Settled == {"called", "403", "404"}

\* What leads to a resource: its template in the tree, and what it brings itself
Patterns == [r \in Resources |-> {Tokenize(FullPath[r])} \cup tree.own[r]]

\* They are those of the tree.
LEMMA PatternsStay == ASSUME tree' = tree PROVE Patterns' = Patterns
BY FullPathStays DEF Patterns

\* The client has the values of its path in a pattern of its resource.
Fits(full, cl) ==
    \E pattern \in full[cl.resource] : cl.path_segments \in Match(pattern, cl.path)

\* A client has asked for the path of a request.  The values it has been given
\* are those of its resource, if that still belongs to the tree or has been
\* called; no event is about a client that is settled.
Led(q, cl, o, full, in, was, c) ==
    /\ o # "none" => "path" \in DOMAIN cl /\ cl.path \in {r.path : r \in Requests}
    /\ cl.resource # NoResource => /\ cl.resource \in was
                                   /\ (in[cl.resource] \/ o = "called") => Fits(full, cl)
    /\ o = "called" => cl.resource # NoResource
    /\ \A i \in 1..Len(q) : About(q, i, c) =>
          /\ o \notin Settled
          /\ q[i].name \in {"domain.routing_success", "request"} => cl.resource # NoResource

\* A route has a pattern of its resource, if that still belongs to the tree.
RoutesLead(rs, full, in, was) ==
    \A d \in Domains : \A route \in rs[d] :
        /\ route.resource \in Resources \cap was
        /\ in[route.resource] => route.pattern \in full[route.resource]

\* The inductive invariant behind CalledByTheTemplate
LedInvariant ==
    /\ RegistryInvariant /\ RoutedInvariant
    /\ RoutesLead(routes, Patterns, InTree, added)
    /\ \A c \in Clients : Led(queue, client[c], outcome[c], Patterns, InTree, added, c)

\* The tree shrinks on what was there, and nothing new is said about a client.
LEMMA LedKept ==
    ASSUME NEW q, NEW p, NEW cl, NEW o, NEW full, NEW in, NEW up, NEW was, NEW now, NEW c,
           Led(q, cl, o, full, in, was, c), was \subseteq now, \A x \in was : up[x] => in[x],
           \A i \in 1..Len(p) : About(p, i, c) => \E j \in 1..Len(q) : About(q, j, c) /\ p[i] = q[j]
    PROVE  Led(p, cl, o, full, up, now, c)
<1>1. cl.resource # NoResource => /\ cl.resource \in now
                                  /\ (up[cl.resource] \/ o = "called") => Fits(full, cl)
  BY DEF Led
<1>2. \A i \in 1..Len(p) : About(p, i, c) =>
          /\ o \notin Settled
          /\ p[i].name \in {"domain.routing_success", "request"} => cl.resource # NoResource
  BY DEF Led
<1> QED
  BY <1>1, <1>2 DEF Led

\* Routes are not made wrong by it either.
LEMMA RoutesLeadOn ==
    ASSUME NEW rs, NEW full, NEW in, NEW up, NEW was, NEW now,
           RoutesLead(rs, full, in, was), was \subseteq now, \A x \in was : up[x] => in[x]
    PROVE  RoutesLead(rs, full, up, now)
BY DEF RoutesLead

\* What the handlers do for their client: it is given the values of a route, and
\* called if its resource belongs to the tree.
Leads(c) ==
    /\ "path" \in DOMAIN client'[c] /\ client'[c].path = client[c].path
    /\ client'[c].resource # NoResource => /\ client'[c].resource \in added
                                           /\ InTree[client'[c].resource] => Fits(Patterns, client'[c])
    /\ outcome'[c] = "called" => /\ client'[c].resource # NoResource
                                 /\ InTree[client'[c].resource]
    /\ outcome'[c] \in Settled => Quiet
    /\ \/ Quiet
       \/ \E n \in ClientEvents :
             /\ queue' = Tail(queue) \o <<Event(n, c)>>
             /\ n \in {"domain.routing_success", "request"} => client'[c].resource # NoResource

\* Every handler does.
LEMMA HandledLeads ==
    ASSUME LedInvariant, NEW c \in Clients, NEW n \in ClientEvents,
           queue # <<>>, queue[1] = Event(n, c), Handled(n, c)
    PROVE  Leads(c)
<1> DEFINE cl0 == client[c]
<1>1. /\ DOMAIN client = Clients /\ DOMAIN outcome = Clients /\ RoutedInvariant /\ TypeOK
      /\ 1 \in 1..Len(queue)
  BY TakenTail DEF LedInvariant, RoutedInvariant, TypeOK, Taken
<1>2. /\ About(queue, 1, c) /\ queue[1].name = n
      /\ Led(queue, cl0, outcome[c], Patterns, InTree, added, c)
      /\ Awaited(queue, cl0, outcome[c], DomainOf, c)
  BY <1>1 DEF LedInvariant, RoutedInvariant, About, Event
<1>3. /\ outcome[c] # "none" /\ outcome[c] \notin Settled /\ "path" \in DOMAIN cl0
      /\ DOMAIN Unrouted \subseteq DOMAIN cl0
      /\ n = "routing" => cl0.resource = NoResource
      /\ n # "routing" => cl0.domain \in Domains
      /\ n \in {"domain.routing_success", "request"} => cl0.resource # NoResource
      /\ cl0.resource # NoResource => /\ cl0.resource \in added
                                      /\ InTree[cl0.resource] => Fits(Patterns, cl0)
  BY <1>1, <1>2 DEF Led, Awaited
<1>4. ASSUME client' = client, Quiet,
             outcome' = outcome \/ \E o : o # "called" /\ outcome' = [outcome EXCEPT ![c] = o]
      PROVE  Leads(c)
  BY <1>1, <1>3, <1>4 DEF Leads, Settled
<1>5. ASSUME client' = client, outcome' = outcome, NEW m \in ClientEvents,
             queue' = Tail(queue) \o <<Event(m, c)>>,
             m \in {"domain.routing_success", "request"} => cl0.resource # NoResource
      PROVE  Leads(c)
  BY <1>1, <1>3, <1>5 DEF Leads, Settled
<1>6. CASE n = "routing" /\ OnRouting(c)
  <2> DEFINE cl == HttpOneZero(Proxied(cl0))
  <2>1. PICK hosts, i : Route(c, cl, hosts, i)
    BY <1>6 DEF OnRouting
  <2>2. "path" \in DOMAIN cl /\ cl.path = cl0.path /\ cl["resource"] = NoResource
    <3>1. DOMAIN Proxied(cl0) = DOMAIN cl0 /\ Proxied(cl0)["path"] = cl0["path"]
      BY <1>3 DEF Proxied
    <3> DEFINE px == Proxied(cl0)
    <3>2. DOMAIN px = DOMAIN cl0 /\ px["path"] = cl0["path"]
      BY <3>1
    <3> HIDE DEF px
    <3>3. DOMAIN HttpOneZero(px) = DOMAIN px /\ HttpOneZero(px)["path"] = px["path"]
      BY <1>3, <3>2 DEF HttpOneZero
    <3>4. cl["resource"] = NoResource
      BY <1>3, <1>6, ProxiedKeeps, UnroutedFields
    <3> QED
      BY <1>3, <3>2, <3>3, <3>4 DEF px
  <2> HIDE DEF cl
  <2>3. CASE /\ client' = [client EXCEPT ![c] = cl] /\ Fire(<<>>)
             /\ \E o \in {"400", "301"} : outcome' = [outcome EXCEPT ![c] = o]
    <3>1. client'[c] = cl /\ outcome'[c] \in {"400", "301"} /\ Quiet
      BY <1>1, <2>3 DEF Fire, Quiet
    <3> QED
      BY <2>2, <3>1 DEF Leads, Settled
  <2>4. ASSUME NEW d,
               client' = [client EXCEPT ![c] =
                             [cl EXCEPT !.domain = d, !.host = IF i = 1 THEN @ ELSE d]],
               Fire(<<Event("routing_success", c)>>), UNCHANGED outcome
        PROVE  Leads(c)
    <3> DEFINE cl1 == [cl EXCEPT !.domain = d, !.host = IF i = 1 THEN @ ELSE d]
    <3>1. "path" \in DOMAIN cl1 /\ cl1.path = cl.path /\ cl1.resource = cl.resource
      BY <2>2
    <3>2. client'[c] = cl1 /\ outcome'[c] = outcome[c]
      BY <1>1, <2>4
    <3> HIDE DEF cl1
    <3>3. "routing_success" \in ClientEvents
      BY DEF ClientEvents
    <3> QED
      BY <1>3, <2>2, <2>4, <3>1, <3>2, <3>3 DEF Leads, Fire, Settled
  <2> QED
    BY <2>1, <2>3, <2>4 DEF Route
<1>7. CASE n = "routing_success" /\ OnRoutingSuccess(c)
  BY <1>5, <1>7 DEF OnRoutingSuccess, Fire, ClientEvents
<1>8. CASE n = "domain.routing" /\ OnDomainRouting(c)
  <2>1. CASE Lost(c)
    BY <1>4, <2>1 DEF Lost, Fire, Quiet
  <2>2. ASSUME NEW D, client' = [client EXCEPT ![c].declined = D],
               outcome' = [outcome EXCEPT ![c] =
                              IF client[c].method \in {"PUT", "POST"} THEN "403" ELSE "404"],
               Fire(<<>>)
        PROVE  Leads(c)
    <3> DEFINE cl == [cl0 EXCEPT !.declined = D]
    <3>1. client'[c] = cl /\ outcome'[c] \in {"403", "404"} /\ Quiet
      BY <1>1, <2>2 DEF Fire, Quiet
    <3>2. /\ "path" \in DOMAIN cl /\ cl.path = cl0.path /\ cl.resource = cl0.resource
          /\ cl.path_segments = cl0.path_segments
      BY <1>3, UnroutedFields
    <3> HIDE DEF cl
    <3> QED
      BY <1>3, <3>1, <3>2 DEF Leads, Fits
  <2>3. ASSUME NEW match \in Found(cl0.domain, cl0.path),
               client' = [client EXCEPT ![c].resource = match[1], ![c].path_segments = match[2]],
               Fire(<<Event("domain.routing_success", c)>>), UNCHANGED outcome
        PROVE  Leads(c)
    <3> DEFINE cl == [cl0 EXCEPT !.resource = match[1], !.path_segments = match[2]]
    <3>1. client'[c] = cl /\ outcome'[c] = outcome[c]
      BY <1>1, <2>3
    <3>2. PICK route \in routes[cl0.domain] :
            match \in {<<route.resource, values>> : values \in Match(route.pattern, cl0.path)}
      BY <2>3 DEF Found
    <3>3. match[1] = route.resource /\ match[2] \in Match(route.pattern, cl0.path)
      BY <3>2
    <3>4. /\ match[1] \in Resources \cap added
          /\ InTree[match[1]] =>
                \E pattern \in Patterns[match[1]] : match[2] \in Match(pattern, cl0.path)
      BY <1>3, <1>8, <3>2, <3>3 DEF LedInvariant, RoutesLead
    <3>5. /\ DOMAIN cl = DOMAIN cl0 /\ cl.resource = match[1] /\ cl.path_segments = match[2]
          /\ cl.path = cl0.path
      BY <1>3, UnroutedFields
    <3> HIDE DEF cl
    <3>6. match[1] # NoResource /\ "domain.routing_success" \in ClientEvents
      BY <3>4, RoutingAssumption DEF RoutingAssumption, Components, ClientEvents
    <3> QED
      BY <1>3, <2>3, <3>1, <3>4, <3>5, <3>6 DEF Leads, Fits, Fire, Settled
  <2> QED
    BY <1>8, <2>1, <2>2, <2>3 DEF OnDomainRouting
<1>9. CASE n = "domain.routing_success" /\ OnDomainRoutingSuccess(c)
  <2>1. CASE Lost(c)
    BY <1>4, <2>1 DEF Lost, Fire, Quiet
  <2>2. CASE Fire(<<Event("request", c)>>) /\ UNCHANGED <<client, outcome>>
    BY <1>3, <1>5, <1>9, <2>2 DEF Fire, ClientEvents
  <2> QED
    BY <1>9, <2>1, <2>2 DEF OnDomainRoutingSuccess
<1>10. CASE n = "request" /\ OnRequest(c)
  <2>1. CASE Lost(c)
    BY <1>4, <2>1 DEF Lost, Fire, Quiet
  <2>2. CASE outcome' = [outcome EXCEPT ![c] = "empty"] /\ Fire(<<>>) /\ UNCHANGED client
    BY <1>4, <2>2 DEF Fire, Quiet
  <2>3. CASE /\ InTree[client[c].resource]
             /\ outcome' = [outcome EXCEPT ![c] = "called"] /\ Fire(<<>>) /\ UNCHANGED client
    BY <1>1, <1>3, <1>10, <2>3 DEF Leads, Fire, Quiet
  <2> QED
    BY <1>10, <2>1, <2>2, <2>3 DEF OnRequest
<1> QED
  BY <1>6, <1>7, <1>8, <1>9, <1>10 DEF Handled

\* Without anything said to clients: events are taken or put that are about none.
LEMMA AsideLed ==
    ASSUME LedInvariant, [Next]_vars, UNCHANGED <<client, outcome>>,
           RoutesLead(routes', Patterns, InTree', added'),
           \A c \in Clients : \A i \in 1..Len(queue') : About(queue', i, c) =>
              \E j \in 1..Len(queue) : About(queue, j, c) /\ queue'[i] = queue[j]
    PROVE  LedInvariant'
<1>1. /\ RegistryInvariant' /\ RoutedInvariant'
      /\ added \subseteq added' /\ \A x \in added : InTree'[x] => InTree[x]
      /\ Patterns' = Patterns
  BY StepRegistry, StepRouted, NothingComesBack, PatternsStay DEF LedInvariant
<1>2. \A c \in Clients : Led(queue', client[c], outcome[c], Patterns, InTree', added', c)
  BY <1>1, LedKept DEF LedInvariant
<1> QED
  BY <1>1, <1>2 DEF LedInvariant

\* An event is appended that is not about a client.
LEMMA AppendedLed ==
    ASSUME LedInvariant, [Next]_vars, UNCHANGED <<routes, client, outcome>>,
           NEW n, n \notin ClientEvents, NEW x, Puts(Event(n, x))
    PROVE  LedInvariant'
<1>1. queue \in Seq(EventType) /\ Event(n, x) \in EventType /\ queue' = Append(queue, Event(n, x))
  BY DEF LedInvariant, RegistryInvariant, TypeOK, Puts
<1>2. /\ Len(queue) \in Nat /\ Len(queue') = Len(queue) + 1
      /\ \A i \in 1..Len(queue) : queue'[i] = queue[i]
      /\ queue'[Len(queue) + 1] = Event(n, x)
  BY <1>1, Appended
<1>3. ASSUME NEW c, NEW i \in 1..Len(queue'), About(queue', i, c)
      PROVE  \E j \in 1..Len(queue) : About(queue, j, c) /\ queue'[i] = queue[j]
  <2>1. queue'[i] # Event(n, x)
    BY <1>3 DEF About, Event
  <2>2. i \in 1..Len(queue)
    BY <1>2, <2>1
  <2> QED
    BY <1>2, <1>3, <2>2 DEF About
<1>4. RoutesLead(routes, Patterns, InTree', added')
  BY NothingComesBack, RoutesLeadOn DEF LedInvariant
<1> QED
  BY <1>3, <1>4, AsideLed

\* Routes are made of the paths the resources have, if they still have them.
LEMMA CreatedRoutesLead ==
    ASSUME LedInvariant, NEW d \in Domains, OnRoutesCreate(d)
    PROVE  RoutesLead(routes', Patterns, InTree, added)
<1> DEFINE new == OwnRoutes(AllChilds(d))
                    \cup {RouteTo(r, Tokenize(BuildTreePath(r))) : r \in AllChilds(d)}
<1>1. /\ tree \in Trees /\ DOMAIN routes = Domains /\ RoutesLead(routes, Patterns, InTree, added)
      /\ \A p \in Components : \A r \in children[p] : tree.parent[r] = p /\ r \in added
  BY DEF LedInvariant, RegistryInvariant, TypeOK
<1>2. \A r \in AllChilds(d) : r \in Resources /\ r \in added
  <2>1. PICK f : /\ \A r \in Resources :
                        f[r] <=> /\ r \in children[tree.parent[r]]
                                 /\ (tree.parent[r] \in Resources => f[tree.parent[r]])
                 /\ \A y \in Domains : AllChilds(y) = {r \in Resources : DomainOf[r] = y /\ f[r]}
    BY <1>1, AllChildsAre
  <2>2. \A r \in Resources : tree.parent[r] \in Components
    BY <1>1, TreeFacts
  <2> QED
    BY <1>1, <2>1, <2>2
<1>3. ASSUME NEW route \in new
      PROVE  /\ route.resource \in Resources \cap added
             /\ InTree[route.resource] => route.pattern \in Patterns[route.resource]
  <2>1. PICK r \in AllChilds(d) :
          route = RouteTo(r, Tokenize(BuildTreePath(r))) \/ \E own \in tree.own[r] : route = RouteTo(r, own)
    BY <1>3 DEF OwnRoutes
  <2>2. InTree[r] => BuildTreePath(r) = FullPath[r]
    BY <1>1, <1>2, BuildsFullPath
  <2>3. Patterns[r] = {Tokenize(FullPath[r])} \cup tree.own[r]
    BY <1>2 DEF Patterns
  <2> QED
    BY <1>2, <2>1, <2>2, <2>3 DEF RouteTo
<1>4. routes' = [routes EXCEPT ![d] = new] \/ routes' = routes
  BY DEF OnRoutesCreate
<1> HIDE DEF new
<1> QED
  BY <1>1, <1>3, <1>4 DEF RoutesLead

\* Every dispatch keeps the invariant.
LEMMA DispatchLed == ASSUME LedInvariant, Dispatch PROVE LedInvariant'
<1>1. /\ [Next]_vars /\ TypeOK /\ RegistryInvariant' /\ RoutedInvariant'
      /\ DOMAIN client = Clients /\ DOMAIN outcome = Clients
  BY StepRegistry, StepRouted DEF LedInvariant, RegistryInvariant, TypeOK, Next
<1>2. /\ queue # <<>> /\ Head(queue) = queue[1] /\ queue \in Seq(EventType)
      /\ UNCHANGED <<tree, attached, added>> /\ InTree' = InTree /\ Patterns' = Patterns
  BY <1>1, DispatchCases, InTreeStays, PatternsStay DEF TypeOK
<1>3. ASSUME Quiet, NEW c, NEW i \in 1..Len(queue'), About(queue', i, c)
      PROVE  i + 1 \in 1..Len(queue) /\ About(queue, i + 1, c) /\ queue'[i] = queue[i + 1]
  <2>1. i + 1 \in 1..Len(queue) /\ queue'[i] = queue[i + 1]
    BY <1>2, <1>3, TakenTail DEF Quiet, Taken
  <2> QED
    BY <1>3, <2>1 DEF About
<1>4. CASE Quiet /\ UNCHANGED <<routes, client, outcome>>
  <2>1. RoutesLead(routes', Patterns, InTree', added')
    BY <1>2, <1>4 DEF LedInvariant
  <2>2. \A c \in Clients : \A i \in 1..Len(queue') : About(queue', i, c) =>
              \E j \in 1..Len(queue) : About(queue, j, c) /\ queue'[i] = queue[j]
    BY <1>3, <1>4
  <2> QED
    BY <1>1, <1>4, <2>1, <2>2, AsideLed
<1>5. ASSUME NEW d \in Domains, OnRoutesCreate(d), Quiet PROVE LedInvariant'
  <2>1. RoutesLead(routes', Patterns, InTree', added') /\ UNCHANGED <<client, outcome>>
    BY <1>2, <1>5, CreatedRoutesLead DEF OnRoutesCreate
  <2>2. \A c \in Clients : \A i \in 1..Len(queue') : About(queue', i, c) =>
              \E j \in 1..Len(queue) : About(queue, j, c) /\ queue'[i] = queue[j]
    BY <1>3, <1>5
  <2> QED
    BY <1>1, <2>1, <2>2, AsideLed
<1>6. ASSUME NEW c \in Clients, NEW n \in ClientEvents, Head(queue) = Event(n, c),
             Handled(n, c), Routed(c)
      PROVE  LedInvariant'
  <2>1. Leads(c) /\ Served(c) /\ UNCHANGED routes
    BY <1>2, <1>6, HandledLeads, HandledServes DEF LedInvariant, Routed
  <2>2. \A y \in Clients \ {c} : client'[y] = client[y] /\ outcome'[y] = outcome[y]
    BY <2>1 DEF Served
  <2>3. /\ 1 \in 1..Len(queue) /\ About(queue, 1, c) /\ Len(queue') \in Nat
    BY <1>1, <1>2, <1>6, TakenTail, QueueMoves DEF Taken, About, Event, Routed, Quiet, Fires
  <2>4. ASSUME NEW i \in 1..Len(queue')
        PROVE  \/ i + 1 \in 1..Len(queue) /\ queue'[i] = queue[i + 1]
               \/ /\ ~Quiet
                  /\ \E m \in ClientEvents :
                       /\ queue'[i] = Event(m, c)
                       /\ m \in {"domain.routing_success", "request"} => client'[c].resource # NoResource
    <3>1. CASE Quiet
      BY <1>2, <3>1, TakenTail DEF Quiet, Taken
    <3>2. ASSUME ~Quiet, NEW m \in ClientEvents, queue' = Tail(queue) \o <<Event(m, c)>>,
                 m \in {"domain.routing_success", "request"} => client'[c].resource # NoResource
          PROVE  \/ i + 1 \in 1..Len(queue) /\ queue'[i] = queue[i + 1]
                 \/ /\ ~Quiet
                    /\ \E k \in ClientEvents :
                         /\ queue'[i] = Event(k, c)
                         /\ k \in {"domain.routing_success", "request"} => client'[c].resource # NoResource
      BY <1>1, <1>2, <3>2, QueueMoves
    <3> QED
      BY <2>1, <3>1, <3>2 DEF Leads
  <2>5. \A i \in 1..Len(queue) : About(queue, i, c) => i = 1
    BY <2>3 DEF LedInvariant, RoutedInvariant, Awaited
  <2>6. ASSUME NEW i \in 1..Len(queue'), About(queue', i, c)
        PROVE  /\ ~Quiet
               /\ queue'[i].name \in {"domain.routing_success", "request"} => client'[c].resource # NoResource
    <3>1. CASE i + 1 \in 1..Len(queue) /\ queue'[i] = queue[i + 1]
      <4>1. i + 1 = 1
        BY <2>5, <2>6, <3>1 DEF About
      <4> QED
        BY <4>1
    <3>2. ASSUME ~Quiet, NEW m \in ClientEvents, queue'[i] = Event(m, c),
                 m \in {"domain.routing_success", "request"} => client'[c].resource # NoResource
          PROVE  /\ ~Quiet
                 /\ queue'[i].name \in {"domain.routing_success", "request"}
                       => client'[c].resource # NoResource
      <4>1. queue'[i].name = m
        BY <3>2 DEF Event
      <4> QED
        BY <3>2, <4>1
    <3> QED
      BY <2>4, <3>1, <3>2
  <2>7. /\ Led(queue, client[c], outcome[c], Patterns, InTree, added, c)
        /\ Awaited(queue, client[c], outcome[c], DomainOf, c)
    BY DEF LedInvariant, RoutedInvariant
  <2>8. outcome[c] # "none" /\ "path" \in DOMAIN client[c] /\ client[c].path \in {r.path : r \in Requests}
    BY <2>3, <2>7 DEF Led, Awaited
  <2>9. Led(queue', client'[c], outcome'[c], Patterns, InTree, added, c)
    <3>1. client'[c].resource # NoResource =>
             /\ client'[c].resource \in added
             /\ (InTree[client'[c].resource] \/ outcome'[c] = "called") => Fits(Patterns, client'[c])
      BY <2>1 DEF Leads
    <3>2. \A i \in 1..Len(queue') : About(queue', i, c) => outcome'[c] \notin Settled
      BY <2>1, <2>6 DEF Leads
    <3> QED
      BY <2>1, <2>6, <2>8, <3>1, <3>2 DEF Led, Leads
  <2>10. ASSUME NEW y \in Clients \ {c}
         PROVE  Led(queue', client'[y], outcome'[y], Patterns, InTree, added, y)
    <3>1. Led(queue, client[y], outcome[y], Patterns, InTree, added, y)
      BY DEF LedInvariant
    <3>2. \A i \in 1..Len(queue') : About(queue', i, y) =>
              \E j \in 1..Len(queue) : About(queue, j, y) /\ queue'[i] = queue[j]
      <4>1. SUFFICES ASSUME NEW i \in 1..Len(queue'), About(queue', i, y)
                     PROVE  \E j \in 1..Len(queue) : About(queue, j, y) /\ queue'[i] = queue[j]
        OBVIOUS
      <4>2. \A m : queue'[i] # Event(m, c)
        BY <4>1 DEF About, Event
      <4>3. i + 1 \in 1..Len(queue) /\ queue'[i] = queue[i + 1]
        BY <2>4, <4>2
      <4> QED
        BY <4>1, <4>3 DEF About
    <3>3. Led(queue', client[y], outcome[y], Patterns, InTree, added, y)
      BY <3>1, <3>2, LedKept
    <3> QED
      BY <2>2, <3>3
  <2>11. RoutesLead(routes', Patterns, InTree, added)
    BY <2>1 DEF LedInvariant
  <2> QED
    BY <1>1, <1>2, <2>9, <2>10, <2>11 DEF LedInvariant
<1>7. CASE \E x \in Components : (OnRegistered(x) \/ OnUnregistered(x)) /\ Quiet
  BY <1>4, <1>7 DEF OnRegistered, OnUnregistered
<1> QED
  BY <1>1, <1>5, <1>6, <1>7, DispatchCases

\* A request that arrives has the path of one.
LEMMA ArriveLed == ASSUME LedInvariant, NEW c \in Clients, Arrive(c) PROVE LedInvariant'
<1>1. /\ [Next]_vars /\ TypeOK /\ RegistryInvariant' /\ RoutedInvariant' /\ queue \in Seq(EventType)
      /\ DOMAIN client = Clients /\ DOMAIN outcome = Clients
  BY StepRegistry, StepRouted DEF LedInvariant, RegistryInvariant, TypeOK, Next
<1>2. /\ outcome[c] = "none" /\ outcome' = [outcome EXCEPT ![c] = "routing"]
      /\ queue' = Append(queue, Event("routing", c)) /\ UNCHANGED <<tree, attached, added, routes>>
      /\ InTree' = InTree /\ Patterns' = Patterns
  BY InTreeStays, PatternsStay DEF Arrive, treeVars
<1>3. Event("routing", c) \in EventType
  BY EventTypes DEF ClientEvents
<1>4. /\ Len(queue) \in Nat /\ Len(queue') = Len(queue) + 1
      /\ \A i \in 1..Len(queue) : queue'[i] = queue[i]
      /\ queue'[Len(queue) + 1] = Event("routing", c)
  BY <1>1, <1>2, <1>3, Appended
<1>5. PICK r \in Requests : client'[c] = [f \in RequestFields \cup DOMAIN Unrouted |->
                                             IF f \in RequestFields THEN r[f] ELSE Unrouted[f]]
  BY <1>1 DEF Arrive
<1>6. \A y \in Clients \ {c} : client'[y] = client[y] /\ outcome'[y] = outcome[y]
  BY <1>1 DEF Arrive
<1>7. /\ "path" \in DOMAIN client'[c] /\ client'[c].path \in {q.path : q \in Requests}
      /\ client'[c].resource = NoResource
  <2>1. "path" \in RequestFields /\ "resource" \notin RequestFields /\ "resource" \in DOMAIN Unrouted
    BY UnroutedFields DEF RequestFields
  <2>2. client'[c]["resource"] = Unrouted["resource"] /\ client'[c]["path"] = r["path"]
    BY <1>5, <2>1
  <2> QED
    BY <1>5, <2>1, <2>2 DEF Unrouted
<1>8. \A i \in 1..Len(queue) : ~About(queue, i, c)
  BY <1>2 DEF LedInvariant, RoutedInvariant, Awaited
<1>9. \A i \in 1..Len(queue') : About(queue', i, c) => queue'[i] = Event("routing", c)
  BY <1>4, <1>8 DEF About
<1>10. Led(queue', client'[c], outcome'[c], Patterns, InTree, added, c)
  <2>1. outcome'[c] = "routing"
    BY <1>1, <1>2
  <2>2. \A i \in 1..Len(queue') : About(queue', i, c) => queue'[i].name = "routing"
    BY <1>9 DEF Event
  <2> QED
    BY <1>7, <2>1, <2>2 DEF Led, Settled
<1>11. ASSUME NEW y \in Clients \ {c}
       PROVE  Led(queue', client'[y], outcome'[y], Patterns, InTree, added, y)
  <2>1. Led(queue, client[y], outcome[y], Patterns, InTree, added, y)
    BY DEF LedInvariant
  <2>2. \A i \in 1..Len(queue') : About(queue', i, y) =>
            \E j \in 1..Len(queue) : About(queue, j, y) /\ queue'[i] = queue[j]
    <3>1. SUFFICES ASSUME NEW i \in 1..Len(queue'), About(queue', i, y)
                   PROVE  \E j \in 1..Len(queue) : About(queue, j, y) /\ queue'[i] = queue[j]
      OBVIOUS
    <3>2. queue'[i] # Event("routing", c)
      BY <3>1 DEF About, Event
    <3>3. i \in 1..Len(queue)
      BY <1>4, <3>2
    <3> QED
      BY <1>4, <3>1, <3>3 DEF About
  <2>3. Led(queue', client[y], outcome[y], Patterns, InTree, added, y)
    BY <2>1, <2>2, LedKept
  <2> QED
    BY <1>6, <2>3
<1>12. RoutesLead(routes', Patterns, InTree, added)
  BY <1>2 DEF LedInvariant
<1> QED
  BY <1>1, <1>2, <1>10, <1>11, <1>12 DEF LedInvariant

\* Nobody has been led anywhere at the start.
LEMMA InitLed == ASSUME Init PROVE LedInvariant
<1>1. RegistryInvariant /\ RoutedInvariant
  BY InitRegistry, InitRouted
<1>2. \A i \in 1..Len(queue) : queue[i].name \notin ClientEvents
  <2>1. \A d : Event("routes.create", d).name \notin ClientEvents
    BY DEF Event, ClientEvents
  <2> QED
    BY <2>1, FirstEvents
<1>3. ASSUME NEW c \in Clients PROVE Led(queue, client[c], outcome[c], Patterns, InTree, added, c)
  <2>1. client[c] = Unrouted /\ Unrouted.resource = NoResource /\ outcome[c] = "none"
    BY DEF Init, Unrouted
  <2> QED
    BY <1>2, <2>1 DEF Led, About
<1>4. \A d \in Domains : routes[d] = {}
  BY DEF Init
<1> QED
  BY <1>1, <1>3, <1>4 DEF LedInvariant, RoutesLead

\* Every step keeps the invariant.
LEMMA StepLed == ASSUME LedInvariant, [Next]_vars PROVE LedInvariant'
<1>1. ASSUME NEW x \in Components, Register(x) PROVE LedInvariant'
  <2>1. Puts(Event("registered", x)) /\ "registered" \notin ClientEvents
    BY <1>1, EventTypes DEF Register, Puts, ClientEvents
  <2> QED
    BY <1>1, <2>1, AppendedLed DEF Register
<1>2. ASSUME NEW x \in Components, Unregister(x) PROVE LedInvariant'
  <2>1. Puts(Event("unregistered", x)) /\ "unregistered" \notin ClientEvents
    BY <1>2, EventTypes DEF Unregister, Puts, ClientEvents
  <2> QED
    BY <1>2, <2>1, AppendedLed DEF Unregister
<1>3. ASSUME NEW d \in Domains, RecreateRoutes(d) PROVE LedInvariant'
  <2>1. Puts(Event("routes.create", d)) /\ "routes.create" \notin ClientEvents
    BY <1>3, EventTypes DEF RecreateRoutes, Puts, ClientEvents
  <2> QED
    BY <1>3, <2>1, AppendedLed DEF RecreateRoutes
<1>4. CASE UNCHANGED vars
  <2>1. /\ UNCHANGED <<client, outcome, queue, routes, added>> /\ InTree' = InTree
        /\ RoutesLead(routes, Patterns, InTree, added)
    BY <1>4, InTreeStays DEF vars, treeVars, LedInvariant
  <2>2. RoutesLead(routes', Patterns, InTree', added')
    BY <2>1
  <2>3. \A c \in Clients : \A i \in 1..Len(queue') : About(queue', i, c) =>
              \E j \in 1..Len(queue) : About(queue, j, c) /\ queue'[i] = queue[j]
    BY <2>1 DEF About
  <2> QED
    BY <2>1, <2>2, <2>3, AsideLed
<1> QED
  BY <1>1, <1>2, <1>3, <1>4, DispatchLed, ArriveLed DEF Next

\* Whoever is called is called with the values of the path of the request in
\* the template it has in the tree, that of all the resources it hangs on and
\* its own (_build_tree_path, regexpath, match), or in a pattern it brings
\* itself, never with those of a route that was made when the tree was another
\* one.
CalledByTemplate ==
    \A c \in Clients : outcome[c] = "called" =>
        \E pattern \in {Tokenize(FullPath[client[c].resource])} \cup tree.own[client[c].resource] :
            client[c].path_segments \in Match(pattern, client[c].path)

\* Routes are made, replaced and followed while components come and go, and
\* CalledByTemplate holds at all times.
THEOREM CalledByTheTemplate == Spec => []CalledByTemplate
<1>1. Init => LedInvariant
  BY InitLed
<1>2. LedInvariant /\ [Next]_vars => LedInvariant'
  BY StepLed
<1>3. LedInvariant => CalledByTemplate
  <2>1. SUFFICES ASSUME LedInvariant, NEW c \in Clients, outcome[c] = "called"
                 PROVE  \E pattern \in {Tokenize(FullPath[client[c].resource])}
                                           \cup tree.own[client[c].resource] :
                           client[c].path_segments \in Match(pattern, client[c].path)
    BY DEF CalledByTemplate
  <2>2. client[c].resource \in Resources /\ Fits(Patterns, client[c])
    BY <2>1 DEF LedInvariant, RoutedInvariant, Awaited, Belongs, Led
  <2> QED
    BY <2>2 DEF Fits, Patterns
<1> QED
  BY <1>1, <1>2, <1>3, PTL DEF Spec

\* The language does what it is for or not, whatever comes and goes.
LEMMA TemplatesStay == ASSUME TemplatesLead, tree' = tree PROVE TemplatesLead'
<1>1. FullPath' = FullPath
  BY FullPathStays
<1>2. \A r, values : Instance(r, values)' = Instance(r, values)
  BY DEF Instance, Elements
<1> QED
  BY <1>1, <1>2 DEF TemplatesLead

\* If it does for the templates of the tree, nobody is called but as CalledAsAsked
\* says: routing adds no error of its own to those of the language.
THEOREM CalledAsTheTemplateSays == Spec /\ TemplatesLead => []CalledAsAsked
<1> DEFINE I == LedInvariant /\ TemplatesLead
<1>1. Init /\ TemplatesLead => I
  BY InitLed
<1>2. I /\ [Next]_vars => I'
  <2>1. SUFFICES ASSUME I, [Next]_vars PROVE I'
    OBVIOUS
  <2>2. tree' = tree
    BY <2>1, NothingComesBack DEF LedInvariant
  <2> QED
    BY <2>1, <2>2, StepLed, TemplatesStay
<1>3. I => CalledAsAsked
  <2>1. SUFFICES ASSUME I, NEW c \in Clients, outcome[c] = "called"
                 PROVE  \/ client[c].path_segments \in OwnMatches(client[c].resource, client[c].path)
                        \/ Instance(client[c].resource, client[c].path_segments) = client[c].path
    BY DEF CalledAsAsked
  <2>2. /\ Led(queue, client[c], outcome[c], Patterns, InTree, added, c)
        /\ Belongs(client[c], DomainOf)
    BY <2>1 DEF LedInvariant, RoutedInvariant, Awaited
  <2>3. /\ client[c].resource \in Resources /\ client[c].path \in {q.path : q \in Requests}
        /\ Fits(Patterns, client[c])
    BY <2>1, <2>2 DEF Led, Belongs
  <2>4. PICK pattern \in {Tokenize(FullPath[client[c].resource])} \cup tree.own[client[c].resource] :
          client[c].path_segments \in Match(pattern, client[c].path)
    BY <2>3 DEF Fits, Patterns
  <2> QED
    BY <2>1, <2>3, <2>4 DEF TemplatesLead, OwnMatches
<1> QED
  BY <1>1, <1>2, <1>3, PTL DEF Spec

-----------------------------------------------------------------------------
(* No path is refused that has a resource *)

\* No routes.create raises: what is built of the resources are patterns.
RoutesCompile == \A d \in Domains : \A r \in AllChilds(d) : Compiles(Tokenize(BuildTreePath(r)))

\* The domain has routes for all that has stood below it from the start.
Ready(rs, full, in, dom, d) ==
    \A r \in Resources \intersect Initially : in[r] /\ dom[r] = d =>
        \A pattern \in full[r] : \E route \in rs[d] : route.resource = r /\ route.pattern = pattern

\* They are going to be made before anything else happens.
Coming(q, d) ==
    \E i \in 1..Len(q) : q[i] = Event("routes.create", d) /\ \A j \in 1..i : q[j].name = "routes.create"

\* The path of the client matches nothing that has stood in its domain, except
\* what was asked and has declined.
Unmatched(cl, full, in, dom) ==
    \A r \in Resources \intersect Initially : in[r] /\ dom[r] = cl.domain =>
        \A pattern \in full[r] : Match(pattern, cl.path) # {} => r \in Choosy \intersect cl.declined

\* The inductive invariant behind NothingStandingRefused
MissedInvariant ==
    /\ LedInvariant /\ HostInvariant
    /\ \A d \in Domains \intersect Initially :
          Ready(routes, Patterns, InTree, DomainOf, d) \/ Coming(queue, d)
    /\ \A c \in Clients : outcome[c] \in {"403", "404"} =>
          Unmatched(client[c], Patterns, InTree, DomainOf)

\* What has stood from the start is led to by the children.
LEMMA StandingIsChild ==
    ASSUME MissedInvariant, NEW r \in Resources \intersect Initially, InTree[r]
    PROVE  r \in AllChilds(DomainOf[r])
<1>1. /\ tree \in Trees
      /\ \A x \in Resources : InTree[tree.parent[x]] =>
            Follows(queue, attached, x, x \in children[tree.parent[x]])
      /\ \A x \in Components \intersect Initially : ~Has(queue, "registered", x)
  BY DEF MissedInvariant, HostInvariant, RegistryInvariant, TypeOK
<1>2. PICK f : /\ \A x \in Resources :
                      f[x] <=> /\ x \in children[tree.parent[x]]
                               /\ (tree.parent[x] \in Resources => f[tree.parent[x]])
               /\ \A d \in Domains : AllChilds(d) = {x \in Resources : DomainOf[x] = d /\ f[x]}
  BY <1>1, AllChildsAre
<1> DEFINE Off == {x \in Resources \intersect Initially : InTree[x] /\ (~f[x] \/ DomainOf[x] \notin Domains)}
<1>3. ASSUME NEW x \in Resources \intersect Initially, InTree[x]
      PROVE  /\ x \in children[tree.parent[x]]
             /\ tree.parent[x] \in Initially /\ InTree[tree.parent[x]]
             /\ DomainOf[x] = DomainOf[tree.parent[x]]
             /\ tree.parent[x] \notin Resources =>
                   tree.parent[x] \in Domains /\ DomainOf[tree.parent[x]] = tree.parent[x]
  <2>1. x \in Components /\ x \notin Domains /\ tree.parent[x] \in Components
    BY <1>1, TreeFacts, RoutingAssumption DEF Components, RoutingAssumption
  <2>2. x \in attached /\ InTree[tree.parent[x]]
    BY <1>1, <1>3, <2>1, InTreeEquation
  <2>3. x \in children[tree.parent[x]]
    BY <1>1, <2>1, <2>2 DEF Follows
  <2>4. tree.parent[x] \notin Resources => tree.parent[x] \in Domains
    BY <2>1 DEF Components
  <2> QED
    BY <1>1, <2>1, <2>2, <2>3, <2>4, TreeFacts, DomainOfEquation
<1>4. Off = {}
  <2>1. SUFFICES ASSUME Off # {} PROVE FALSE
    OBVIOUS
  <2>2. PICK x \in Off : tree.parent[x] \notin Off
    <3>1. Off \in SUBSET Resources
      OBVIOUS
    <3> HIDE DEF Off
    <3> QED
      BY <1>1, <2>1, <3>1, TreeFacts
  <2> QED
    BY <1>2, <1>3, <2>2
<1> QED
  BY <1>2, <1>4

\* So routes.create makes a domain ready.
LEMMA CreatedIsReady ==
    ASSUME MissedInvariant, RoutesCompile, NEW d \in Domains, OnRoutesCreate(d)
    PROVE  Ready(routes', Patterns, InTree, DomainOf, d)
<1> DEFINE new == OwnRoutes(AllChilds(d))
                    \cup {RouteTo(r, Tokenize(BuildTreePath(r))) : r \in AllChilds(d)}
<1>1. tree \in Trees /\ DOMAIN routes = Domains
  BY DEF MissedInvariant, LedInvariant, RegistryInvariant, TypeOK
<1>2. SUFFICES ASSUME NEW r \in Resources \intersect Initially, InTree[r], DomainOf[r] = d,
                      NEW pattern \in Patterns[r]
               PROVE  \E route \in routes'[d] : route.resource = r /\ route.pattern = pattern
  BY DEF Ready
<1>3. InTree[d] /\ r \in AllChilds(d) /\ BuildTreePath(r) = FullPath[r]
  BY <1>1, <1>2, StandingIsChild, DomainAbove, BuildsFullPath
<1>4. \A route \in {RouteTo(x, Tokenize(BuildTreePath(x))) : x \in AllChilds(d)} : Compiles(route.pattern)
  BY DEF RoutesCompile, RouteTo
<1>5. routes'[d] = new
  BY <1>1, <1>3, <1>4 DEF OnRoutesCreate
<1>6. RouteTo(r, pattern) \in new
  BY <1>2, <1>3 DEF OwnRoutes, Patterns
<1> HIDE DEF new
<1> QED
  BY <1>5, <1>6 DEF RouteTo

\* The handlers answer 403 or 404 only if nothing matches that does not decline.
LEMMA HandledMisses ==
    ASSUME MissedInvariant, NEW c \in Clients, NEW n \in ClientEvents,
           queue # <<>>, queue[1] = Event(n, c), Handled(n, c),
           \A d \in Domains \intersect Initially : Ready(routes, Patterns, InTree, DomainOf, d),
           outcome'[c] \in {"403", "404"}
    PROVE  Unmatched(client'[c], Patterns, InTree, DomainOf)
<1>1. /\ DOMAIN client = Clients /\ DOMAIN outcome = Clients /\ RoutedInvariant /\ TypeOK
      /\ LedInvariant /\ 1 \in 1..Len(queue) /\ tree \in Trees
  BY TakenTail DEF MissedInvariant, LedInvariant, RoutedInvariant, TypeOK, Taken
<1>2. /\ About(queue, 1, c) /\ queue[1].name = n
      /\ Led(queue, client[c], outcome[c], Patterns, InTree, added, c)
      /\ Awaited(queue, client[c], outcome[c], DomainOf, c)
  BY <1>1 DEF LedInvariant, RoutedInvariant, About, Event
<1>3. /\ outcome[c] \notin {"403", "404"}
      /\ n # "routing" => client[c].domain \in Domains
  BY <1>1, <1>2 DEF Led, Awaited, Settled
<1>4. ASSUME outcome' = outcome \/ \E o : o \notin {"403", "404"} /\ outcome' = [outcome EXCEPT ![c] = o]
      PROVE  FALSE
  BY <1>1, <1>3, <1>4
<1>5. n = "domain.routing" /\ OnDomainRouting(c)
  <2>1. ~(n = "routing" /\ OnRouting(c))
    BY <1>4 DEF OnRouting, Route
  <2>2. ~OnRoutingSuccess(c)
    BY <1>4 DEF OnRoutingSuccess
  <2>3. ~OnDomainRoutingSuccess(c)
    BY <1>4 DEF OnDomainRoutingSuccess, Lost
  <2>4. ~OnRequest(c)
    BY <1>4 DEF OnRequest, Lost
  <2> QED
    BY <2>1, <2>2, <2>3, <2>4 DEF Handled
<1> DEFINE found == Found(client[c].domain, client[c].path)
           D == {match[1] : match \in found}
<1>6. (\A match \in found : match[1] \in Choosy) /\ client' = [client EXCEPT ![c].declined = D]
  BY <1>4, <1>5 DEF OnDomainRouting, Lost
<1>8. /\ client'[c].domain = client[c].domain /\ client'[c].path = client[c].path
      /\ client'[c].declined = D
  <2> HIDE DEF D
  <2> QED
    BY <1>1, <1>2, <1>3, <1>6, UnroutedFields DEF Awaited
<1>7. ASSUME NEW r \in Resources \intersect Initially, InTree[r], DomainOf[r] = client[c].domain,
             NEW pattern \in Patterns[r], NEW values \in Match(pattern, client[c].path)
      PROVE  r \in Choosy \intersect D
  <2>1. client[c].domain \in Domains \intersect Initially
    BY <1>1, <1>3, <1>5, <1>7, DomainAbove
  <2>2. PICK route \in routes[client[c].domain] :
           route.resource = r /\ route.pattern = pattern
    BY <1>7, <2>1 DEF Ready
  <2>3. <<r, values>> \in found /\ <<r, values>>[1] = r
    BY <1>7, <2>2 DEF Found
  <2> QED
    BY <1>6, <2>3
<1> HIDE DEF D
<1> QED
  BY <1>7, <1>8 DEF Unmatched

\* What becomes of both while the tree shrinks
LEMMA StaysReady ==
    ASSUME NEW rs, NEW ts, NEW full, NEW in, NEW up, NEW dom, NEW d,
           Ready(rs, full, in, dom, d), ts[d] = rs[d],
           \A r \in Resources \intersect Initially : up[r] => in[r]
    PROVE  Ready(ts, full, up, dom, d)
BY DEF Ready

LEMMA StaysUnmatched ==
    ASSUME NEW cl, NEW full, NEW in, NEW up, NEW dom, Unmatched(cl, full, in, dom),
           \A r \in Resources \intersect Initially : up[r] => in[r]
    PROVE  Unmatched(cl, full, up, dom)
BY DEF Unmatched

\* A step need be looked at only for what it does to routes, queue and clients.
LEMMA MissedNext ==
    ASSUME MissedInvariant, [Next]_vars,
           \A d \in Domains \intersect Initially :
              Ready(routes', Patterns, InTree, DomainOf, d) \/ Coming(queue', d),
           \A c \in Clients : outcome'[c] \in {"403", "404"} =>
              Unmatched(client'[c], Patterns, InTree, DomainOf)
    PROVE  MissedInvariant'
<1>1. /\ LedInvariant' /\ HostInvariant' /\ tree' = tree
      /\ \A x \in added : InTree'[x] => InTree[x]
  BY StepLed, StepHosts, NothingComesBack DEF MissedInvariant, LedInvariant
<1>2. Patterns' = Patterns /\ DomainOf' = DomainOf
  BY <1>1, PatternsStay, DomainOfStays
<1>3. \A r \in Resources \intersect Initially : InTree'[r] => InTree[r]
  BY <1>1 DEF MissedInvariant, HostInvariant, Components
<1>4. \A d \in Domains \intersect Initially :
          Ready(routes', Patterns, InTree', DomainOf, d) \/ Coming(queue', d)
  BY <1>3, StaysReady
<1>5. \A c \in Clients : outcome'[c] \in {"403", "404"} =>
          Unmatched(client'[c], Patterns, InTree', DomainOf)
  BY <1>3, StaysUnmatched
<1> QED
  BY <1>1, <1>2, <1>4, <1>5 DEF MissedInvariant

\* An event is appended.
LEMMA AppendedMissed ==
    ASSUME MissedInvariant, [Next]_vars, UNCHANGED routes, NEW e, Puts(e),
           \A c \in Clients : outcome'[c] \in {"403", "404"} =>
              outcome'[c] = outcome[c] /\ client'[c] = client[c]
    PROVE  MissedInvariant'
<1>1. queue \in Seq(EventType) /\ e \in EventType /\ queue' = Append(queue, e)
  BY DEF MissedInvariant, LedInvariant, RegistryInvariant, TypeOK, Puts
<1>2. /\ Len(queue) \in Nat /\ Len(queue') = Len(queue) + 1
      /\ \A i \in 1..Len(queue) : queue'[i] = queue[i]
  BY <1>1, Appended
<1>3. \A d : Coming(queue, d) => Coming(queue', d)
  <2>1. SUFFICES ASSUME NEW d, NEW i \in 1..Len(queue), queue[i] = Event("routes.create", d),
                        \A j \in 1..i : queue[j].name = "routes.create"
                 PROVE  Coming(queue', d)
    BY DEF Coming
  <2>2. i \in 1..Len(queue') /\ \A j \in 1..i : j \in 1..Len(queue)
    BY <1>2
  <2> QED
    BY <1>2, <2>1, <2>2 DEF Coming
<1>4. \A d \in Domains \intersect Initially :
          Ready(routes', Patterns, InTree, DomainOf, d) \/ Coming(queue', d)
  BY <1>3 DEF MissedInvariant
<1>5. \A c \in Clients : outcome'[c] \in {"403", "404"} =>
          Unmatched(client'[c], Patterns, InTree, DomainOf)
  BY DEF MissedInvariant
<1> QED
  BY <1>4, <1>5, MissedNext

\* An event is taken that is not about a client.
LEMMA QuietMissed ==
    ASSUME MissedInvariant, [Next]_vars, queue # <<>>, Quiet, UNCHANGED <<client, outcome>>,
           \/ queue[1].name # "routes.create" /\ UNCHANGED routes
           \/ \E d0 \in Domains : /\ queue[1] = Event("routes.create", d0)
                                  /\ Ready(routes', Patterns, InTree, DomainOf, d0)
                                  /\ \A d \in Domains \ {d0} : routes'[d] = routes[d]
    PROVE  MissedInvariant'
<1>1. queue \in Seq(EventType)
  BY DEF MissedInvariant, LedInvariant, RegistryInvariant, TypeOK
<1>2. Taken(queue, queue')
  BY <1>1, TakenTail DEF Quiet
<1>3. ASSUME NEW d \in Domains \intersect Initially
      PROVE  Ready(routes', Patterns, InTree, DomainOf, d) \/ Coming(queue', d)
  <2>1. CASE queue[1].name # "routes.create" /\ UNCHANGED routes
    <3>1. ~Coming(queue, d)
      <4>1. \A i \in 1..Len(queue) : 1 \in 1..i
        BY <1>2 DEF Taken
      <4> QED
        BY <2>1, <4>1 DEF Coming
    <3> QED
      BY <2>1, <3>1 DEF MissedInvariant
  <2>2. ASSUME NEW d0 \in Domains, queue[1] = Event("routes.create", d0),
               Ready(routes', Patterns, InTree, DomainOf, d0),
               \A y \in Domains \ {d0} : routes'[y] = routes[y]
        PROVE  Ready(routes', Patterns, InTree, DomainOf, d) \/ Coming(queue', d)
    <3>1. CASE d = d0
      BY <2>2, <3>1
    <3>2. CASE d # d0 /\ Ready(routes, Patterns, InTree, DomainOf, d)
      BY <2>2, <3>2, StaysReady
    <3>3. CASE d # d0 /\ Coming(queue, d)
      <4>1. PICK i \in 1..Len(queue) : /\ queue[i] = Event("routes.create", d)
                                       /\ \A j \in 1..i : queue[j].name = "routes.create"
        BY <3>3 DEF Coming
      <4>2. i # 1
        BY <2>2, <3>3, <4>1 DEF Event
      <4>3. i \in 2..Len(queue) /\ i - 1 \in 1..Len(queue') /\ queue'[i - 1] = queue[i]
        BY <1>2, <4>2 DEF Taken
      <4>4. ASSUME NEW j \in 1..(i - 1) PROVE queue'[j].name = "routes.create"
        <5>1. j + 1 \in 2..Len(queue) /\ j + 1 \in 1..i /\ (j + 1) - 1 = j
          BY <1>2, <4>3 DEF Taken
        <5>2. queue'[j] = queue[j + 1]
          BY <1>2, <5>1 DEF Taken
        <5> QED
          BY <4>1, <5>1, <5>2
      <4> QED
        BY <4>1, <4>3, <4>4 DEF Coming
    <3> QED
      BY <3>1, <3>2, <3>3 DEF MissedInvariant
  <2> QED
    BY <2>1, <2>2
<1>4. \A c \in Clients : outcome'[c] \in {"403", "404"} =>
          Unmatched(client'[c], Patterns, InTree, DomainOf)
  BY DEF MissedInvariant
<1> QED
  BY <1>3, <1>4, MissedNext

\* Every dispatch keeps the invariant, if what is built are patterns.
LEMMA DispatchMissed == ASSUME MissedInvariant, RoutesCompile, Dispatch PROVE MissedInvariant'
<1>1. /\ [Next]_vars /\ TypeOK /\ RoutedInvariant
      /\ DOMAIN client = Clients /\ DOMAIN outcome = Clients /\ DOMAIN routes = Domains
  BY DEF MissedInvariant, LedInvariant, RegistryInvariant, TypeOK, Next
<1>2. queue # <<>> /\ Head(queue) = queue[1] /\ queue \in Seq(EventType)
  BY <1>1, DispatchCases DEF TypeOK
<1>3. ASSUME NEW x \in Components,
             \/ Head(queue) = Event("registered", x) /\ OnRegistered(x)
             \/ Head(queue) = Event("unregistered", x) /\ OnUnregistered(x),
             Quiet
      PROVE  MissedInvariant'
  <2>1. queue[1].name # "routes.create"
    BY <1>2, <1>3 DEF Event
  <2>2. UNCHANGED <<routes, client, outcome>>
    BY <1>3 DEF OnRegistered, OnUnregistered
  <2> QED
    BY <1>1, <1>2, <1>3, <2>1, <2>2, QuietMissed
<1>4. ASSUME NEW d \in Domains, Head(queue) = Event("routes.create", d), OnRoutesCreate(d), Quiet
      PROVE  MissedInvariant'
  <2>1. Ready(routes', Patterns, InTree, DomainOf, d)
    BY <1>4, CreatedIsReady
  <2>2. UNCHANGED <<client, outcome>> /\ \A y \in Domains \ {d} : routes'[y] = routes[y]
    BY <1>1, <1>4 DEF OnRoutesCreate
  <2> QED
    BY <1>1, <1>2, <1>4, <2>1, <2>2, QuietMissed
<1>5. ASSUME NEW c \in Clients, NEW n \in ClientEvents, Head(queue) = Event(n, c),
             Handled(n, c), Routed(c)
      PROVE  MissedInvariant'
  <2>1. \A d \in Domains \intersect Initially : Ready(routes, Patterns, InTree, DomainOf, d)
    <3>1. \A i \in 1..Len(queue) : 1 \in 1..i
      BY <1>2, LenProperties
    <3>2. queue[1].name # "routes.create"
      BY <1>2, <1>5 DEF Event, ClientEvents
    <3>3. \A d : ~Coming(queue, d)
      BY <3>1, <3>2 DEF Coming
    <3> QED
      BY <3>3 DEF MissedInvariant
  <2>2. Served(c) /\ UNCHANGED routes
    BY <1>1, <1>2, <1>5, HandledServes DEF Routed
  <2>3. \A y \in Clients \ {c} : client'[y] = client[y] /\ outcome'[y] = outcome[y]
    BY <2>2 DEF Served
  <2>4. outcome'[c] \in {"403", "404"} => Unmatched(client'[c], Patterns, InTree, DomainOf)
    BY <1>2, <1>5, <2>1, HandledMisses
  <2>5. \A y \in Clients : outcome'[y] \in {"403", "404"} =>
          Unmatched(client'[y], Patterns, InTree, DomainOf)
    BY <2>3, <2>4 DEF MissedInvariant
  <2> QED
    BY <1>1, <2>1, <2>2, <2>5, MissedNext
<1> QED
  BY <1>1, <1>3, <1>4, <1>5, DispatchCases

\* Every step does.
LEMMA StepMissed ==
    ASSUME MissedInvariant, RoutesCompile, [Next]_vars PROVE MissedInvariant'
<1>1. DOMAIN client = Clients /\ DOMAIN outcome = Clients
  BY DEF MissedInvariant, LedInvariant, RegistryInvariant, TypeOK
<1>2. ASSUME NEW c \in Clients, Arrive(c) PROVE MissedInvariant'
  <2>1. Puts(Event("routing", c))
    BY <1>2, EventTypes DEF Arrive, Puts, ClientEvents
  <2>2. \A y \in Clients : outcome'[y] \in {"403", "404"} =>
              outcome'[y] = outcome[y] /\ client'[y] = client[y]
    BY <1>1, <1>2 DEF Arrive
  <2> QED
    BY <1>2, <2>1, <2>2, AppendedMissed DEF Arrive
<1>3. ASSUME NEW x \in Components, Register(x) PROVE MissedInvariant'
  <2>1. Puts(Event("registered", x)) /\ UNCHANGED <<routes, client, outcome>>
    BY <1>3, EventTypes DEF Register, Puts
  <2> QED
    BY <2>1, AppendedMissed
<1>4. ASSUME NEW x \in Components, Unregister(x) PROVE MissedInvariant'
  <2>1. Puts(Event("unregistered", x)) /\ UNCHANGED <<routes, client, outcome>>
    BY <1>4, EventTypes DEF Unregister, Puts
  <2> QED
    BY <2>1, AppendedMissed
<1>5. ASSUME NEW d \in Domains, RecreateRoutes(d) PROVE MissedInvariant'
  <2>1. Puts(Event("routes.create", d)) /\ UNCHANGED <<routes, client, outcome>>
    BY <1>5, EventTypes DEF RecreateRoutes, Puts
  <2> QED
    BY <2>1, AppendedMissed
<1>6. CASE UNCHANGED vars
  <2>1. UNCHANGED <<routes, client, outcome, queue>>
    BY <1>6 DEF vars, treeVars
  <2>2. \A d \in Domains \intersect Initially :
          Ready(routes', Patterns, InTree, DomainOf, d) \/ Coming(queue', d)
    BY <2>1 DEF MissedInvariant
  <2>3. \A c \in Clients : outcome'[c] \in {"403", "404"} =>
          Unmatched(client'[c], Patterns, InTree, DomainOf)
    BY <2>1 DEF MissedInvariant
  <2> QED
    BY <2>2, <2>3, MissedNext
<1> QED
  BY <1>2, <1>3, <1>4, <1>5, <1>6, DispatchMissed DEF Next

\* `started' has fired routes.create for every domain.
LEMMA AllAreComing ==
    ASSUME Init, NEW d \in Domains \intersect Initially
    PROVE  Coming(queue, d)
<1> DEFINE S == {Event("routes.create", y) : y \in domains}
           f == [y \in domains |-> Event("routes.create", y)]
           n == Cardinality(S)
<1>1. domains \subseteq Domains /\ IsFiniteSet(domains) /\ d \in domains
  BY RoutingAssumption, FS_Subset DEF Init, RoutingAssumption
<1>2. f \in Surjection(domains, S)
  BY DEF Surjection
<1>3. IsFiniteSet(S) /\ Event("routes.create", d) \in S
  BY <1>1, <1>2, FS_Surjection
<1>4. queue = SetToSeq(S)
  BY DEF Init
<1> HIDE DEF S
<1>5. n \in Nat /\ ExistsBijection(1..n, S)
  BY <1>3, FS_CardinalityType
<1>6. \E g \in [1..n -> S] : IsInjective(g)
  BY <1>5 DEF ExistsBijection, Bijection, Injection, IsInjective
<1>7. queue \in [1..n -> S] /\ IsInjective(queue)
  BY <1>4, <1>6 DEF SetToSeq
<1>8. queue \in Injection(1..n, S)
  BY <1>7 DEF Injection, IsInjective
<1>9. IsFiniteSet(1..n) /\ Cardinality(1..n) = n
  BY <1>5, FS_Interval
<1>10. queue \in Surjection(1..n, S)
  BY <1>3, <1>8, <1>9, FS_Injection
<1>11. Len(queue) = n
  BY <1>5, <1>7
<1>12. PICK i \in 1..Len(queue) : queue[i] = Event("routes.create", d)
  <2>1. PICK i \in 1..n : queue[i] = Event("routes.create", d)
    BY <1>3, <1>10 DEF Surjection
  <2> QED
    BY <1>11, <2>1
<1>13. \A j \in 1..Len(queue) : queue[j].name = "routes.create"
  <2>1. \A y : Event("routes.create", y).name = "routes.create"
    BY DEF Event
  <2> QED
    BY <2>1, FirstEvents
<1>14. \A j \in 1..i : queue[j].name = "routes.create"
  BY <1>5, <1>11, <1>13
<1> QED
  BY <1>12, <1>14 DEF Coming

\* Nobody has been refused at the start.
LEMMA InitMissed == ASSUME Init PROVE MissedInvariant
<1>1. LedInvariant /\ HostInvariant
  BY InitLed, InitHosts
<1>2. \A d \in Domains \intersect Initially : Coming(queue, d)
  BY AllAreComing
<1>3. \A c \in Clients : outcome[c] = "none"
  BY DEF Init
<1> QED
  BY <1>1, <1>2, <1>3 DEF MissedInvariant

\* A request is answered 403 or 404 only if its path matches the template or an
\* own pattern of nothing that has stood below its domain since the server
\* started, except of resources that were asked to identify it and declined:
\* none of the routes is missing, whatever was done to the tree and to the
\* routes meanwhile (OnRoutesCreate, _all_childs, match, _find_resource).
RefusedMatchesNothing ==
    \A c \in Clients : outcome[c] \in {"403", "404"} =>
        \A r \in Resources \intersect Initially : InTree[r] /\ DomainOf[r] = client[c].domain =>
            \A pattern \in {Tokenize(FullPath[r])} \cup tree.own[r] :
                Match(pattern, client[c].path) # {} => r \in Choosy \intersect client[c].declined

\* If all templates compile, no routes.create ever raises.
LEMMA RoutesAllCompile == ASSUME tree \in Trees, TemplatesCompile PROVE RoutesCompile
<1>1. \A d \in Domains : AllChilds(d) \subseteq Resources
  BY AllChildsAre
<1> QED
  BY <1>1, BuildsCutPath DEF RoutesCompile, TemplatesCompile

\* They do or not whatever comes and goes.
LEMMA CompilesStay == ASSUME TemplatesCompile, tree' = tree PROVE TemplatesCompile'
<1>1. FullPath' = FullPath
  BY FullPathStays
<1>2. CutPaths' = CutPaths
  BY DEF CutPaths
<1> QED
  BY <1>1, <1>2 DEF TemplatesCompile

\* So the invariant is kept.
LEMMA StepCompiles ==
    ASSUME MissedInvariant, TemplatesCompile, [Next]_vars
    PROVE  MissedInvariant' /\ TemplatesCompile' /\ tree' = tree
<1>1. tree \in Trees /\ tree' = tree
  BY NothingComesBack DEF MissedInvariant, LedInvariant, RegistryInvariant, TypeOK
<1> QED
  BY <1>1, RoutesAllCompile, CompilesStay, StepMissed

\* It holds if all templates compile, those too that are cut while what they
\* hang on has left the tree.
THEOREM NothingMatchingRefused == Spec /\ TemplatesCompile => []RefusedMatchesNothing
<1> DEFINE I == MissedInvariant /\ TemplatesCompile
<1>1. Init /\ TemplatesCompile => I
  BY InitMissed
<1>2. I /\ [Next]_vars => I'
  BY StepCompiles
<1>3. I => RefusedMatchesNothing
  BY DEF MissedInvariant, Unmatched, Patterns, RefusedMatchesNothing
<1> QED
  BY <1>1, <1>2, <1>3, PTL DEF Spec

\* That is a matter of the tree alone, too.
LEMMA PathsStay == ASSUME PathsMatch, tree' = tree PROVE PathsMatch'
<1>1. FullPath' = FullPath
  BY FullPathStays
<1>2. \A r, path : IsPathOf(r, path)' = IsPathOf(r, path)
  BY DEF IsPathOf, VariablesOf, Instance, Elements
<1> QED
  BY <1>1, <1>2 DEF PathsMatch

\* Where it does, nobody is refused what has been there all the time, neither a
\* host nor a path, as RefusedMeansAbsent says: unless the resource has declined.
THEOREM NothingStandingRefused ==
    Spec /\ TemplatesCompile /\ PathsMatch => []RefusedMeansAbsent
<1> DEFINE I == MissedInvariant /\ TemplatesCompile /\ PathsMatch
<1>1. Init /\ TemplatesCompile /\ PathsMatch => I
  BY InitMissed
<1>2. I /\ [Next]_vars => I'
  BY StepCompiles, PathsStay
<1>3. I /\ HostRefusedMeansAbsent => RefusedMeansAbsent
  <2>1. SUFFICES ASSUME I, HostRefusedMeansAbsent, NEW c \in Clients,
                        outcome[c] \in {"403", "404"}, NEW r \in Resources \intersect Initially,
                        InTree[r], DomainOf[r] = client[c].domain,
                        IsPathOf(r, client[c].path) \/ OwnMatches(r, client[c].path) # {}
                 PROVE  r \in Choosy \intersect client[c].declined
    BY DEF RefusedMeansAbsent, HostRefusedMeansAbsent
  <2>2. \A pattern \in {Tokenize(FullPath[r])} \cup tree.own[r] :
          Match(pattern, client[c].path) # {} => r \in Choosy \intersect client[c].declined
    BY <2>1 DEF MissedInvariant, Unmatched, Patterns
  <2>3. client[c].path \in {q.path : q \in Requests}
    BY <2>1 DEF MissedInvariant, LedInvariant, Led
  <2> QED
    BY <2>1, <2>2, <2>3 DEF PathsMatch, OwnMatches
<1> QED
  BY <1>1, <1>2, <1>3, NoKnownHostRefused, PTL DEF Spec
=============================================================================
