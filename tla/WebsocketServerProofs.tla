------------------------- MODULE WebsocketServerProofs -------------------------
(***************************************************************************)
(* Proofs about WebsocketServer, for every set of clients and resources.   *)
(***************************************************************************)
EXTENDS WebsocketServer, TLAPS

-------------------------------------------------------------------------------
\* What the operations on a dict of sets do to what a key looks up.

\* Add puts v into the set of k and changes no other set.
LEMMA LookupAdd ==
    ASSUME NEW d, NEW k, NEW v, NEW x
    PROVE  Lookup(Add(d, k, v), x) = Lookup(d, x) \cup (IF x = k THEN {v} ELSE {})
BY DEF Lookup, Add

\* Pop empties the set of k and changes no other set.
LEMMA LookupPop ==
    ASSUME NEW d, NEW k, NEW x
    PROVE  Lookup(Pop(d, k), x) = IF x = k THEN {} ELSE Lookup(d, x)
BY DEF Lookup, Pop

\* Discard takes v out of the sets of K and changes no other set.
LEMMA LookupDiscard ==
    ASSUME NEW d, NEW K, NEW v, NEW x
    PROVE  Lookup(Discard(d, K, v), x) = IF x \in K THEN Lookup(d, x) \ {v} ELSE Lookup(d, x)
<1>1. CASE x \in DOMAIN d /\ (x \in K => d[x] \ {v} # {})
  BY <1>1 DEF Lookup, Discard
<1>2. CASE x \in DOMAIN d /\ x \in K /\ d[x] \ {v} = {}
  <2>1. x \notin DOMAIN Discard(d, K, v)
    BY <1>2 DEF Discard
  <2>. QED  BY <1>2, <2>1 DEF Lookup
<1>3. CASE x \notin DOMAIN d
  BY <1>3 DEF Lookup, Discard
<1>. QED  BY <1>1, <1>2, <1>3

\* A dict from Keys to non-empty subsets of Values.
DictOK(d, Keys, Values) ==
    /\ DOMAIN d \subseteq Keys
    /\ \A k \in DOMAIN d : d[k] \in (SUBSET Values) \ {{}}

\* The three operations keep a dict a dict of non-empty sets.
LEMMA DictOperations ==
    ASSUME NEW d, NEW Keys, NEW Values, DictOK(d, Keys, Values)
    PROVE  /\ \A k \in Keys, v \in Values : DictOK(Add(d, k, v), Keys, Values)
           /\ \A k : DictOK(Pop(d, k), Keys, Values)
           /\ \A K, v : DictOK(Discard(d, K, v), Keys, Values)
<1>1. ASSUME NEW k \in Keys, NEW v \in Values
      PROVE  DictOK(Add(d, k, v), Keys, Values)
  BY <1>1 DEF DictOK, Add, Lookup
<1>2. ASSUME NEW k
      PROVE  DictOK(Pop(d, k), Keys, Values)
  BY <1>2 DEF DictOK, Pop
<1>3. ASSUME NEW K, NEW v
      PROVE  DictOK(Discard(d, K, v), Keys, Values)
  BY <1>3 DEF DictOK, Discard
<1>. QED  BY <1>1, <1>2, <1>3

\* What a dict of sets looks up is a set of values, and only keys look up anything.
LEMMA LookupType ==
    ASSUME NEW d, NEW Keys, NEW Values, DictOK(d, Keys, Values), NEW k
    PROVE  /\ Lookup(d, k) \subseteq Values
           /\ k \notin Keys => Lookup(d, k) = {}
BY DEF DictOK, Lookup

-------------------------------------------------------------------------------
\* The tracker's methods on its two tables.

\* Both tables are well formed and hold the same pairs.
TablesOK ==
    /\ DictOK(clients2paths, Client, Resource)
    /\ DictOK(paths2clients, Resource, Client)
    /\ \A c \in Client, r \in Resource :
          r \in Lookup(clients2paths, c) <=> c \in Lookup(paths2clients, r)

\* subscribe adds one pair, to both tables.
LEMMA SubscribeTables ==
    ASSUME TablesOK, NEW c \in Client, NEW r \in Resource, TrackerSubscribe(c, r)
    PROVE  /\ TablesOK'
           /\ \A x \in Client : Lookup(clients2paths', x) =
                 Lookup(clients2paths, x) \cup (IF x = c THEN {r} ELSE {})
<1>1. CASE IsSubscribed(c, r)
  BY <1>1 DEF TrackerSubscribe, tables, TablesOK, IsSubscribed
<1>2. CASE ~IsSubscribed(c, r)
  <2>1. /\ clients2paths' = Add(clients2paths, c, r)
        /\ paths2clients' = Add(paths2clients, r, c)
    BY <1>2 DEF TrackerSubscribe
  <2>2. /\ DictOK(clients2paths', Client, Resource)
        /\ DictOK(paths2clients', Resource, Client)
    BY <2>1, DictOperations DEF TablesOK
  <2>3. /\ \A x \in Client : Lookup(clients2paths', x) =
              Lookup(clients2paths, x) \cup (IF x = c THEN {r} ELSE {})
        /\ \A y \in Resource : Lookup(paths2clients', y) =
              Lookup(paths2clients, y) \cup (IF y = r THEN {c} ELSE {})
    BY <2>1, LookupAdd
  <2>4. \A x \in Client, y \in Resource :
            y \in Lookup(clients2paths', x) <=> x \in Lookup(paths2clients', y)
    BY <2>3 DEF TablesOK
  <2>. QED  BY <2>2, <2>3, <2>4 DEF TablesOK
<1>. QED  BY <1>1, <1>2

\* unsubscribe takes one pair out of both tables.
LEMMA UnsubscribeTables ==
    ASSUME TablesOK, NEW c \in Client, NEW r \in Resource, TrackerUnsubscribe(c, r)
    PROVE  /\ TablesOK'
           /\ \A x \in Client : Lookup(clients2paths', x) =
                 Lookup(clients2paths, x) \ (IF x = c THEN {r} ELSE {})
<1>1. CASE ~IsSubscribed(c, r)
  BY <1>1 DEF TrackerUnsubscribe, tables, TablesOK, IsSubscribed
<1>2. CASE IsSubscribed(c, r)
  <2>1. /\ clients2paths' = Discard(clients2paths, {c}, r)
        /\ paths2clients' = Discard(paths2clients, {r}, c)
    BY <1>2 DEF TrackerUnsubscribe
  <2>2. /\ DictOK(clients2paths', Client, Resource)
        /\ DictOK(paths2clients', Resource, Client)
    BY <2>1, DictOperations DEF TablesOK
  <2>3. /\ \A x \in Client : Lookup(clients2paths', x) =
              Lookup(clients2paths, x) \ (IF x = c THEN {r} ELSE {})
        /\ \A y \in Resource : Lookup(paths2clients', y) =
              Lookup(paths2clients, y) \ (IF y = r THEN {c} ELSE {})
    <3>. DEFINE C == {c}
                R == {r}
    <3>1. /\ \A x : x \in C <=> x = c
          /\ \A y : y \in R <=> y = r
      OBVIOUS
    <3>2. /\ clients2paths' = Discard(clients2paths, C, r)
          /\ paths2clients' = Discard(paths2clients, R, c)
      BY <2>1
    <3>. HIDE DEF C, R
    <3>3. /\ \A x : Lookup(clients2paths', x) =
                IF x \in C THEN Lookup(clients2paths, x) \ {r} ELSE Lookup(clients2paths, x)
          /\ \A y : Lookup(paths2clients', y) =
                IF y \in R THEN Lookup(paths2clients, y) \ {c} ELSE Lookup(paths2clients, y)
      BY <3>2, LookupDiscard
    <3>. QED  BY <3>1, <3>3
  <2>4. \A x \in Client, y \in Resource :
            y \in Lookup(clients2paths', x) <=> x \in Lookup(paths2clients', y)
    BY <2>3 DEF TablesOK
  <2>. QED  BY <2>2, <2>3, <2>4 DEF TablesOK
<1>. QED  BY <1>1, <1>2

\* delete_subscriptions_for_client empties the client's set.
LEMMA DeleteForClientTables ==
    ASSUME TablesOK, NEW c \in Client, DeleteSubscriptionsForClient(c)
    PROVE  /\ TablesOK'
           /\ \A x \in Client : Lookup(clients2paths', x) =
                 IF x = c THEN {} ELSE Lookup(clients2paths, x)
<1>1. /\ clients2paths' = Pop(clients2paths, c)
      /\ paths2clients' = Discard(paths2clients, Lookup(clients2paths, c), c)
  BY DEF DeleteSubscriptionsForClient
<1>2. /\ DictOK(clients2paths', Client, Resource)
      /\ DictOK(paths2clients', Resource, Client)
  BY <1>1, DictOperations DEF TablesOK
<1>3. /\ \A x \in Client : Lookup(clients2paths', x) =
            IF x = c THEN {} ELSE Lookup(clients2paths, x)
      /\ \A y \in Resource : Lookup(paths2clients', y) =
            IF y \in Lookup(clients2paths, c) THEN Lookup(paths2clients, y) \ {c}
                                             ELSE Lookup(paths2clients, y)
  BY <1>1, LookupDiscard, LookupPop
<1>4. \A x \in Client, y \in Resource :
          y \in Lookup(clients2paths', x) <=> x \in Lookup(paths2clients', y)
  BY <1>3 DEF TablesOK
<1>. QED  BY <1>2, <1>3, <1>4 DEF TablesOK

\* delete_subscriptions_to_resource takes the resource out of every client's set.
LEMMA DeleteToResourceTables ==
    ASSUME TablesOK, NEW r \in Resource, DeleteSubscriptionsToResource(r)
    PROVE  /\ TablesOK'
           /\ \A x \in Client : Lookup(clients2paths', x) = Lookup(clients2paths, x) \ {r}
<1>1. /\ paths2clients' = Pop(paths2clients, r)
      /\ clients2paths' = Discard(clients2paths, Lookup(paths2clients, r), r)
  BY DEF DeleteSubscriptionsToResource
<1>2. /\ DictOK(clients2paths', Client, Resource)
      /\ DictOK(paths2clients', Resource, Client)
  BY <1>1, DictOperations DEF TablesOK
<1>3. /\ \A y \in Resource : Lookup(paths2clients', y) =
            IF y = r THEN {} ELSE Lookup(paths2clients, y)
      /\ \A x \in Client : Lookup(clients2paths', x) =
            IF x \in Lookup(paths2clients, r) THEN Lookup(clients2paths, x) \ {r}
                                             ELSE Lookup(clients2paths, x)
  BY <1>1, LookupDiscard, LookupPop
<1>4. \A x \in Client : Lookup(clients2paths', x) = Lookup(clients2paths, x) \ {r}
  BY <1>3 DEF TablesOK
<1>5. \A x \in Client, y \in Resource :
          y \in Lookup(clients2paths', x) <=> x \in Lookup(paths2clients', y)
  BY <1>3, <1>4 DEF TablesOK
<1>. QED  BY <1>2, <1>4, <1>5 DEF TablesOK

\* Between the two loops of a dispatch: "removed" ends the subscriptions to r, and
\* no other event changes any.
LEMMA AfterOwnTables ==
    ASSUME TablesOK, NEW event, NEW r \in Resource, AfterOwn(event, r)
    PROVE  /\ TablesOK'
           /\ \A x \in Client : Lookup(clients2paths', x) =
                 Lookup(clients2paths, x) \ (IF event = "removed" THEN {r} ELSE {})
<1>1. CASE event = "removed"
  BY <1>1, DeleteToResourceTables DEF AfterOwn
<1>2. CASE event # "removed"
  BY <1>2 DEF AfterOwn, tables, TablesOK
<1>. QED  BY <1>1, <1>2

-------------------------------------------------------------------------------
\* The inductive invariant.  NoSilentUnsubscribe needs the agreement of the tables:
\* a dispatch tells the clients it finds in one table and then deletes in both.

IInv == TypeOK /\ TablesAgree /\ NoSilentUnsubscribe

LEMMA IInvTables == IInv => TablesOK
BY DEF IInv, TypeOK, TablesAgree, TablesOK, DictOK

\* TypeOK and TablesAgree after a step, from what the step does to the tables.
LEMMA IInvFromTables ==
    ASSUME TablesOK', NoSilentUnsubscribe',
           exists' \subseteq Resource, connected' \subseteq Client,
           told' \in [Client -> SUBSET Resource],
           \A x \in Client : Lookup(clients2paths', x) # {} => x \in connected'
    PROVE  IInv'
BY DEF IInv, TypeOK, TablesAgree, TablesOK, DictOK

LEMMA IInvInit == Init => IInv
<1>. SUFFICES ASSUME Init PROVE IInv
  OBVIOUS
<1>1. /\ DOMAIN clients2paths = {} /\ DOMAIN paths2clients = {}
      /\ told = [c \in Client |-> {}]
      /\ exists = {Root} /\ connected = {}
  BY DEF Init
<1>. QED  BY <1>1, TreeAssumption DEF IInv, TypeOK, TablesAgree, NoSilentUnsubscribe, Lookup

\* A client is told of a removal only when it is subscribed, and told[x] shrinks.
LEMMA ToldRemovedType ==
    ASSUME IInv, NEW event, NEW S, NEW r
    PROVE  /\ ToldRemoved(event, S, r) \in [Client -> SUBSET Resource]
           /\ \A x \in Client : ToldRemoved(event, S, r)[x] =
                 IF event = "removed" /\ x \in S THEN told[x] \ {r} ELSE told[x]
           /\ \A x \in Client : ToldRemoved(event, S, r)[x] \subseteq told[x]
BY DEF IInv, TypeOK, ToldRemoved

\* A dispatch whose first loop ran to its end.
LEMMA DispatchInv ==
    ASSUME IInv, NEW event, NEW r \in Resource, AfterOwn(event, r),
           told' = ToldRemoved(event, OwnAudience(event, r), r),
           UNCHANGED <<exists, connected>>
    PROVE  IInv'
<1>1. /\ TablesOK'
      /\ \A x \in Client : Lookup(clients2paths', x) =
            Lookup(clients2paths, x) \ (IF event = "removed" THEN {r} ELSE {})
  BY IInvTables, AfterOwnTables
<1>2. /\ told' \in [Client -> SUBSET Resource]
      /\ \A x \in Client : told'[x] = IF event = "removed" /\ x \in OwnAudience(event, r)
                                     THEN told[x] \ {r} ELSE told[x]
  <2>. DEFINE own == OwnAudience(event, r)
  <2>1. told' = ToldRemoved(event, own, r)
    OBVIOUS
  <2>. HIDE DEF own
  <2>2. /\ ToldRemoved(event, own, r) \in [Client -> SUBSET Resource]
        /\ \A x \in Client : ToldRemoved(event, own, r)[x] =
              IF event = "removed" /\ x \in own THEN told[x] \ {r} ELSE told[x]
    BY DEF IInv, TypeOK, ToldRemoved
  <2>3. /\ told' \in [Client -> SUBSET Resource]
        /\ \A x \in Client : told'[x] =
              IF event = "removed" /\ x \in own THEN told[x] \ {r} ELSE told[x]
    BY <2>1, <2>2
  <2>. QED  BY <2>3 DEF own
<1>3. event = "removed" =>
          \A x \in Client : x \in OwnAudience(event, r) <=> r \in Lookup(clients2paths, x)
  BY DEF OwnAudience, Subscribers, IInv, TablesAgree
<1>4. NoSilentUnsubscribe'
  BY <1>1, <1>2, <1>3 DEF IInv, NoSilentUnsubscribe
<1>. QED  BY <1>1, <1>2, <1>4, IInvFromTables DEF IInv, TypeOK, TablesAgree

LEMMA IInvStep == IInv /\ [Next]_vars => IInv'
<1>. SUFFICES ASSUME IInv, [Next]_vars PROVE IInv'
  OBVIOUS
<1>. USE IInvTables, IInvFromTables
<1>1. CASE UNCHANGED vars
  BY <1>1 DEF vars, tables, IInv, TypeOK, TablesAgree, NoSilentUnsubscribe, Lookup
<1>2. ASSUME NEW c \in Client, Connect(c) PROVE IInv'
  BY <1>2 DEF Connect, tables, IInv, TypeOK, TablesAgree, NoSilentUnsubscribe, Lookup
<1>3. ASSUME NEW c \in Client, Close(c) PROVE IInv'
  <2>1. /\ TablesOK'
        /\ \A x \in Client : Lookup(clients2paths', x) =
              IF x = c THEN {} ELSE Lookup(clients2paths, x)
    BY <1>3, DeleteForClientTables DEF Close
  <2>2. NoSilentUnsubscribe'
    BY <1>3, <2>1 DEF Close, IInv, TypeOK, NoSilentUnsubscribe
  <2>. QED  BY <1>3, <2>1, <2>2 DEF Close, IInv, TypeOK, TablesAgree
<1>4. ASSUME NEW c \in Client, Refuse(c) PROVE IInv'
  BY <1>4 DEF Refuse, tables, IInv, TypeOK, TablesAgree, NoSilentUnsubscribe, Lookup
<1>5. ASSUME NEW c \in Client, NEW r \in Resource, Subscribe(c, r) PROVE IInv'
  <2>1. /\ TablesOK'
        /\ \A x \in Client : Lookup(clients2paths', x) =
              Lookup(clients2paths, x) \cup (IF x = c THEN {r} ELSE {})
    BY <1>5, SubscribeTables DEF Subscribe
  <2>2. told' \in [Client -> SUBSET Resource] /\ NoSilentUnsubscribe'
    BY <1>5, <2>1 DEF Subscribe, IInv, TypeOK, NoSilentUnsubscribe
  <2>. QED  BY <1>5, <2>1, <2>2 DEF Subscribe, IInv, TypeOK, TablesAgree
<1>6. ASSUME NEW c \in Client, NEW r \in Resource, Unsubscribe(c, r) PROVE IInv'
  <2>1. /\ TablesOK'
        /\ \A x \in Client : Lookup(clients2paths', x) =
              Lookup(clients2paths, x) \ (IF x = c THEN {r} ELSE {})
    BY <1>6, UnsubscribeTables DEF Unsubscribe
  <2>2. told' \in [Client -> SUBSET Resource] /\ NoSilentUnsubscribe'
    BY <1>6, <2>1 DEF Unsubscribe, IInv, TypeOK, NoSilentUnsubscribe
  <2>. QED  BY <1>6, <2>1, <2>2 DEF Unsubscribe, IInv, TypeOK, TablesAgree
<1>7. ASSUME NEW b \in Client, NEW event \in ServerEvent, NEW r \in Resource,
             Notify(b, event, r)
      PROVE  IInv'
  BY <1>7, DispatchInv DEF Notify
<1>8. ASSUME NEW b \in Client, NEW event \in ServerEvent, NEW r \in Resource,
             NotifyFailsInFirstLoop(b, event, r)
      PROVE  IInv'
  <2>1. PICK own : told' = ToldRemoved(event, own, r)
    BY <1>8 DEF NotifyFailsInFirstLoop
  <2>2. /\ told' \in [Client -> SUBSET Resource]
        /\ \A x \in Client : told'[x] \subseteq told[x]
    <3>1. /\ ToldRemoved(event, own, r) \in [Client -> SUBSET Resource]
          /\ \A x \in Client : ToldRemoved(event, own, r)[x] \subseteq told[x]
      BY ToldRemovedType
    <3>. QED  BY <2>1, <3>1
  <2>. QED  BY <1>8, <2>2 DEF NotifyFailsInFirstLoop, tables, IInv, TypeOK, TablesAgree,
                            NoSilentUnsubscribe, Lookup
<1>9. ASSUME NEW b \in Client, NEW event \in ServerEvent, NEW r \in Resource,
             NotifyFailsInSecondLoop(b, event, r)
      PROVE  IInv'
  BY <1>9, DispatchInv DEF NotifyFailsInSecondLoop
<1>10. ASSUME NEW r \in NonRoot, DbCreate(r) \/ DbDelete(r) PROVE IInv'
  BY <1>10 DEF DbCreate, DbDelete, NonRoot, tables, IInv, TypeOK, TablesAgree,
               NoSilentUnsubscribe, Lookup
<1>. QED  BY <1>1, <1>2, <1>3, <1>4, <1>5, <1>6, <1>7, <1>8, <1>9, <1>10 DEF Next

\* The invariant holds in every reachable state, for any set of clients and any
\* tree of resources.
THEOREM Invariance == Spec => []IInv
BY IInvInit, IInvStep, PTL DEF Spec

\* The tables stay dicts of non-empty sets.
THEOREM TypeCorrect == Spec => []TypeOK
BY Invariance, PTL DEF IInv

\* The two tables never disagree and forget a closed connection.
THEOREM TablesAlwaysAgree == Spec => []TablesAgree
BY Invariance, PTL DEF IInv

\* A client that was told it is subscribed is, until it is told otherwise.
THEOREM NeverSilentlyUnsubscribed == Spec => []NoSilentUnsubscribe
BY Invariance, PTL DEF IInv

-------------------------------------------------------------------------------
\* The server implements Subscriptions: the pairs of the first table are its relation.

Pairs == {s \in Client \X Resource : s[2] \in Lookup(clients2paths, s[1])}

\* A pair is in the relation when the first table has it.
LEMMA PairsMember ==
    ASSUME NEW c, NEW r
    PROVE  /\ <<c, r>> \in Pairs <=> c \in Client /\ r \in Resource /\ r \in Lookup(clients2paths, c)
           /\ <<c, r>> \in Pairs' <=> c \in Client /\ r \in Resource /\ r \in Lookup(clients2paths', c)
BY DEF Pairs

\* A step that leaves the first table alone leaves the relation alone.
LEMMA PairsUnchanged == UNCHANGED clients2paths => Pairs' = Pairs
BY DEF Pairs

\* The dispatch finds in the second table exactly the audience the relation gives.
LEMMA Audiences ==
    ASSUME IInv, NEW event \in ServerEvent, NEW r \in Resource, AfterOwn(event, r)
    PROVE  /\ Pairs' = Abstract!Remaining(event, r)
           /\ OwnAudience(event, r) = Abstract!OwnAudience(event, r)
           /\ ParentAudience(event, r) = Abstract!ParentAudience(event, r)
<1>1. /\ TablesOK /\ TablesOK'
      /\ \A x \in Client : Lookup(clients2paths', x) =
            Lookup(clients2paths, x) \ (IF event = "removed" THEN {r} ELSE {})
  BY IInvTables, AfterOwnTables
<1>2. Abstract!Remaining(event, r) = IF event = "removed" THEN {s \in Pairs : s[2] # r} ELSE Pairs
  BY DEF Abstract!Remaining, Pairs
<1>3. Pairs' = Abstract!Remaining(event, r)
  BY <1>1, <1>2 DEF Pairs
<1>4. OwnAudience(event, r) = Abstract!OwnAudience(event, r)
  <2>1. /\ Subscribers(r) \subseteq Client
        /\ \A x \in Client : x \in Subscribers(r) <=> <<x, r>> \in Pairs
    BY <1>1, LookupType, PairsMember DEF TablesOK, Subscribers
  <2>. QED  BY <2>1 DEF OwnAudience, Abstract!OwnAudience, Pairs
<1>5. ParentAudience(event, r) = Abstract!ParentAudience(event, r)
  <2>1. ParentPath(r) \in Resource
    BY TreeAssumption DEF ParentPath, NonRoot
  <2>2. Lookup(paths2clients', ParentPath(r)) \subseteq Client
    BY <1>1, LookupType DEF TablesOK
  <2>3. \A x \in Client : x \in Lookup(paths2clients', ParentPath(r)) <=> <<x, ParentPath(r)>> \in Pairs'
    BY <1>1, <2>1, PairsMember DEF TablesOK
  <2>4. Abstract!ParentPath(r) = ParentPath(r)
    BY DEF Abstract!ParentPath, ParentPath
  <2>5. Lookup(paths2clients', ParentPath(r)) =
            {x \in Client : <<x, ParentPath(r)>> \in Abstract!Remaining(event, r)}
    BY <1>3, <2>2, <2>3
  <2>. QED  BY <2>4, <2>5 DEF ParentAudience, Abstract!ParentAudience
<1>. QED  BY <1>3, <1>4, <1>5

\* The frames are the same in both modules.
LEMMA SameFrames ==
    /\ \A S, f : Abstract!SendTo(S, f) = SendTo(S, f)
    /\ \A f, g : Abstract!Followed(f, g) = Followed(f, g)
    /\ \A event, r : Abstract!OwnFrame(event, r) = OwnFrame(event, r)
    /\ \A event, r : Abstract!ParentFrame(event, r) = ParentFrame(event, r)
    /\ \A status, action, r :
          Abstract!StatusFrame(status, action, r) = StatusFrame(status, action, r)
    /\ Abstract!ErrorFrame = ErrorFrame
    /\ Abstract!Silence = Silence
    /\ Abstract!ServerEvent = ServerEvent
BY DEF Abstract!SendTo, SendTo, Abstract!Followed, Followed, Abstract!OwnFrame, OwnFrame,
       Abstract!ParentFrame, ParentFrame, Abstract!StatusFrame, StatusFrame,
       Abstract!ErrorFrame, ErrorFrame, Abstract!Silence, Silence,
       Abstract!EventFrame, EventFrame, Abstract!ChildFrame, ChildFrame,
       Abstract!ParentRef, ParentRef, Abstract!ServerEvent, ServerEvent

LEMMA InitRefines == Init => Abstract!Init
<1>. SUFFICES ASSUME Init PROVE Abstract!Init
  OBVIOUS
<1>1. Pairs = {}
  BY DEF Init, Pairs, Lookup
<1>. QED  BY <1>1, SameFrames DEF Init, Abstract!Init, Pairs

\* A completed dispatch is a Publish.
LEMMA NotifyRefines ==
    ASSUME IInv, NEW b \in Client, NEW event \in ServerEvent, NEW r \in Resource,
           Notify(b, event, r)
    PROVE  Abstract!Publish(event, r)
<1>1. AfterOwn(event, r)
  BY DEF Notify
<1>2. sent' = Followed(SendTo(OwnAudience(event, r), OwnFrame(event, r)),
                       SendTo(ParentAudience(event, r), ParentFrame(event, r)))
  BY DEF Notify, Frames
<1>3. sent' = Abstract!Followed(
                 Abstract!SendTo(Abstract!OwnAudience(event, r), Abstract!OwnFrame(event, r)),
                 Abstract!SendTo(Abstract!ParentAudience(event, r), Abstract!ParentFrame(event, r)))
  BY <1>1, <1>2, Audiences, SameFrames
<1>4. Pairs' = Abstract!Remaining(event, r)
  BY <1>1, Audiences
<1>. QED  BY <1>3, <1>4 DEF Abstract!Publish, Pairs

\* A dispatch that fails is a PublishPartly.
LEMMA FirstLoopRefines ==
    ASSUME IInv, NEW b \in Client, NEW event \in ServerEvent, NEW r \in Resource,
           NotifyFailsInFirstLoop(b, event, r)
    PROVE  Abstract!PublishPartly(b, event, r)
<1>1. PICK own \in SUBSET OwnAudience(event, r) :
          /\ own # OwnAudience(event, r)
          /\ sent' = Followed(Followed(SendTo(own, OwnFrame(event, r)),
                                       SendTo({}, ParentFrame(event, r))),
                              SendTo({b}, ErrorFrame))
  BY DEF NotifyFailsInFirstLoop, Frames
<1>2. OwnAudience(event, r) = Abstract!OwnAudience(event, r)
  <2>1. TablesOK
    BY IInvTables
  <2>2. /\ Subscribers(r) \subseteq Client
        /\ \A x \in Client : x \in Subscribers(r) <=> <<x, r>> \in Pairs
    BY <2>1, LookupType, PairsMember DEF TablesOK, Subscribers
  <2>. QED  BY <2>2 DEF OwnAudience, Abstract!OwnAudience, Pairs
<1>3. Pairs' = Pairs
  BY PairsUnchanged DEF NotifyFailsInFirstLoop, tables
<1>4. {} \in SUBSET Abstract!ParentAudience(event, r)
  OBVIOUS
<1>5. sent' = Abstract!Followed(
                 Abstract!Followed(Abstract!SendTo(own, Abstract!OwnFrame(event, r)),
                                   Abstract!SendTo({}, Abstract!ParentFrame(event, r))),
                 Abstract!SendTo({b}, Abstract!ErrorFrame))
  BY <1>1, SameFrames
<1>. QED  BY <1>1, <1>2, <1>3, <1>4, <1>5 DEF Abstract!PublishPartly, Pairs

LEMMA SecondLoopRefines ==
    ASSUME IInv, NEW b \in Client, NEW event \in ServerEvent, NEW r \in Resource,
           NotifyFailsInSecondLoop(b, event, r)
    PROVE  Abstract!PublishPartly(b, event, r)
<1>. DEFINE own == OwnAudience(event, r)
<1>1. AfterOwn(event, r)
  BY DEF NotifyFailsInSecondLoop
<1>2. PICK above \in SUBSET ParentAudience(event, r) :
          sent' = Followed(Followed(SendTo(own, OwnFrame(event, r)),
                                    SendTo(above, ParentFrame(event, r))),
                           SendTo({b}, ErrorFrame))
  BY DEF NotifyFailsInSecondLoop, Frames
<1>3. /\ Pairs' = Abstract!Remaining(event, r)
      /\ own = Abstract!OwnAudience(event, r)
      /\ above \in SUBSET Abstract!ParentAudience(event, r)
  BY <1>1, <1>2, Audiences
<1>. HIDE DEF own
<1>4. sent' = Abstract!Followed(
                 Abstract!Followed(Abstract!SendTo(own, Abstract!OwnFrame(event, r)),
                                   Abstract!SendTo(above, Abstract!ParentFrame(event, r))),
                 Abstract!SendTo({b}, Abstract!ErrorFrame))
  BY <1>2, SameFrames
<1>. QED  BY <1>3, <1>4 DEF Abstract!PublishPartly, Pairs

LEMMA SubscribeRefines ==
    ASSUME IInv, NEW c \in Client, NEW r \in Resource, Subscribe(c, r)
    PROVE  Abstract!Subscribe(c, r)
<1>1. \A x \in Client : Lookup(clients2paths', x) =
          Lookup(clients2paths, x) \cup (IF x = c THEN {r} ELSE {})
  BY IInvTables, SubscribeTables DEF Subscribe
<1>2. Pairs' = Pairs \cup {<<c, r>>}
  BY <1>1 DEF Pairs
<1>3. IsSubscribed(c, r) <=> <<c, r>> \in Pairs
  BY PairsMember DEF IsSubscribed
<1>4. Abstract!Answer(c, IF <<c, r>> \in Pairs THEN "redundant" ELSE "ok", "subscribe", r)
  <2>. DEFINE status == IF IsSubscribed(c, r) THEN "redundant" ELSE "ok"
  <2>1. sent' \in {SendTo({c}, StatusFrame(status, "subscribe", r)), SendTo({c}, ErrorFrame)}
    BY DEF Subscribe
  <2>2. (IF <<c, r>> \in Pairs THEN "redundant" ELSE "ok") = status
    BY <1>3
  <2>. HIDE DEF status
  <2>. QED  BY <2>1, <2>2, SameFrames DEF Abstract!Answer
<1>. QED  BY <1>2, <1>4 DEF Abstract!Subscribe, Pairs

LEMMA UnsubscribeRefines ==
    ASSUME IInv, NEW c \in Client, NEW r \in Resource, Unsubscribe(c, r)
    PROVE  Abstract!Unsubscribe(c, r)
<1>1. \A x \in Client : Lookup(clients2paths', x) =
          Lookup(clients2paths, x) \ (IF x = c THEN {r} ELSE {})
  BY IInvTables, UnsubscribeTables DEF Unsubscribe
<1>2. Pairs' = Pairs \ {<<c, r>>}
  BY <1>1 DEF Pairs
<1>3. IsSubscribed(c, r) <=> <<c, r>> \in Pairs
  BY PairsMember DEF IsSubscribed
<1>4. Abstract!Answer(c, IF <<c, r>> \in Pairs THEN "ok" ELSE "redundant", "unsubscribe", r)
  <2>. DEFINE status == IF IsSubscribed(c, r) THEN "ok" ELSE "redundant"
  <2>1. sent' \in {SendTo({c}, StatusFrame(status, "unsubscribe", r)), SendTo({c}, ErrorFrame)}
    BY DEF Unsubscribe
  <2>2. (IF <<c, r>> \in Pairs THEN "ok" ELSE "redundant") = status
    BY <1>3
  <2>. HIDE DEF status
  <2>. QED  BY <2>1, <2>2, SameFrames DEF Abstract!Answer
<1>. QED  BY <1>2, <1>4 DEF Abstract!Unsubscribe, Pairs

\* Every step of the server is a step of the abstract server, or leaves the relation
\* and the frames unchanged.
LEMMA StepRefines ==
    IInv /\ [Next]_vars => [Abstract!Next]_<<Pairs, sent>>
<1>. SUFFICES ASSUME IInv, Next PROVE Abstract!Next
  <2>1. UNCHANGED vars => UNCHANGED <<Pairs, sent>>
    BY PairsUnchanged DEF vars
  <2>. QED  BY <2>1
<1>. USE SameFrames
<1>1. ASSUME NEW c \in Client, Connect(c) PROVE Abstract!Quiet
  BY <1>1, PairsUnchanged DEF Connect, tables, Abstract!Quiet, Pairs
<1>2. ASSUME NEW c \in Client, Close(c) PROVE Abstract!Close(c)
  <2>1. \A x \in Client : Lookup(clients2paths', x) =
            IF x = c THEN {} ELSE Lookup(clients2paths, x)
    BY <1>2, IInvTables, DeleteForClientTables DEF Close
  <2>2. Pairs' = {s \in Pairs : s[1] # c}
    BY <2>1 DEF Pairs
  <2>. QED  BY <1>2, <2>2 DEF Close, Abstract!Close, Pairs
<1>3. ASSUME NEW c \in Client, Refuse(c) PROVE Abstract!Refuse(c)
  BY <1>3, PairsUnchanged DEF Refuse, tables, Abstract!Refuse, Pairs
<1>4. ASSUME NEW r \in NonRoot, DbCreate(r) \/ DbDelete(r) PROVE Abstract!Quiet
  BY <1>4, PairsUnchanged DEF DbCreate, DbDelete, tables, Abstract!Quiet, Pairs
<1>. QED
  BY <1>1, <1>2, <1>3, <1>4, SubscribeRefines, UnsubscribeRefines, NotifyRefines,
     FirstLoopRefines, SecondLoopRefines DEF Next, Abstract!Next

\* The server implements the abstract subscription service.
THEOREM Refinement == Spec => ImplementsSubscriptions
<1>1. Init => Abstract!Init
  BY InitRefines
<1>2. IInv /\ [Next]_vars => [Abstract!Next]_<<Pairs, sent>>
  BY StepRefines
<1>3. Spec => Abstract!Spec
  BY <1>1, <1>2, Invariance, PTL DEF Spec, Abstract!Spec, Pairs
<1>. QED  BY <1>3 DEF ImplementsSubscriptions
===============================================================================
