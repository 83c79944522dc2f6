---------------------------- MODULE WebsocketServer ----------------------------
(***************************************************************************)
(* The standalone websocket server: ClientTracker and ClientCommunicator of *)
(* websockets/server.py.  Browsers subscribe to resources; the REST        *)
(* backend's processes, connected from localhost, notify of what a         *)
(* transaction changed; the server forwards that to the subscribers.       *)
(*                                                                         *)
(* The server is one asyncio process, and a handler never yields, so one   *)
(* handler call is one action.  Resources are looked up in the database    *)
(* when a handler runs (every handler syncs its connection): `exists` is   *)
(* the database's state, which other processes change at any time.         *)
(***************************************************************************)
EXTENDS ServerFrames

CONSTANTS Forbidden,  \* the paths below /principals and /catalogs
          Backend     \* the peers on localhost, which may notify

ASSUME ServerAssumption ==
    /\ Forbidden \subseteq Resource
    /\ Backend \subseteq Client

VARIABLES exists,         \* the resources in the database
          connected,      \* the peers with an open connection
          clients2paths,  \* _clients2resource_paths: a dict of sets
          paths2clients,  \* _resource_paths2clients: a dict of sets
          sent,           \* the frames of the last handler, by client
          told            \* history: the subscriptions each client believes in

vars == <<exists, connected, clients2paths, paths2clients, sent, told>>
tables == <<clients2paths, paths2clients>>

-------------------------------------------------------------------------------
\* A dict of sets: a function on the keys that are present.

Lookup(d, k) == IF k \in DOMAIN d THEN d[k] ELSE {}

Add(d, k, v) ==
    [x \in DOMAIN d \cup {k} |-> Lookup(d, x) \cup (IF x = k THEN {v} ELSE {})]

Pop(d, k) == [x \in DOMAIN d \ {k} |-> d[x]]

\* Mutant of Discard: an emptied set stays in the dict.
DiscardKeepsKey(d, K, v) == [x \in DOMAIN d |-> IF x \in K THEN d[x] \ {v} ELSE d[x]]

\* _discard_from_set_valued_dict for every key of K: v leaves the sets of those
\* keys, and a key whose set is empty then is deleted.
Discard(d, K, v) ==
    [x \in {x \in DOMAIN d : x \in K => d[x] \ {v} # {}} |->
        IF x \in K THEN d[x] \ {v} ELSE d[x]]

IsSubscribed(c, r) == r \in Lookup(clients2paths, c)

Subscribers(r) == Lookup(paths2clients, r)

-------------------------------------------------------------------------------
\* ClientTracker's methods, as changes of the two tables.

TrackerSubscribe(c, r) ==
    IF IsSubscribed(c, r) THEN UNCHANGED tables
    ELSE /\ clients2paths' = Add(clients2paths, c, r)
         /\ paths2clients' = Add(paths2clients, r, c)

TrackerUnsubscribe(c, r) ==
    IF ~IsSubscribed(c, r) THEN UNCHANGED tables
    ELSE /\ clients2paths' = Discard(clients2paths, {c}, r)
         /\ paths2clients' = Discard(paths2clients, {r}, c)

\* Mutant: only the client's own entry is dropped.
DeleteEntryOfClient(c) ==
    /\ clients2paths' = Pop(clients2paths, c)
    /\ UNCHANGED paths2clients

DeleteSubscriptionsForClient(c) ==
    /\ clients2paths' = Pop(clients2paths, c)
    /\ paths2clients' = Discard(paths2clients, Lookup(clients2paths, c), c)

DeleteSubscriptionsToResource(r) ==
    /\ paths2clients' = Pop(paths2clients, r)
    /\ clients2paths' = Discard(clients2paths, Lookup(paths2clients, r), r)

-------------------------------------------------------------------------------
Init ==
    /\ exists = {Root}
    /\ connected = {}
    /\ clients2paths = <<>>
    /\ paths2clients = <<>>
    /\ sent = Silence
    /\ told = [c \in Client |-> {}]

Connect(c) ==
    /\ c \notin connected
    /\ connected' = connected \cup {c}
    /\ sent' = Silence
    /\ UNCHANGED <<exists, tables, told>>

Close(c) ==
    /\ c \in connected
    /\ connected' = connected \ {c}
    /\ DeleteSubscriptionsForClient(c)
    /\ sent' = Silence
    /\ told' = [told EXCEPT ![c] = {}]
    /\ UNCHANGED exists

\* A request the schema accepts: its resource exists and may be subscribed to.
\* The table is changed before the confirmation is built, and building it reads
\* the database, which may fail: then an error is sent in its place.
Subscribe(c, r) ==
    /\ c \in connected /\ r \in exists \ Forbidden
    /\ TrackerSubscribe(c, r)
    /\ \/ /\ sent' = SendTo({c}, StatusFrame(
                        IF IsSubscribed(c, r) THEN "redundant" ELSE "ok", "subscribe", r))
          /\ told' = [told EXCEPT ![c] = @ \cup {r}]
       \/ /\ sent' = SendTo({c}, ErrorFrame)
          /\ UNCHANGED told
    /\ UNCHANGED <<exists, connected>>

Unsubscribe(c, r) ==
    /\ c \in connected /\ r \in exists \ Forbidden
    /\ TrackerUnsubscribe(c, r)
    /\ \/ sent' = SendTo({c}, StatusFrame(
                     IF IsSubscribed(c, r) THEN "ok" ELSE "redundant", "unsubscribe", r))
       \/ sent' = SendTo({c}, ErrorFrame)
    /\ told' = [told EXCEPT ![c] = @ \ {r}]
    /\ UNCHANGED <<exists, connected>>

\* Any other message of a client or of a notifier: malformed, an unknown action or
\* event, a resource that does not exist (any more) or may not be subscribed to.
Refuse(c) ==
    /\ c \in connected
    /\ sent' = SendTo({c}, ErrorFrame)
    /\ UNCHANGED <<exists, connected, tables, told>>

-------------------------------------------------------------------------------
\* Dispatching a notification about r.

\* What removed events in frames do to the belief of the clients of S.
ToldRemoved(event, S, r) ==
    [c \in Client |-> IF event = "removed" /\ c \in S THEN told[c] \ {r} ELSE told[c]]

\* The subscribers the first loop of the dispatch visits.
OwnAudience(event, r) == IF event = "created" THEN {} ELSE Subscribers(r)

\* What happens between the two loops.
AfterOwn(event, r) ==
    IF event = "removed" THEN DeleteSubscriptionsToResource(r) ELSE UNCHANGED tables

\* Mutant: the event is announced to the subscribers of r only.
ParentAudienceOfResource(event, r) ==
    IF event = "changed_descendants" THEN {} ELSE Lookup(paths2clients', r)

\* The subscribers the second loop visits, after that.
ParentAudience(event, r) ==
    IF event = "changed_descendants" THEN {} ELSE Lookup(paths2clients', ParentPath(r))

Frames(own, above, event, r) ==
    Followed(SendTo(own, OwnFrame(event, r)), SendTo(above, ParentFrame(event, r)))

Notify(b, event, r) ==
    /\ b \in connected \cap Backend /\ r \in exists
    /\ AfterOwn(event, r)
    /\ sent' = Frames(OwnAudience(event, r), ParentAudience(event, r), event, r)
    /\ told' = ToldRemoved(event, OwnAudience(event, r), r)
    /\ UNCHANGED <<exists, connected>>

\* Mutant of NotifyFailsInFirstLoop: the subscriptions are deleted all the same.
NotifyFailsAndDeletes(b, event, r) ==
    /\ b \in connected \cap Backend /\ r \in exists
    /\ \E own \in SUBSET OwnAudience(event, r) :
          /\ own # OwnAudience(event, r)
          /\ sent' = Followed(Frames(own, {}, event, r), SendTo({b}, ErrorFrame))
          /\ told' = ToldRemoved(event, own, r)
    /\ AfterOwn(event, r)
    /\ UNCHANGED <<exists, connected>>

\* Each frame is built on a fresh read of the database; when that fails, the rest
\* of the dispatch is skipped and onMessage reports the error to the notifier.
\* The order in which a set of subscribers is visited is arbitrary.  Looking up the
\* subscribers of the root's parent, None, may itself be the failure.
NotifyFailsInFirstLoop(b, event, r) ==
    /\ b \in connected \cap Backend /\ r \in exists
    /\ \E own \in SUBSET OwnAudience(event, r) :
          /\ own # OwnAudience(event, r)
          /\ sent' = Followed(Frames(own, {}, event, r), SendTo({b}, ErrorFrame))
          /\ told' = ToldRemoved(event, own, r)
    /\ UNCHANGED <<exists, connected, tables>>

NotifyFailsInSecondLoop(b, event, r) ==
    /\ b \in connected \cap Backend /\ r \in exists
    /\ event # "changed_descendants"
    /\ AfterOwn(event, r)
    /\ \E above \in SUBSET ParentAudience(event, r) :
          /\ above # ParentAudience(event, r) \/ r = Root
          /\ sent' = Followed(Frames(OwnAudience(event, r), above, event, r),
                              SendTo({b}, ErrorFrame))
    /\ told' = ToldRemoved(event, OwnAudience(event, r), r)
    /\ UNCHANGED <<exists, connected>>

-------------------------------------------------------------------------------
\* The database, changed by the backend's processes: a resource is created below
\* an existing one, or deleted with all that is below it.
DbCreate(r) ==
    /\ r \notin exists /\ Parent[r] \in exists
    /\ exists' = exists \cup {r}
    /\ sent' = Silence
    /\ UNCHANGED <<connected, tables, told>>

DbDelete(r) ==
    /\ r \in exists
    /\ exists' = exists \ Subtree(r)
    /\ sent' = Silence
    /\ UNCHANGED <<connected, tables, told>>

Next ==
    \/ \E c \in Client : Connect(c) \/ Close(c) \/ Refuse(c)
    \/ \E c \in Client, r \in Resource : Subscribe(c, r) \/ Unsubscribe(c, r)
    \/ \E b \in Client, event \in ServerEvent, r \in Resource :
          \/ Notify(b, event, r)
          \/ NotifyFailsInFirstLoop(b, event, r)
          \/ NotifyFailsInSecondLoop(b, event, r)
    \/ \E r \in NonRoot : DbCreate(r) \/ DbDelete(r)

Spec == Init /\ [][Next]_vars

-------------------------------------------------------------------------------
\* Properties.

\* Type invariant: the tables are dicts of non-empty sets.
TypeOK ==
    /\ exists \subseteq Resource
    /\ connected \subseteq Client
    /\ DOMAIN clients2paths \subseteq Client
    /\ \A c \in DOMAIN clients2paths : clients2paths[c] \in (SUBSET Resource) \ {{}}
    /\ DOMAIN paths2clients \subseteq Resource
    /\ \A r \in DOMAIN paths2clients : paths2clients[r] \in (SUBSET Client) \ {{}}
    /\ told \in [Client -> SUBSET Resource]

\* The two tables always hold the same pairs: is_subscribed and the dispatch agree
\* on who is subscribed, whatever sequence of requests, closes, removals and
\* failed dispatches led here; and a client whose connection ended is in neither.
TablesAgree ==
    \A c \in Client :
        /\ \A r \in Resource : r \in Lookup(clients2paths, c) <=> c \in Lookup(paths2clients, r)
        /\ Lookup(clients2paths, c) # {} => c \in connected

\* The server never drops a subscription behind its client's back: what a client was
\* told it is subscribed to it is, until it unsubscribes, its connection ends or it
\* is sent "removed" for that resource, also when the dispatch of "removed" fails.
NoSilentUnsubscribe ==
    \A c \in Client : told[c] \subseteq Lookup(clients2paths, c)

\* The pairs in the first table are the subscriptions of the abstract server, and
\* under this mapping every step of the server is one the abstract one allows.
Abstract == INSTANCE Subscriptions
            WITH subs <- {s \in Client \X Resource : s[2] \in Lookup(clients2paths, s[1])}

ImplementsSubscriptions == Abstract!Spec
===============================================================================
