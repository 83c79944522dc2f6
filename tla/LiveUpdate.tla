------------------------------- MODULE LiveUpdate -------------------------------
(***************************************************************************)
(* One browser and the server.  Others change resources; each change is    *)
(* published to subscribers some time after its commit, unless the way to  *)
(* the websocket server is interrupted.  In the browser a listing shows    *)
(* what it gets of a pool, and gets it again at each event.  Callbacks run *)
(* to completion: an action is one task of the browser, or one turn of it.  *)
(***************************************************************************)
EXTENDS HttpService

CONSTANTS MaxVersion,
          MaxQueue,     \* frames on their way to the server, per path, and
          MaxHandlers,  \* handlers per path, with which a task may still begin
          MaxIncidents  \* changes of the listing's path, losses, failures, evictions, closings

ASSUME LiveAssumption ==
    /\ NoPath \notin Path
    /\ \A p \in Path : Parent[p] # p
    /\ MaxVersion \in Nat \ {0}

VARIABLES browser,      \* readyState, connected, registrations, handlers, up,
                        \* visiting (handlers whose turn is to come in the loop of
                        \* an event), cache, requests, soon, and for properties:
                        \* thrown, and leaked (registrations nobody can end)
          listing,      \* [path, alive, shown, off]: what it should and does show;
                        \* and missed: a change it was not or wrongly told of
          incidents,    \* how many more may come
          version,      \* version[p]: of the resource in the database
          unpublished,  \* changed resources the subscribers are to be told of
          subs,         \* the browser's subscriptions at the server
          down          \* down[p]: events on their way to the browser

vars == <<browser, listing, incidents, version, unpublished, subs, down>>
server == <<version, unpublished, subs, down>>

NoOff == [path |-> NoPath, id |-> 0]
NoList == [path |-> NoPath, ver |-> NoVersion]

Init ==
    /\ browser = [readyState |-> "connecting", connected |-> FALSE,
                  registrations |-> [p \in Path |-> 0],
                  handlers |-> [p \in Path |-> <<>>],
                  up |-> [p \in Path |-> <<>>],
                  visiting |-> <<>>,
                  cache |-> [p \in Path |-> NoEntry],
                  requests |-> [i \in RequestIds |-> NoRequest],
                  soon |-> <<>>, thrown |-> FALSE,
                  leaked |-> [p \in Path |-> 0]]
    /\ listing = [path |-> NoPath, alive |-> TRUE, shown |-> NoList, off |-> NoOff,
                   missed |-> FALSE]
    /\ incidents = MaxIncidents
    /\ version = [p \in Path |-> 1]
    /\ unpublished = {}
    /\ subs = {}
    /\ down = [p \in Path |-> 0]

\* Room for the handlers and frames of one more task, and for a request.
Room == \A p \in Path : /\ Len(browser.handlers[p]) < MaxHandlers
                        /\ Len(browser.up[p]) < MaxQueue
CanAsk == Room /\ Idle(browser) # {}

Use == incidents > 0 /\ incidents' = incidents - 1

\* The turns of an event's loop, and then what settled promises call in the digest
\* that follows, run before other tasks.
Quiet == browser.visiting = <<>> /\ browser.soon = <<>>

\* ------------------------------------------------------------------- server
\* A transaction changes p: p and the pools above it read differently.
Above(p) == {p, Parent[p]} \cap Path
Commit(p) ==
    /\ \A q \in Above(p) : version[q] < MaxVersion
    /\ version' = [q \in Path |-> IF q \in Above(p) THEN version[q] + 1 ELSE version[q]]
    /\ unpublished' = unpublished \cup Above(p)

OthersCommit(p) == Quiet /\ Commit(p) /\ UNCHANGED <<browser, listing, incidents, subs, down>>

\* A change of p that no event will tell the listing, or this browser, of.
ListingMisses(p) ==
    listing' = IF listing.path = p THEN [listing EXCEPT !.missed = TRUE] ELSE listing
Unheard(p) ==
    /\ ListingMisses(p)
    /\ browser' = IF IsCached(browser, p) THEN [browser EXCEPT !.cache[p].unheard = TRUE]
                  ELSE browser

Publish(p) ==
    /\ Quiet
    /\ p \in unpublished
    /\ unpublished' = unpublished \ {p}
    /\ IF p \in subs
       THEN down' = [down EXCEPT ![p] = @ + 1] /\ UNCHANGED <<browser, listing>>
       ELSE Unheard(p) /\ UNCHANGED down
    /\ UNCHANGED <<incidents, version, subs>>

\* The notification is popped and its connection breaks, or there is none.
Lose(p) ==
    /\ Quiet
    /\ p \in unpublished
    /\ unpublished' = unpublished \ {p}
    /\ Unheard(p)
    /\ Use
    /\ UNCHANGED <<version, subs, down>>

Subscribe(p) ==
    /\ Quiet
    /\ browser.up[p] # <<>>
    /\ subs' = IF Head(browser.up[p]) = "subscribe" THEN subs \cup {p} ELSE subs \ {p}
    /\ browser' = [browser EXCEPT !.up[p] = Tail(@)]
    /\ UNCHANGED <<listing, incidents, version, unpublished, down>>

Answer(i) ==
    /\ Quiet
    /\ browser.requests[i].state = "sent"
    /\ browser' = Answered(browser, i, version)
    /\ UNCHANGED <<listing, incidents, server>>

\* ------------------------------------------------------------------- socket
Open ==
    /\ Quiet
    /\ browser.readyState = "connecting"
    /\ browser' = OnOpen(browser)
    /\ UNCHANGED <<listing, incidents, server>>

BeginClose ==
    /\ Quiet
    /\ browser.readyState = "open"
    /\ browser' = Closing(browser)
    /\ Use
    /\ UNCHANGED <<listing, server>>

\* The cache listens to the close event.
Close ==
    /\ Quiet
    /\ browser.readyState = "closing"
    /\ browser' = InvalidateAll(OnClose(browser))
    /\ subs' = {}
    /\ down' = [p \in Path |-> 0]
    /\ UNCHANGED <<listing, incidents, version, unpublished>>

\* Mutant: only the cache listens.
OnEventNoReload(b, h) == IF h.owner = "cache" THEN Invalidate(b, h.path) ELSE b

\* Callbacks of an event: the cache drops its entry, the listing gets it again.
OnEvent(b, h) ==
    IF h.owner = "cache" THEN Invalidate(b, h.path) ELSE Get(b, listing.path, "show")

Of(p, owner) == {k \in DOMAIN browser.handlers[p] : browser.handlers[p][k].owner = owner}

\* The entry's handler was registered again after the last event, so that the
\* listing's may come first and find the entry that the event is about to drop.
ListingFirst(p) ==
    Hit(browser, p) /\ \E j \in Of(p, "listing") : \A k \in Of(p, "cache") : j < k

Deliver(p) ==
    /\ Quiet
    /\ down[p] > 0 /\ browser.readyState = "open"
    /\ Cardinality(Of(p, "listing")) <= Cardinality(Idle(browser))
    /\ down' = [down EXCEPT ![p] = @ - 1]
    /\ browser' = Trigger(browser, p)
    /\ IF listing.off.path = p /\ ~ListingFirst(p)
       THEN listing' = [listing EXCEPT !.missed = FALSE]
       ELSE ListingMisses(p)
    /\ UNCHANGED <<incidents, version, unpublished, subs>>

\* One turn of the loop; there are idle requests enough.
Visit ==
    LET h == Head(browser.visiting)
    IN  /\ browser.visiting # <<>>
        /\ h.owner = "listing" => Idle(browser) # {}
        /\ browser' = IF Handles(browser, h.path, h.id) THEN OnEvent(Visited(browser), h)
                      ELSE Visited(browser)
        /\ UNCHANGED <<listing, incidents, server>>

\* ----------------------------------------------------------------- requests
Response(i) ==
    /\ Quiet
    /\ browser.requests[i].state = "read" /\ Room
    /\ browser' = Receive(browser, i)
    /\ UNCHANGED <<listing, incidents, server>>

NoResponse(i) ==
    /\ Quiet
    /\ browser.requests[i].state # "none" /\ Room
    /\ browser' = Fail(browser, i)
    /\ Use
    /\ UNCHANGED <<listing, server>>

\* ------------------------------------------------------------ cached entries
\* An entry's age limit is not moved by its use.
Age(p) ==
    /\ Quiet
    /\ IsCached(browser, p)
    /\ browser' = Expire(browser, p)
    /\ UNCHANGED <<listing, incidents, server>>

\* Entries of other resources fill the cache.
MakeRoom(p) ==
    /\ Quiet
    /\ IsCached(browser, p) /\ Room
    /\ browser' = [Evict(browser, p) EXCEPT !.leaked[p] = @ + 1]
    /\ Use
    /\ UNCHANGED <<listing, server>>

\* ------------------------------------------------------------------ listing
UnregisterListing(b) ==
    IF listing.off = NoOff THEN b ELSE Unregister(b, listing.off.path, listing.off.id)

\* Its path is bound to another pool: get that, and register when it is there.
Watch(p) ==
    /\ Quiet
    /\ listing.alive /\ p # listing.path /\ CanAsk
    /\ browser' = Get(UnregisterListing(browser), p, "watch")
    /\ listing' = [listing EXCEPT !.path = p, !.off = NoOff, !.missed = FALSE]
    /\ Use
    /\ UNCHANGED server

\* Another order, or a new element from the listing's own form.
Update ==
    /\ Quiet
    /\ listing.alive /\ listing.path # NoPath /\ CanAsk
    /\ browser' = Get(browser, listing.path, "show")
    /\ UNCHANGED <<listing, incidents, server>>

Leave ==
    /\ Quiet
    /\ listing.alive
    /\ browser' = UnregisterListing(browser)
    /\ listing' = [listing EXCEPT !.alive = FALSE, !.off = NoOff]
    /\ Use
    /\ UNCHANGED server

\* The answer for an earlier path, an answer that a later one overtook, a failure, or
\* a stale entry: nothing will tell the listing of what it lacks.
Lacking(call) ==
    \/ call.path # listing.path
    \/ call.ver < version[call.path] /\ call.path \notin unpublished /\ down[call.path] = 0

Show(call) == [listing EXCEPT !.shown = [path |-> call.path, ver |-> call.ver],
                              !.missed = @ \/ Lacking(call)]

\* A promise calls back, the listing ...
Calling(k) ==
    /\ browser.visiting = <<>> /\ browser.soon # <<>>
    /\ Head(browser.soon).then = k
Popped == [browser EXCEPT !.soon = Tail(@)]

ThenShow ==
    /\ Calling("show")
    /\ browser' = Popped
    /\ listing' = IF Head(browser.soon).ver = NoVersion
                  THEN [listing EXCEPT !.missed = @ \/ Lacking(Head(browser.soon))]
                  ELSE Show(Head(browser.soon))
    /\ UNCHANGED <<incidents, server>>

\* ... and then it registers for what it shows now.  The function to end the
\* registration is lost if there was another one, or if the listing is gone.
ThenRegister ==
    LET call == Head(browser.soon)
        p == call.path
        off == [path |-> p, id |-> RegisteredId(browser, p)]
        b == Register(Popped, p, "listing")
        lost == IF listing.alive THEN listing.off ELSE off
    IN  /\ Calling("watch")
        /\ IF call.ver = NoVersion THEN browser' = Popped /\ UNCHANGED listing
           ELSE /\ browser' = IF lost = NoOff THEN b
                              ELSE [b EXCEPT !.leaked[lost.path] = @ + 1]
                /\ listing' = [Show(call) EXCEPT !.off = IF listing.alive THEN off ELSE NoOff]
        /\ UNCHANGED <<incidents, server>>

\* -------------------------------------------------------------------- steps
Server(p) == OthersCommit(p) \/ Publish(p) \/ Lose(p) \/ Subscribe(p)
Socket == Open \/ BeginClose \/ Close \/ \E p \in Path : Deliver(p)
Requests == \E i \in RequestIds : Answer(i) \/ Response(i) \/ NoResponse(i)
Listing == (\E p \in Path : Watch(p)) \/ Update \/ Leave

Next == \/ Visit \/ ThenShow \/ ThenRegister
        \/ \E p \in Path : Server(p) \/ Age(p) \/ MakeRoom(p)
        \/ Socket \/ Requests \/ Listing

\* The event loop runs what is queued, and time passes; a timer that is due waits
\* for the digest under way, again and again perhaps, but not for ever.  Nothing is
\* assumed of the user, other clients, the server, notifications and connection.
Fairness == /\ WF_vars(Visit \/ ThenShow \/ ThenRegister)
            /\ \A p \in Path : SF_vars(Age(p))

Spec == Init /\ [][Next]_vars /\ Fairness

\* --------------------------------------------------------------- properties
\* A response the cache holds although the resource has changed since.
Stale(p) ==
    /\ browser.cache[p].promise.state = "ok"
    /\ browser.cache[p].promise.ver < version[p]

\* While the connection is up, the answer to an entry's own request is not old
\* unless an event about it is under way, or one was never sent to this browser
\* (the subscription came too late, or the notification was lost).  Answers forced
\* in by a pool's are left out: they may be older than what they replace.
StaleIsAnnounced ==
    \A p \in Path :
        Stale(p) /\ ~browser.cache[p].promise.forced /\ browser.readyState = "open"
          => \/ p \in unpublished \/ down[p] > 0
             \/ \E k \in DOMAIN browser.visiting : browser.visiting[k].path = p
             \/ browser.cache[p].unheard

\* What is stale, for whatever reason, or a failure does not stay for ever.
NothingStaysStale ==
    \A p \in Path : (Stale(p) \/ browser.cache[p].promise = Failed)
                      ~> ~(Stale(p) \/ browser.cache[p].promise = Failed)

\* When nothing is under way, a listing shows the pool as it is, unless it missed
\* the last change: an event was lost, or came before the listing had registered
\* or before the cache was told, or the answer was lost or overtaken.
ListingFollowsEvents ==
    /\ browser.readyState = "open" /\ Quiet /\ unpublished = {}
    /\ \A i \in RequestIds : browser.requests[i] = NoRequest
    /\ listing.alive /\ listing.off.path = listing.path /\ ~listing.missed
    /\ listing.path \in subs /\ down[listing.path] = 0
    => listing.shown = [path |-> listing.path, ver |-> version[listing.path]]

\* Registrations are those of the entries and of the listing, and those nobody
\* can end any more; each has its callback; and none is ended twice.
RegistrationsAccounted ==
    /\ ~browser.thrown
    /\ \A p \in Path :
         /\ browser.registrations[p] = Len(browser.handlers[p])
         /\ browser.registrations[p] = browser.leaked[p]
              + (IF IsCached(browser, p) THEN 1 ELSE 0)
              + (IF listing.off.path = p THEN 1 ELSE 0)
         /\ IsCached(browser, p) => Handles(browser, p, browser.cache[p].off)

\* When the server has handled what was sent, it has exactly the subscriptions
\* that are registered; entries exist only while the service is connected.
SubscriptionsFollow ==
    /\ browser.readyState = "open" =>
         \A p \in Path : browser.up[p] = <<>> => (p \in subs <=> browser.registrations[p] > 0)
    /\ ~browser.connected => \A p \in Path : ~IsCached(browser, p)
================================================================================
