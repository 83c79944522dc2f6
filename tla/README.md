# A verification of adhocracy3

adhocracy3 is a participation platform: a Pyramid REST backend on ZODB, a standalone websocket
server, and a browser application. The logic of the backend is about *versions and changes*: items
have immutable versions with a linear history; a new version updates what refers to the old one;
every transaction keeps a log of what it changed; from that log come the ETags, the purging of the
caching proxy, and the messages through which the websocket server tells browsers which parts of
their caches are stale. The logic of the browser is about *one page over many resources*: a cache
with subscriptions, a location that is routed to the data of three columns, a session shared by tabs
and an embedding page, and forms that read a resource in parts and post it back in one transaction.
These modules specify both in TLA+, check them with TLC, and prove the main results with TLAPS.

Paths below are relative to `src/src/adhocracy_core/adhocracy_core/` unless they begin with
`frontend:`, which is `src/src/adhocracy_frontend/adhocracy_frontend/static/js/Packages/Core/`,
or `mercator:`, which is `src/src/mercator/mercator/static/js/Packages/Mercator/`.

## The system

| Part | State it keeps | Operations | Interacts with |
|---|---|---|---|
| Resource tree (`resources/`) | pools with children, resources with counters | create, remove a subtree, hide | graph, changelog (events) |
| Reference graph (`graph/`) | references between resources | set, remove, iterate, is_in_subtree | changelog (back reference events) |
| Sheets (`sheets/`) | values of a resource | set: filter, store, announce | graph, changelog, automatic updates |
| Items and versions (`resources/item.py`, `itemversion.py`, `subscriber.py`) | versions, `follows`, LAST and FIRST tags | post a version, automatic update | graph, changelog |
| REST views (`rest/views.py`) and batches (`rest/batchview.py`) | request, batch mode | GET, PUT, POST, DELETE | all of the above |
| Changelog (`changelog/`) | metadata by path, in memory, per process | one subscriber per event, clear | counters on resources, hooks |
| Caching (`caching/`) | nothing of its own | ETag, conditional request, purge hook | counters, changelog, Varnish |
| Websocket client (`websockets/client.py`) | connection, unsent messages, listener thread | send after commit, reconnect | changelog, websocket server |
| Websocket server (`websockets/server.py`) | two tables of subscriptions, connections | subscribe, unsubscribe, dispatch, close | database (reads), clients |
| Browser cache (`frontend:Http/Cache.ts`, `WebSocket/`) | cached promises, registrations | memoize, invalidate, expire, evict | websocket server, REST backend |
| Browser HTTP service (`frontend:Http/Http.ts`, `PreliminaryNames/`) | transactions | get, post a version with retry, deep post | REST backend, cache |
| Listings (`frontend:Listing/`) | the pool shown, a registration | get, show, register, update | cache, websocket service |
| Sessions (`frontend:User/Credentials.ts`, `User.ts`) | token in memory and in the storage, user data | check, enable, delete, load | other tabs, REST backend, embedder |
| Embedding (`frontend:CrossWindowMessaging/`, `Embed/`) | what the embedding page was told | messages in and out | session, location |
| Routing (`frontend:TopLevelState/`, `ResourceArea/`, `MovingColumns/`) | location, area, data of the page, lock | route, go, go back, focus | session, REST backend, workbenches |
| Workbenches (`IdeaCollection/`, `DebateWorkbench/`, S1, Mercator, ...) | nothing of their own | routes and templates | routing |
| Forms (proposals, documents, comments, blogs, images) | the form's data, submissions under way | load, change, submit, upload, retry | HTTP service |
| Rates (`frontend:Rate/`, `sheets/rate.py`) | what a widget knows; rate items | cast, create, update, listen | HTTP service, event manager, websocket |
| Accounts (`resources/principal.py`, `rest/views.py`, `frontend:User/Views.ts`) | users, links, password resets, captcha | register, invite, activate, reset, edit, clean up | mails, pages |
| Badges (`frontend:Badge/Badge.ts`, `ResourceActions/`, `sheets/badge.py`) | assignments on items and versions | publish, moderate, hide, report, script | HTTP service, automatic updates |
| Workflows, catalogs, authorization | states, indexes, ACLs | transition, reindex, evaluate | tree, graph |

How they meet in one request: `root_factory` registers the hooks and callbacks (`__init__.py:72-93`);
the view calls sheets and factories; these send events, whose subscribers write to the changelog,
bump counters and make more versions, all by plain recursion in one thread; the transaction commits;
the after-commit hooks read the changelog, first to purge the proxy, then to notify the websocket
server; the finished callbacks clear the changelog. There are four backend processes, each with its
own changelog and websocket client, one database, and one websocket server, an asyncio process.

What makes each part correct, and what is hard about it:

* **Websocket server.** Two tables that five methods keep in step by hand; any frame of a dispatch
  can fail; the database moves on meanwhile. Correct: the tables agree, and nobody loses a
  subscription without being told.
* **Changelog and ETags.** Marks that stop a climb early, counters that grow once per transaction,
  a log that outlives an abort, resource objects that outlive their place in the tree. Correct: no
  changed representation keeps its ETag, and every visible change is announced, no more than once.
* **Versions.** A recursion through events over a graph that it changes itself, with three changelog
  fields as its memory. Correct: linear histories, immutable committed versions, one new version of
  an item per transaction, and no modification lost.
* **Notification.** Messages to a server that may be away, sent by one thread over a connection that
  another one replaces. Correct: browsers are told or know that they were not.
* **Browser cache.** A subscription that travels next to the GET it is for; bounded size; expiry.
  Correct: no stale entry beyond its maximal age, subscriptions match registrations.
* **Session and page.** Checks of tokens, data of users and resources of routes are asked for and
  answered in any order, while the user, other tabs and the embedding page go on. Correct: tabs agree
  on the session, the data are those of the user, the page is that of its URL, no lock stays.
* **Workbenches.** Routes and templates are written apart. Correct: every column has its keys, and
  every link a route.
* **Forms.** A dozen of them copy some forty fields in and out by hand, in parts that refer to each
  other before they have paths; between the click and the request lie uploads and GETs. Correct: what
  is stored is what the user saw, nobody's version is overwritten in silence, every preliminary name
  resolves, nothing hangs.
* **Rates.** Several widgets of one object, on several pages, create the user's rate on demand.
  Correct: one rate per user and object, and widgets of a page that agree.
* **Accounts.** Links, resets and accounts expire apart, and mails are followed late, twice or in the
  wrong order. Correct: good links lead to their account, names identify, nobody loses the email.

* **Badges.** A dialog of boxes that was filled some time ago, over assignments that others change and
  that new versions move. Correct: what was published is what the proposal shows, and a moderation is
  stored as a whole.

`PROJECT.json` lists every component and, as hazards, what can go wrong at which line.

## The modules

| Module | Models | Extends |
|---|---|---|
| `ResourceTree` | places of the tree, lineages, subtrees | |
| `ServerFrames` | the frames of the websocket server (`websockets/schemas.py`) | `ResourceTree` |
| `Subscriptions` | what the websocket server promises: the abstract specification | `ServerFrames` |
| `WebsocketServer` | `websockets/server.py` | `ServerFrames`; instantiates `Subscriptions` |
| `Changelog` | `changelog/`, the counters, the ETag, the notification hook, and the operations that write to them | `ResourceTree` |
| `ItemVersions` | `resources/itemversion.py`, the automatic updates of `resources/subscriber.py`, version posts and batches of `rest/` | |
| `WebSocketService` | `frontend:WebSocket/WebSocket.ts`, `EventManager/` | |
| `HttpCache` | `frontend:Http/Cache.ts` | `WebSocketService` |
| `HttpService` | GETs of `frontend:Http/Http.ts`, warming up the cache | `HttpCache` |
| `LiveUpdate` | a browser with a listing, and the server: the composition | `HttpService` |
| `Credentials` | `frontend:User/Credentials.ts` in all tabs | |
| `Routes` | the routes and columns of all workbenches | |
| `TopLevelState` | `frontend:TopLevelState/`, `ResourceArea/`, `MovingColumns/` | `Routes` |
| `Session` | a tab: session, user, page, embedder | `Credentials`, `TopLevelState` |
| `Batch` | `deepPost`, `sortDagTopologically`, preliminary names | |
| `Forms` | what each form reads, fills and posts | `Batch` |
| `Editing` | forms at work, in two browsers | `Forms` |
| `Rating` | `frontend:Rate/Rate.ts`, `sheets/rate.py` | |
| `Accounts` | users, links, resets, captcha | |
| `Moderation` | `frontend:Badge/Badge.ts`, `frontend:ResourceActions/`, `frontend:Abuse/`, the moderation of Mercator 2016 | |
| `Posting` | the four of them as one specification | `Editing`, `Rating`, `Accounts`, `Moderation` |
| `MC*` | small instances for TLC | |
| `*Proofs` | theorems and proofs | the module they are about, `TLAPS` |

### WebsocketServer

One handler call is one action, because the server is one event loop and no handler yields.
`clients2paths` and `paths2clients` are the two dicts of `ClientTracker`, as functions on the keys
present, so that an empty set left behind, or a key made by reading a `defaultdict`, would show.
`exists` is the database, changed at any time by `DbCreate` and `DbDelete`: every handler syncs its
connection before it looks a resource up. `Subscribe`, `Unsubscribe` and `Refuse` are the outcomes
of `onMessage` for a client's request; `Notify` dispatches an event of the backend;
`NotifyFailsInFirstLoop` and `NotifyFailsInSecondLoop` are that dispatch when building a frame
raises, with any part of the loop's subscribers already served, since the order of a set is
arbitrary. The history variable `told` is what each client must believe from the frames it got.

`Subscriptions` has one relation, and says whom each event reaches and in which order, and that a
dispatch that fails serves the first audience before it ends a subscription.
`ImplementsSubscriptions` is the refinement, by the first table.

### Changelog

One process, whose requests come one after the other: `Begin`, operations (one, or several of a
batch), then `Commit`, `NotifyHook`, `Finish`, or `Abort`. An operation is a whole handler with all
its subscribers: `Modify`, `ModifyAcl`, `SetReference`, `Create`, `CreateItem`, `SetHidden`,
`Delete`. `log` is the changelog, one set of paths for each flag of the metadata; `db` has what
ETags are made from; `saved` is the database at the beginning, for the roll-back and for the
properties; `changed` is the history of what was changed since.

`metadata.resource` is an object, and the hooks take its path and lineage after the commit. The
module keeps in `top[r]` where that lineage ends: at the root, or at a resource that was cut off by
its deletion, or nowhere, for an entry whose resource was replaced by `None`. From this the first
and the fourth finding follow.

### ItemVersions

A version is the n-th of its item. One post opens a transaction (or is one of a batch); creating a
version pushes on `stack` a creation, whose notifications `Ignore`, `AutoUpdate`, `AutoCreate` or
`Fail` handle one at a time; `AutoCreate` pushes another one; `Created` ends the innermost. Which
references the generator of `get_back_references` yields, while handlers change them, is left open:
any source that was there at the beginning or is there now may come next, and a creation ends only
when all that stayed were notified. `created`, `followedBy` and `lastVersion` are the changelog
fields by which the recursion knows what the transaction made already. The references of an item
are one set, its order and its field are not modelled.

`Careful` restricts what clients name as predecessor in a batch: the version that was head before
it, as the application's own frontend does. Without it the last finding appears.

That a client names a predecessor at all is its duty (`docs/rest_api.rst:630`), and not checked: the
sheet with it may be left out of a post (`sheets/__init__.py:66`), and no validation runs then. The
new version is the LAST of its item, follows none, and nobody is notified of it
(`PostFollowingNone`); a version that a batch has made keeps what it follows (`UpdateFollowingNone`).
Clients may do so in every configuration, the `Careful` ones, too. `loose` remembers the later
versions that were posted like that, and `LinearHistory` says of them that they follow none, until a
post of the same batch names their predecessor.

### LiveUpdate

One browser, and the server with all other clients. `browser` holds the fields of the three services;
their methods are operators from one such record to the next, so that a task of the browser (an event,
an answer, a click) is one action that calls them as the code does. Promises that are settled call
back later: `soon` is the queue. A handler is registered under an id; `Trigger` puts the handlers of
a path in `visiting`, in the order of their registration, which is how a listing comes to be told
before its own cache entry is; `Visit` is one turn of that loop, which passes over a handler that an
earlier turn has removed. While a loop or the queue is not at its end no other task begins (`Quiet`).
A new handler takes an id that no handler of the path and no turn to come holds; ids of the code are
never used again. `OthersCommit`, `Publish`, `Lose`
and `Subscribe` are the server: a change is published some time after its commit, to those who are
subscribed then, or to nobody when the way is interrupted. `Watch`, `Update`, `Leave` are the listing;
its answers call `ThenShow` and `ThenRegister`. Versions stand for contents.

The history fields say what an assumption of a property needs: `unheard` of an entry, that a change
was published to others only; `missed` of the listing, that no event will tell it; `leaked`,
registrations whose function to end them is lost.

### Session

`session` is the state of `Credentials` in all tabs with the local storage, `user` the data of the
user service, `page` the location and the state of the page, `embedder` what the embedding page was
told. A task ends in a digest (`Digest`), which runs the watches: on the user's path, on the location,
on the login state; a message of the embedder runs none (`NoDigest`). `Credentials` and
`TopLevelState` are methods as operators again; `Routes` has the tables: for each workbench its pages
with needed permission, given keys and columns, and for each column its keys and links. A route waits
for its resource and then perhaps for the options (`pending`, `phase`), with the lock on; the answer,
the refusal and the missing resource are actions. Locations are records: area, page, search keys,
whether the version is old and whether the page is embedded. `initial` is the embedder's
`initialUrl`, to which `/` and `/embed` lead.

`strayed`, `mistaken`, `passed`, `stranded` and `diverted` are histories of what the code gets wrong
on known paths (below); the properties hold everywhere else.

### Posting: Editing, Rating, Accounts, Moderation

Four ways of posting, which share rules of the server but no state. A behaviour of `Posting` is of
one of them (`part`), the others stay idle; one run explores all.

*Editing.* `Forms` gives, for each of eleven kinds of resource, the parts and fields; `Read`, what the
form is filled with; `Fill`, what it posts; and the directive with its steps. A field's value is who
entered it, so that a field that is copied to the wrong place, dropped or filled from an older version
shows. `Editing` runs two browsers on one resource: `Open` (perhaps from a stale cache), `Touch`,
`AddParagraph`, `ChangeParagraph`, `Cancel`, `Submit`, then a job with the steps of its directive:
reading the old version, uploading, getting, posting, refusal, retry. Where the code reads the form
at the click the job keeps a copy, else it reads the page when it gets there. `entered`, `live` and
`emptied` remember which fields had been changed at the click, since then, or were emptied by the form. `Batch` turns what is
posted into requests by the code's own sort, whose edges are parents and single references; the
server resolves a preliminary name that an earlier request made.

*Rating.* `rateItems` and `rateLog` are the server; `widgets` what each widget knows, `casts` and
`fetches` the requests it waits for, `messages` what the websocket has to tell. `Cast` creates the
item if the widget knows of none (`ServerCreates`), and posts a version to it (`ServerTakesRate`,
with the validation of `sheets/rate.py`); on success the event manager tells the widgets of the page
in the order of their registration (`Trigger`), one that is still being mounted throws.

*Accounts.* `accounts` are the users' sheets and attributes, `mails` all links with what their page
shows, `resets` the password resets that exist, `register` the page with the captcha, `profile` the
page for editing. Server and page are one step, since no page does anything while it waits, except
for the captcha, whose answers come in any order or not at all (`GotChallenge`). `Wait` is time,
`DeleteStaleLoginData` the script.

*Moderation.* `assignments` are the badge assignments, each on a version of the proposal or on its
item; `screens` the page of each moderator, with one modal at a time and its dialog; `calls` the
requests under way, which may be answered in any order, late or never (`Loses`). The dialog is filled
in two steps, the proposal with its item (`ReadsAssignments`) and the assignments (`ReadsBadges`), from
a cache that may be behind (`cached`, `unheard`). `StoresBadges` is the transaction of a submitted
dialog; `StoresFunding` and `StoresWinner` are the two independent requests of a moderation.
`NewVersion` moves the assignments of the last version to the new one (`AutoUpdated`), and `Script` is
`ad_assign_badges`. `promise` is what the last change promised, if its author knew all the others; it is
empty otherwise. A moderator who has hidden the proposal leaves the page and does not return, and the
user of the script assigns each badge at most once. The two GETs of the proposal and its item that fill
the dialog are one step: changes between them are taken for changes after both.

## What TLC checks

| Run | Checks | Bounds | States |
|---|---|---|---|
| `server` | `TypeOK`, `TablesAgree`, `NoSilentUnsubscribe`, `ImplementsSubscriptions` | 2 clients, one a notifier; 4 places in 3 levels, one forbidden | 4,704 |
| `changelog` | `TypeOK`, `MarksUpwardClosed`, `CountedOnce`, `ETagTracksChange`, `NoticesComplete` | 5 places in 4 levels, an item with its version; 2 transactions of up to 2 operations; 1 reference besides tags | 1,070,120 |
| `versions` | `TypeOK`, `LinearHistory`, `CommittedVersionsStay`, `OneVersionPerTransaction`, `UpdatesReachLast` | 3 items in a chain, 3 versions each; 2 transactions, batches of up to 2 posts; at most one later version posted without a predecessor | 636,523 |
| `live_update` | `StaleIsAnnounced`, `RegistrationsAccounted`, `SubscriptionsFollow`, `ListingFollowsEvents`, `NothingStaysStale` | a pool and an item in it; 1 change of each; 1 frame and 2 handlers per path; 2 requests; 2 incidents | 522,141 |
| `session` | `SessionsAgree`, `UserDataMatches`, `EmbedderKnows`, `PageFollowsLocation`, `UserGetsThere`, `ColumnsHaveTheirKeys`, `LinksAreRouted`, `RoutingSettles` | 2 tabs, 2 users; all workbenches; 0 to 3 moves of the user and 0 to 2 incidents for each | 164,244 |
| `posting` | `StoresWhatTheFormShows`, `ConflictIsReported`, `EveryReferenceResolves`, `OpensWhatItMade`, `OneRatePerUser`, `WidgetsAgree`, `NothingIsStuck`, `LinksLead`, `LoginsIdentify`, `EmailIsKept`, `CaptchaFits`, `PublishedBadgesStay`, `ModerationIsWhole` | 11 forms, 2 browsers, 3 versions, 2 submissions, 1 change, 1 failure; 2 pages with 3 widgets, 2 users, 2 events; 2 accounts, 3 links, 2 names, 2 emails, 4 days, 4 acts; 2 moderators, 2 badges, 4 turns | 1,256,433 |

Why the bounds are enough. The server treats each pair of client and resource alike, but for the
parent, the root and the forbidden paths, and each of those is there; two clients are needed for a
dispatch that is cut between them, or closes one. In the changelog two operations meet in every
order, within a transaction and across two; the tree is deep enough for a climb that stops in the
middle, and has two branches. In the versions the chain lets an update climb twice; two transactions
are needed for references that are committed and versions that are old, two posts for a batch that
meets its own versions. One later version without a predecessor (`MaxLoose`) may be updated in its
batch, committed and followed by the next. With a diamond instead of the chain (`Elements <- Diamond`, one transaction)
the first four properties hold, too, while `UpdatesReachLast` does not: there a single post reaches an
item twice, and the second update overwrites the first, as in the finding about batches below. The
chain is the largest shape without that. The proofs below cover all sizes.

In `live_update` an incident is a change of the listing's path, a lost notification or answer, an
eviction, or the end of the connection: any two of them meet in any order, among them the ones that
are needed for a registration to be lost while its answer is under way. A pool and its item are enough
for an answer to force another entry in, and for a change that touches both. `MaxQueue` and
`MaxHandlers` limit when a task may begin, not what it does: a task that began runs to its end. In
`session` the moves
and incidents are given for each workbench (`MCMaxMoves`, `MCMaxIncidents`): every page of each is
visited by its URL and by the links of its columns; sessions are explored in full, with two
incidents (log-ins, log-outs, failures, messages, reloads), where there is one page only, and with
one incident between moves in one workbench. In `posting`, forms that create share nothing, so one
browser with two submissions at once stands for all; forms that edit have two browsers with one each.
The days are chosen at each side of the ages: 8 is the last good day of a link and one too late for
a reset; 31 and 61 are past the ages of the script. Two users are needed for a name or an email that
is taken; three links for a registration, a reset and a new email of one user. Where there is a
captcha, two acts suffice for two challenges under way, as registration itself is in the other part.
Four turns are enough to check or uncheck a box, publish, and post a version before, between or after;
or for two moderators to open and publish at the same time. A funding form that finds a badge, and one
that finds none, both occur, as the script assigns every badge of a winner.

The server's run has a view without the frames of the last step, which no action reads; the
frames are still compared at every step by the refinement. Deadlock is checked for the server; the
other models end when their transactions, versions or incidents are used up. For each property, `PROJECT.json` names a
mutant of the model, a plausible bug, under which TLC finds it violated.

### Liveness and fairness

* `NothingStaysStale` (`live_update`): what the cache holds of an old version, or of a failure, does
  not stay for ever, whatever is lost. Assumed: weak fairness of the turns of an event's loop and of
  the callbacks of settled promises, which run before anything else; and strong fairness of an entry's age, a timer that
  is due again and again between digests. Nothing is assumed of the connection, the server or the user.
* `RoutingSettles` (`session`): the lock of the page is released, or its route has thrown, or the
  session was led astray. Assumed: weak fairness of the answers to a route's own requests, which the
  server gives or refuses; and of the answer to the check of a stored token or its timeout.
* `NothingIsStuck` (`posting`) is stated as an invariant: while a submission has not settled or a
  widget is locked, a step is possible that needs no user. As retries and requests are bounded
  (`timeoutRounds`), what was started can always end; no fairness is needed to say so. Submissions
  of Mercator 2015 that wait for ever for a GET that failed are left out by `Pending`.

The abstract websocket server allows any step to fail, and has no liveness of its own.

### Where the code differs from its documentation

| Run | Property, from the documentation | What the code does |
|---|---|---|
| `changelog_removed` | `RemovedIsAnnounced` (websockets.rst) | a deleted resource is announced, and purged, as the root: its name and parent are gone when the hooks run |
| `changelog_deletion` | `DeletionChangesETag` (deletion.rst) | nothing marks the parent, so its listing with the deleted child can be revalidated |
| `changelog_hidden` | `HiddenStaysUnannounced` (comment in `utils/__init__.py`) | hiding a hidden resource again is taken for a revelation: it is announced as created |
| `changelog_items` | `RootHearsOfItems` (websockets.rst) | an item's first version wipes the resource from the root's metadata, so the root's event is lost |
| `versions_batch` | `AllModificationsStored` (rest_api.rst) | automatic updates overwrite the batch's version with values of the old one |
| `versions_follows` | `LinearHistory` (rest_api.rst) | in a batch a version can be made to follow itself, or an old version |

`NoticesComplete` and `ETagTracksChange` are stated so that they hold besides these: the former
exempts metadata that names the wrong resource (`Misnamed`), both speak of the resources in
`changed`, to which a deletion adds the targets of its references but not the parent. A resource
created without a creator, or anonymously, does not mark the pools above it (`Create`), so they
are no part of `changed` either.

### Known deviations that properties exempt

The properties of the browser and of accounts hold besides the following, each of which is named at
the property or its history variable. They contradict no sentence of the documentation in a way that
one property could state, so they have no run of their own.

Sessions and pages:
* The answer to the check of a stored token may come after a log-out or another log-in: a late success
  enables the old session again, a late refusal removes the newer one
  (`frontend:User/Credentials.ts:66`, `:72`; `strayed`).
* The user's data are those of the request that is answered last (`frontend:User/User.ts:61`; `mistaken`).
* The embedder is told when somebody logs in or out, not when one user follows another
  (`frontend:CrossWindowMessaging/CrossWindowMessaging.ts:220`; `passed`).
* A route whose path is `/r` throws at once and keeps the lock (`frontend:ResourceArea/ResourceArea.ts:309`);
  a route that ends while the user is on the way elsewhere takes him back (`stranded`, `diverted`).
* An error of a route that was asked for in one area, and comes when the user is in another, is shown
  nowhere: the page stays blank after he came back, until he goes elsewhere (`frontend:TopLevelState/TopLevelState.ts:223`;
  `RoutedToError` sets `stranded`). It takes three moves.
* An embedder that gives `/` as the `initialUrl` makes `/` lead to itself, and the page stays blank
  (`stranded`, too).
* The list of pages one does not return to has `/activate`, which no activation link equals
  (`frontend:TopLevelState/TopLevelState.ts:390`).

Forms and rates:
* Requests of a batch are in a good order only because sources are taken from a stack: list
  references are no edges (`frontend:Util/Util.ts:122`; a mutant with a queue breaks it).
* Mercator 2015 reads the title as an object and posts it so (`mercator:2015/Proposal/Proposal.ts:326`;
  `Garbled`), and a GET of a part that fails leaves the submission hanging (`:709`; `Pending`).
* Comments derive from the newest version when they are saved, and images are retried against it:
  another user's version is overwritten without a word (`frontend:Comment/Comment.ts:172`,
  `frontend:Image/Image.ts:86`; `WritesOver`).
* A widget that loses the race for the first rate leaves an item that nobody uses
  (`frontend:Rate/Rate.ts:248`); one that is being mounted when another one tells of a cast throws, and those
  after it are not told (`:372`; `WidgetsAgree` is about pages without such a mishap).

Accounts:
* `has_new_email_pending` is tested, but not called (`schemas.py:471`): whoever was activated by a
  password reset and follows the first link then, gets the new email that there is not
  (`resources/principal.py:157`). `EmailIsKept` is about all others.
* A new email is nobody's until its link is followed, and is not checked again then; two users may end
  with the same one, for which the search raises an error (`resources/principal.py:420`; `moved`).
* The link for a new email is good for some days after the user *registered* (`schemas.py:464`), so
  that of an older user never is.
* `main` of `ad_delete_stale_login_data` passes the ages of users and resets in the other order than
  `delete_stale_login_data` takes them (`:35-39`). `LinksLead` holds if both exceed the links' lifetimes, as the
  defaults do (`AccountsAssumption`).
* Two challenges that are asked for at once leave the image of one with the id of the other
  (`frontend:User/Views.ts:381-383`; `overlapped`).

Moderation and badges:
* The page of Mercator 2016 takes a shortlisted proposal for one with a badge, but its moderation looks
  for the other two only (`mercator:2016/Proposal/Proposal.ts:549`, `:481`): moderating it assigns
  `shortlist` again, which is refused, while the funding was stored (`ModerationIsWhole` says that this
  is the only case).
* The funding and the badge are two requests, and nothing handles the failure of one: half a moderation
  is stored, and the form stays, which can be submitted twice. Two moderators at once can give a
  proposal both `winning` and `community`.
* The boxes are keyed by badge (`frontend:Badge/Badge.ts:248`): of a badge that is assigned to the
  version and to the item, unchecking removes one only. `PublishedBadgesStay` is about moderators whose
  list had no such pair.
* A badge that is published on the page of an old version stays there, since only the assignments of
  the newest are moved.
* `ad_assign_badges` takes an assignment for new if another user made it, so a badge can be assigned twice.
* A late answer closes whatever dialog of its kind is open by then, and alerts on the page of another
  version.

## What is proved

The theorems about the tree, the server and the changelog hold for every tree of resources (`TreeAssumption`: every place's lineage reaches the
root), every set of clients, items and forbidden paths, and any number of operations and
transactions; TLC's bounds appear as constants of any value.

* **Lineages** (first part of `ChangelogProofs`). A lineage is defined as the least set that is closed under
  parents, so that no recursion is needed; a fact about its members is shown by giving a closed set.
* **The server** (`WebsocketServerProofs`). `TypeOK`, `TablesAgree` and `NoSilentUnsubscribe`
  together are inductive: the methods look up one table to change the other, so each needs that they
  agree, and that no set is empty for `Discard` to delete the right keys. `Refinement` maps each
  action to one of `Subscriptions`, using that invariant; with it, audiences are computed from one
  relation, and the order of frames is the abstract one.
* **The changelog** (`ChangelogProofs`). The inductive invariant adds to the checked properties that
  dates are at most the transaction's number, that what is in `changed` is marked or dated, what
  the events hide is hidden, that between requests everything is blank, and which resource each
  metadata entry names. `MarksUpwardClosed` is the heart: the climb that stops at the first mark
  marks all ancestors because the marks were closed before. From it follow `CountedOnce`,
  `ETagTracksChange` and, with what `top` says of each entry, `NoticesComplete`. `ClimbIsRecursive`
  shows that the set `Climb(r)` is what the loop of the code marks.
* **Accounts** (first part of `PostingProofs`), for any number of users, links, names, emails, days and steps, and
  for any ages of the script that are no less than the links' lifetimes (`AccountsAssumption`).
  None of the four properties is inductive. `AccountsAreFine` adds: a link of a user who is not active
  is exactly as old as the user, since only active users can ask for another one, and is the one that
  the user waits for; who is gone was never active and is older than the script's age; whose path is
  set has a mail with it; an active user who waits for a link has a new email to be activated, unless a
  password reset made him active. So a good link leads somewhere: its user can be gone only if the
  user, and then the link, is too old. `LinksLead`, `LoginsIdentify` and `EmailIsKept` follow. The
  steps are proved through `ChangesKeepAccounts`, which says once what a step may make of one existing
  user and of the links, and `CreatesKeepsAccounts`, for new ones. `PageIsFine` is the invariant of
  the captcha: whatever asks for a challenge hides the one before, so unless two were asked for at
  once the answer meets a page that shows none.

* **Items and versions** (`ItemVersionsProofs`), for any items and any number of versions, posts and
  transactions. `VersionsInv` is what holds whatever embeds what: tags are those of the newest versions,
  what the changelog and the creations under way name exists and is of this transaction, and what was
  saved is as it was. `TypeOK` and `CommittedVersionsStay` follow. The others have hypotheses:
  * `LinearHistory`, that clients are `Careful`, as in its run, and nothing about what refers to what. They
    may leave predecessors out: what that does to the history is part of the property.
  * `OneVersionPerTransaction`, that no item embeds itself, directly or through others: `Acyclic`, a rank
    that falls from an item to what it embeds. With two items that embed each other TLC finds a post
    that makes two versions of one, since a version is in the changelog only when all that refers to its
    predecessor has been notified; in a batch, where `lastVersion` is looked up, it makes one (`BatchesMakeOne`).
  * `UpdatesReachLast`, `Acyclic` again, on which the proof rests, though TLC finds no counterexample
    among two items in a circle; and that there is one way only from an item to what is in it
    (`SinglePaths`), which excludes the diamond above.

  What the frontend posts has no cycle: a comment refers to what it is about, a document to its parts; a
  client of its own could make one of sections. `OnceInv` adds that the creations under way go upwards in rank,
  and that an item with a new version is in the changelog or is one of them; `LinearInv` that each version
  follows the one before it, or none if it is one of `loose`, all of which exist; `ReachInv` that what was followed lies above the posted item, that new
  versions refer to none that was followed, and that a creation under way has notified all of them.
* **Rates** (`RatingProofs`), for any pages, widgets, users and requests. `RatingInv` makes
  `OneRatePerUser` inductive with the creator of each item and with what widgets and casts know:
  only items that there are. `AgreeInv` says when a widget may lag behind: when the last rate of
  a page's user was made there, some cast on it is about to tell the others, or each loaded widget
  shows it or has asked since the cache was sure of it. `WidgetsAgree` follows. The proof needs
  neither the messages of the websocket nor any order between answers to different widgets.
* **Sessions** (`SessionProofs`, to `SessionInvariance`), for any tabs and users. `SessionsAgree` is
  inductive with the types, since a tab that is told of anything has an event to wait for.
  `UserDataMatches` is shown with what the watch of the user's path has seen (`DataFollow`), `EmbedderKnows` with what the
  embedder was told last (`Told`).
* **The page** (`SessionProofs`, `RoutingInv` and `WaysInv`), for every workbench, bookmark and number
  of moves. A digest is followed through its states: `PageInv` after it, `Unwatched` before the watches of the
  location, `Unrouted` before a route; each method leads from one to the next. `PageFollowsLocation` follows from
  `PageInv`. `WayInv`, `UnwatchedWay` and `UnroutedWay` add where the location leads to: to where the user asked to go
  last, or to the login with a way back, and that the page was given what is in the search;
  `UserGetsThere` follows. Assumed are that no token is the path "nothing" (`SessionAssumption`) and that no bookmark
  is of a bad path and old (`RoutesAssumption`): both are about tables, and TLC evaluates them.
  The proof found the two blank pages above, which a longer run of TLC then confirmed.
* **Columns and links** (`SessionProofs`), for the same. `ColumnsHaveTheirKeys` and `LinksAreRouted` relate a
  column's template to the routes, which are different files of the code. One lemma per workbench goes through its pages
  (`PagesFit`): a visible column reads only what the page's route gives, and its links lead to pages there are. That the data
  do have what the route gives is an invariant (`GivesKeys`), since a digest replaces the data of the page in several
  steps, and a route may wait for the options of its resource meanwhile.
  The proof found that the cases of `Columns` overlapped, so that the definition left open which columns a
  user's page has; now those of users and of other pages come before the workbench's own.
* **Moderation** (`ModerationProofs`), for any moderators, badges, versions and turns. `ModerationInv`
  counts changes: a dialog or a request that remembers the present number of changes fits what the
  server has now, and one that remembers an earlier number promises nothing. What it fits is
  named by the paths of assignments and not by the assignments, since a description may change unheard. A cache
  has what the server has of every object whose changes it heard of, so what such a moderator
  reads is true. The winner's badge needs the two orders in which badges are looked for:
  whatever `UpdateOrder` finds first `ShownOrder` does, too, and it misses `shortlist` only (`FirstBadges`).

* **The browser's cache and its listing** (`LiveUpdateProofs`), for any tree, any number of requests,
  handlers, frames, changes and incidents. The four properties are proved from one invariant, `Inv`,
  which is about the whole state between two turns of the event loop. For each path (`PathOk`): the
  count is that of the handlers, and no two have one id; the last frame on its way, or the server if
  there is none, says whether the path is registered (`FramesAt`); a handler that waits for its turn
  is the one it was (`TurnsAt`); the count is that of the entry, the listing and what was lost; the entry and the
  listing have their handler; the promise of an entry is that of a request for its path. On top:
  * `FreshAt`, for `StaleIsAnnounced`: it speaks of answers that are still under way, too, and asks that
    the turn to come is the *entry's own*. That the event will drop the entry depends on that, and on
    the agreement of entry and handler.
  * `ListingFollows`, for `ListingFollowsEvents`: an event or the listing's turn is still to come, or a
    promise that will call it, or it shows what there is. This holds only because an event
    that finds the entry still there when the listing is called counts as missed (`ListingFirst`).
  * `Known`: no answer is newer than the resource, without which the order of two answers would matter.

  Each method of the services has lemmas of its own, about any browser and not about the state: what
  it changes, and which parts of the invariant it keeps. The loops over all paths (`Together`) need that
  the turn of one path neither reads nor writes what is another's. The lemma of an action is then a
  composition of those of the methods it calls.

* **Forms at work** (`PostingProofs`), for any browsers, every kind of form, any number of versions,
  changes, submissions, slots and failures. Two invariants, of which the second needs the first:
  * `ConflictInv` is about where each page and each job is: at a step of its directive, knowing the form it
    left behind if that is not open any more; versions follow each other; a job that had its success, and a form
    that closed as saved, have a version; and a form that is still open after a click waits for a job,
    shows an error, or stays on purpose after its version was stored.
  * `StoresInv` says field by field what each page, each job and each version holds (`PageFits`,
    `JobFits`, `VersionFits`): the user's value where it was entered, else what the form was loaded
    with. `StoresWhatTheFormShows` is about versions only, and a job that reads the form late takes over what
    the page has by then: the page has to fit first, for the fields entered since the click, too (`live`).
    What is stored of a document's paragraphs goes by their place in the version it was loaded from, so each
    text has to be in one place (`Lists`), which the sequence of four steps in `InOrder` keeps.

  The fields' own part is one lemma for each way of a form, which says of any value what `Read`, `Fill`,
  `CleanOrganizationInfo` and the derivation from another version do to a field.
  Looking for `StoresInv` showed that the property was too strong as first stated: `cleanOrganizationInfo` empties a
  field that was entered before the click when the user picks another status while the submission is
  on its way, and the job reads the form after that. TLC finds that with larger bounds than
  the run's; `emptied` now names those fields.
* **Posting** (`PostingProofs`, to `PostingInvariance`). The run's own specification composes the forms with rates,
  accounts and moderation; its invariant is the conjunction of theirs, since each step is one part's and leaves
  the variables of the others alone. The theorems about each of them so hold of `Posting` as well.

Only model-checked: of `Editing`, `EveryReferenceResolves` and `OpensWhatItMade`, which rest on the
sort of `Batch`. That is a fold over the resources of a form, and what it computes for every
input would need an induction over them; it is checked for every form and every combination of parts that
`Editing` reaches. Liveness and `ENABLED` are out of the prover's
reach (`NothingStaysStale`, `RoutingSettles`, `NothingIsStuck`).

## Plan

1. **Concurrent transactions**: two processes that post a successor of one version, or a first rate,
   at once, with the conflict resolution of the database as an external part.
2. **The proxy** between browsers and backend, with the purge hook before the notification.

## What is not modelled

Authentication, assets, mails, the activity stream and the audit log, scripts, the admin interface,
schemas and rendering have no interleavings or invariants of their own worth a model, or are input
and output; workflows and authorization are static tables, read in one step; of the customization
packages only routes, columns and forms are modelled, the rest is declarations on top of the core.

Not modelled within the modelled parts:
* Backend: the purge hook, GET and its visibility filters, names of new resources, forkable versions,
  which no resource type uses, and the transactions of two processes at once.
* Notification: the listener thread of the websocket client and its reconnecting. They decide when a
  notification is lost; `LiveUpdate` may lose any of them at any time.
* Listings: facets, sorting and paging, which only decide which query is made.
* Routing: the page for registering asks the server whether users may be posted, and routes to an error
  if not (`User/ViewsModule.ts:78`). The default permissions let everybody, so that this page
  always gets its data in `OnResource`.
* Forms: most conditions of validity, the upload itself, widgets
  that only show. That Mercator 2015 posts an empty batch when a closed form is clicked again is left
  out, too. Its planned date is read with `moment().format` in the browser's time zone
  (`2015/Proposal/Proposal.ts:383`), which may move it by a day; `Read` takes the date over as it
  is. Idea proposals read a picture where `hasImage` is set (`IdeaCollection/Proposal/Proposal.ts:141`), and
  never post it; no process sets that, and `IdeaFields` has no picture.
* Rates: anonymous rates, the aggregated totals, widgets that are destroyed.
* Badges: groups and facets of badges, the lists of badges that can be assigned, permissions; of the menu,
  messages to users, sharing and printing, which change no state.
* Sessions: passwords, cookies, the server's side of tokens.
